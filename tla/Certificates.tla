---------------------------- MODULE Certificates ----------------------------
(***************************************************************************)
(* marvin/certificates and apps/config: the environment the programs are   *)
(* started in, the certificate store the config utility builds on disk,    *)
(* the single Certificates object made from it, and the X509_STORE of root *)
(* certificates that object shares with every ssl context.                 *)
(*                                                                         *)
(* The config utility builds the store in steps, and may be stopped, or    *)
(* fail, between any two of them; the store is then what the steps done so *)
(* far left.  The X509_STORE is reference counted: a context takes over    *)
(* one reference and gives it back when it is destroyed.                   *)
(*                                                                         *)
(* The cert library is external: Store::load() is taken to throw where the *)
(* authority or the saved configuration is missing.                        *)
(***************************************************************************)
EXTENDS Naturals, Sequences, FiniteSets

CONSTANTS
  Contexts,    \* names of ssl contexts
  MaxConfigs   \* bound: runs of the config utility

VARIABLES
  env,         \* HOME, MARVIN_HOME and the working directory
  disk,        \* per candidate of MARVIN_HOME, what is in its .marvin directory
  config,      \* the config utility, or createStore(): what it has still to do
  configs,     \* how often one of them was started
  maker,       \* ghost: who made the store of each home
  instance,    \* s_instance_uptr: what the object was made from
  refs,        \* the reference count of its X509_STORE
  contexts,    \* the contexts that hold the X509_STORE
  aborted      \* an exception nobody catches ended the process

certificates == <<env, disk, config, configs, maker, instance, refs, contexts, aborted>>

Homes == {"user", "project"}          \* ~ and ~/Projects/marvin++
Places == Homes \cup {"elsewhere", "unset"}

NoInstance == [made |-> FALSE, maker |-> "nobody", roots |-> FALSE]

\* What is there before the config utility runs: a .marvin directory with
\* ca_config.json, or not.
Init ==
  /\ env \in [HOME : {"user", "unset"}, MARVIN_HOME : Places, cwd : Homes \cup {"elsewhere"}]
  /\ disk \in [Homes -> {{}, {"ca_config"}}]
  /\ config = [steps |-> <<>>, home |-> "user", by |-> "nobody"] /\ configs = 0
  /\ maker = [h \in Homes |-> "nobody"]
  /\ instance = NoInstance /\ refs = 0 /\ contexts = {} /\ aborted = FALSE

-----------------------------------------------------------------------------
(* env_utils.                                                               *)

validWorkingDir == env.cwd = "project" \/ (env.HOME # "unset" /\ env.cwd = env.HOME)

validEnvVariables ==
  /\ env.MARVIN_HOME # "unset" /\ env.HOME # "unset"
  /\ env.MARVIN_HOME \in Homes

\* setEnvMarvinHome(), setMarvinHomeToUserHome(), setMarvinHomeToProjectHome():
\* the last two read HOME without looking whether it is set.
setMarvinHome(home) ==
  /\ home # env.MARVIN_HOME /\ ~instance.made
  /\ \/ env' = [env EXCEPT !.MARVIN_HOME = home] /\ UNCHANGED aborted
     \/ /\ home \in Homes
        /\ IF env.HOME = "unset"
           THEN aborted' = TRUE /\ UNCHANGED env
           ELSE env' = [env EXCEPT !.MARVIN_HOME = home] /\ UNCHANGED aborted
  /\ UNCHANGED <<disk, config, configs, maker, instance, refs, contexts>>

-----------------------------------------------------------------------------
(* Building the store: what was there is removed, and the parts of the new  *)
(* one appear in the order of the steps.                                     *)

Parts == {"store_dir", "authority", "roots", "config"}

\* Fault: the configuration is saved as soon as there is an authority.
ConfigSteps_Early == <<"remove_all", "store_dir", "authority", "config", "roots">>

\* main() of apps/config: any answer to its question lets it go on.
ConfigSteps == <<"remove_all", "store_dir", "authority", "roots", "config">>

\* Certificates::createStore() fetches no root certificates.
createStoreSteps == <<"remove_all", "store_dir", "authority", "config">>

Builds(home, steps, by) ==
  /\ configs < MaxConfigs /\ config.steps = <<>> /\ "ca_config" \in disk[home]
  /\ configs' = configs + 1
  /\ config' = [steps |-> steps, home |-> home, by |-> by]
  /\ UNCHANGED <<env, disk, maker, instance, refs, contexts, aborted>>

\* The utility throws unless its environment is valid.
ConfigStarts ==
  /\ validWorkingDir /\ validEnvVariables
  /\ Builds(env.MARVIN_HOME, ConfigSteps, "config")

createStore(home) == Builds(home, createStoreSteps, "createStore")

\* remove_all() deletes one thing after the other; the last is the directory.
RemoveStep ==
  /\ config.steps # <<>> /\ Head(config.steps) = "remove_all"
  /\ \E left \in SUBSET (disk[config.home] \cap Parts) :
       /\ left # {} => "store_dir" \in left /\ left # disk[config.home] \cap Parts
       /\ disk' = [disk EXCEPT ![config.home] = (@ \ Parts) \cup left]
       /\ maker' = [maker EXCEPT ![config.home] = IF left = {} THEN config.by ELSE "remains"]
       /\ config' = [config EXCEPT !.steps = IF left = {} THEN Tail(@) ELSE @]
  /\ UNCHANGED <<env, configs, instance, refs, contexts, aborted>>

BuildStep ==
  /\ config.steps # <<>> /\ Head(config.steps) # "remove_all"
  /\ disk' = [disk EXCEPT ![config.home] = @ \cup {Head(config.steps)}]
  /\ config' = [config EXCEPT !.steps = Tail(@)]
  /\ UNCHANGED <<env, configs, maker, instance, refs, contexts, aborted>>

\* The utility is stopped, or a step throws, before it took effect.
BuildStops ==
  /\ config.steps # <<>>
  /\ config' = [config EXCEPT !.steps = <<>>]
  /\ UNCHANGED <<env, disk, configs, maker, instance, refs, contexts, aborted>>

-----------------------------------------------------------------------------
(* The Certificates object.                                                 *)

\* The constructors' checks, and those of Store::load().
Loadable(home) == {"store_dir", "authority", "config"} \subseteq disk[home]

\* Either constructor once its checks are passed.  X509_STORE_load_locations()
\* fails where the bundle is missing; nobody looks at what it returns.
Constructed(home) ==
  /\ instance' = [made |-> TRUE, maker |-> maker[home], roots |-> "roots" \in disk[home]]
  /\ refs' = 2 /\ UNCHANGED aborted

\* init(marvin_home).
init(home) ==
  /\ ~aborted /\ ~instance.made
  /\ IF Loadable(home) THEN Constructed(home) ELSE aborted' = TRUE /\ UNCHANGED <<instance, refs>>
  /\ UNCHANGED <<env, disk, config, configs, maker, contexts>>

\* The first getInstance() without an init(): the default constructor.
getInstance ==
  /\ ~aborted /\ ~instance.made
  /\ IF validEnvVariables /\ validWorkingDir /\ Loadable(env.MARVIN_HOME)
     THEN Constructed(env.MARVIN_HOME)
     ELSE aborted' = TRUE /\ UNCHANGED <<instance, refs>>
  /\ UNCHANGED <<env, disk, config, configs, maker, contexts>>

\* Fault: the pointer is handed out and no reference taken.
get_X509_STORE_ptr_NoRef == refs

\* The count after get_X509_STORE_ptr().
get_X509_STORE_ptr == refs + 1

\* Connection::become_secure_client(), makeSecure() and certContactServer():
\* SSL_CTX_set_cert_store() hands the reference to the context.
Secures(c) ==
  /\ instance.made /\ ~aborted /\ c \notin contexts
  /\ refs' = get_X509_STORE_ptr /\ contexts' = contexts \cup {c}
  /\ UNCHANGED <<env, disk, config, configs, maker, instance, aborted>>

\* The context is destroyed with the socket it belongs to.
Releases(c) ==
  /\ c \in contexts
  /\ contexts' = contexts \ {c} /\ refs' = refs - 1
  /\ UNCHANGED <<env, disk, config, configs, maker, instance, aborted>>

BuildNext ==
  \/ ConfigStarts \/ RemoveStep \/ BuildStep \/ BuildStops
  \/ \E home \in Homes : createStore(home)

UseNext ==
  \/ getInstance
  \/ \E home \in Homes : init(home)
  \/ \E home \in Homes \cup {"elsewhere"} : setMarvinHome(home)
  \/ \E c \in Contexts : Secures(c) \/ Releases(c)

Next == BuildNext \/ (UseNext /\ ~aborted)

-----------------------------------------------------------------------------
(* Properties.                                                              *)

\* However many contexts come and go, the X509_STORE outlives them: one
\* reference at least is nobody's but the Certificates object's.
StoreHeld == instance.made => refs > Cardinality(contexts)

\* A Certificates object made from a store that the config utility has built, or
\* was building when it was stopped, has root certificates to trust.  A store made
\* by createStore() lacks them, and so may the remains of an older store whose
\* removal was cut short: neither counts as one of the utility.
RootsTrusted == instance.made /\ instance.maker = "config" => instance.roots

\* Both: what a secure connection relies on when it verifies a server.
TrustKept == StoreHeld /\ RootsTrusted
=============================================================================
