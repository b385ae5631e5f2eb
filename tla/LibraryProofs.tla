--------------------------- MODULE LibraryProofs ---------------------------
(***************************************************************************)
(* Proofs about parts of Library, each for every value of its constants:   *)
(* the start of the proxy thread, the one PipeCollector, the shared        *)
(* X509_STORE and the store on disk, the answers to the calls on a         *)
(* Request, the verdicts of the handshake utility and of the tests of      *)
(* certificate files, the captures of the collectors and of the Cocoa      *)
(* front end, the bytes of a buffer chain, and the message that is written *)
(* and read again.                                                         *)
(***************************************************************************)
EXTENDS Library, FiniteSets, FiniteSetTheorems, SequenceTheorems, WellFoundedInduction,
        NaturalsInduction, TLAPS

-----------------------------------------------------------------------------
(* Numbers and loops.                                                       *)

\* The least-number principle.
LEMMA LeastNumber ==
  ASSUME NEW Some \in SUBSET Nat, Some # {}
  PROVE  \E x \in Some : \A y \in Some : x <= y
<1>1. PICK x \in Some : \A y \in Some : ~(<<y, x>> \in OpToRel(<, Nat))
  BY NatLessThanWellFounded, WFMin
<1>2. \A y \in Some : ~(y < x)
  BY <1>1 DEF OpToRel
<1> QED
  BY <1>2

\* Induction up to n, for a property given as the set of what has it.
LEMMA UpTo ==
  ASSUME NEW n \in Nat, NEW P, 0 \in P, \A k \in 1..n : k - 1 \in P => k \in P
  PROVE  \A k \in 0..n : k \in P
<1> DEFINE Missing == {k \in 0..n : k \notin P}
<1>1. Missing = {}
  <2> SUFFICES ASSUME Missing # {} PROVE FALSE
    OBVIOUS
  <2>1. Missing \in SUBSET Nat
    OBVIOUS
  <2>2. PICK k \in Missing : \A y \in Missing : k <= y
    BY <2>1, LeastNumber
  <2>3. k # 0
    BY <2>2
  <2>4. k \in 1..n /\ k - 1 \in 0..n /\ ~(k <= k - 1)
    BY <2>2, <2>3
  <2>5. k - 1 \in P
    BY <2>2, <2>4
  <2> QED
    BY <2>2, <2>4, <2>5
<1> QED
  BY <1>1

\* A loop of n turns over the elements of V, each turn a function, and the
\* sequence g of what it leaves after each turn.
IsLoop(n, V, start, turn) == n \in Nat /\ start \in V /\ turn \in [1..n -> [V -> V]]
IsRun(g, n, V, start, turn) ==
  g \in [0..n -> V] /\ g[0] = start /\ \A k \in 1..n : g[k] = turn[k][g[k - 1]]

\* There is such a sequence.
LEMMA Turns ==
  ASSUME NEW n, NEW V, NEW start, NEW turn, IsLoop(n, V, start, turn)
  PROVE  \E g : IsRun(g, n, V, start, turn)
<1>0. n \in Nat /\ start \in V /\ turn \in [1..n -> [V -> V]]
  BY DEF IsLoop
<1> DEFINE Some(m) == \E g \in [0..m -> V] :
                        g[0] = start /\ \A k \in 1..m : g[k] = turn[k][g[k - 1]]
           P == {m \in 0..n : Some(m)}
<1>1. Some(0)
  <2> DEFINE g == [k \in 0..0 |-> start]
  <2>1. g \in [0..0 -> V] /\ g[0] = start /\ \A k \in 1..0 : g[k] = turn[k][g[k - 1]]
    BY <1>0
  <2> QED
    BY <2>1
<1>2. ASSUME NEW m \in 1..n, Some(m - 1) PROVE Some(m)
  <2>1. PICK h \in [0..m - 1 -> V] :
          h[0] = start /\ \A k \in 1..m - 1 : h[k] = turn[k][h[k - 1]]
    BY <1>2
  <2>2. m \in Nat /\ m - 1 \in 0..m - 1 /\ h[m - 1] \in V
    BY <1>0, <2>1
  <2> DEFINE x == turn[m][h[m - 1]]
             g == [k \in 0..m |-> IF k = m THEN x ELSE h[k]]
  <2>3. x \in V
    BY <1>0, <2>2
  <2> HIDE DEF x
  <2>4. \A k \in 0..m : k # m => k \in 0..m - 1
    BY <2>2
  <2>5. g \in [0..m -> V]
    BY <2>3, <2>4
  <2>6. g[m] = x /\ \A k \in 0..m - 1 : g[k] = h[k]
    BY <2>2
  <2> HIDE DEF g
  <2>7. g[0] = start
    BY <2>1, <2>2, <2>6
  <2>8. ASSUME NEW k \in 1..m PROVE g[k] = turn[k][g[k - 1]]
    <3>1. CASE k = m
      BY <2>2, <2>6, <3>1 DEF x
    <3>2. CASE k # m
      <4>1. k \in 1..m - 1 /\ k \in 0..m - 1 /\ k - 1 \in 0..m - 1
        BY <2>2, <3>2
      <4> QED
        BY <2>1, <2>6, <4>1
    <3> QED
      BY <3>1, <3>2
  <2> QED
    BY <2>5, <2>7, <2>8
<1> HIDE DEF Some
<1>3. 0 \in P
  BY <1>0, <1>1
<1>4. ASSUME NEW k \in 1..n, k - 1 \in P PROVE k \in P
  BY <1>0, <1>2, <1>4
<1> HIDE DEF P
<1>5. n \in P
  <2>1. \A k \in 0..n : k \in P
    BY <1>0, <1>3, <1>4, UpTo
  <2> QED
    BY <1>0, <2>1
<1> QED
  BY <1>5 DEF P, Some, IsRun

-----------------------------------------------------------------------------
(* ProxyApp: MitmThread::start.                                             *)

\* The states of the threads that share the mutex and the flag.
ThreadStates ==
  /\ main \in {"parsing", "exited", "constructed", "locking", "testing", "waiting", "asleep",
               "started", "running"}
  /\ proxy \in {"none", "created", "made", "listening", "locked", "unlocked", "serving", "returned"}
  /\ m_mutex \subseteq {"main", "proxy"} /\ m_server_ready \in BOOLEAN

\* Each thread holds the mutex where it says so, and never both.
Exclusion ==
  /\ "main" \in m_mutex <=> main \in {"testing", "waiting"}
  /\ "proxy" \in m_mutex <=> proxy = "locked"
  /\ ~(main \in {"testing", "waiting"} /\ proxy = "locked")

\* The flag is what the callback made it, once start() has cleared it; a thread
\* that is about to sleep has seen it clear and still holds the mutex.
FlagTrue ==
  /\ main \in {"parsing", "exited", "constructed"} => proxy = "none"
  /\ main \notin {"parsing", "exited", "constructed"} =>
       /\ proxy # "none"
       /\ m_server_ready <=> proxy \in {"unlocked", "serving", "returned"}
  /\ main = "waiting" => ~m_server_ready
  /\ main = "asleep" /\ m_server_ready => proxy = "unlocked"
  /\ A!Up => m_server_ready

\* The control thread is started by a main that is back from start().
ControlAfter ==
  /\ ctl # "none" => A!Up
  /\ terminated # {} => ctl # "none"

StartInv == ThreadStates /\ Exclusion /\ FlagTrue /\ ControlAfter

\* The control sessions and the timer touch none of it but terminated, which
\* only a control server that listens does.
LEMMA StartStep ==
  ASSUME StartInv, [A!Next]_A!vars
  PROVE  StartInv'
<1> USE DEF StartInv, ThreadStates, Exclusion, FlagTrue, ControlAfter, A!Up,
            A!threads, A!timer, A!sessions
<1>1. CASE A!Parses
  BY <1>1 DEF A!Parses
<1>2. CASE A!Creates
  BY <1>2 DEF A!Creates
<1>3. CASE A!WaiterLocks
  BY <1>3 DEF A!WaiterLocks
<1>4. CASE A!WaiterTests
  BY <1>4 DEF A!WaiterTests
<1>5. CASE A!WaiterSleeps
  BY <1>5 DEF A!WaiterSleeps
<1>6. CASE A!WakesUp
  BY <1>6 DEF A!WakesUp
<1>7. CASE A!ThreadRuns
  BY <1>7 DEF A!ThreadRuns
<1>8. CASE A!CallbackLocks
  BY <1>8 DEF A!CallbackLocks
<1>9. CASE A!CallbackSets
  BY <1>9 DEF A!CallbackSets
<1>10. CASE A!CallbackNotifies
  BY <1>10 DEF A!CallbackNotifies
<1>11. CASE A!Collects
  BY <1>11 DEF A!Collects
<1>12. CASE A!Arms
  BY <1>12 DEF A!Arms
<1>13. CASE A!TimerFires \/ A!PostedRuns
  BY <1>13 DEF A!TimerFires, A!PostedRuns
<1>14. CASE A!ControlRuns
  BY <1>14 DEF A!ControlRuns
<1>15. CASE A!Returns
  BY <1>15 DEF A!Returns
<1>16. ASSUME NEW u \in Users, A!handle(u) \/ A!ReplyWritten(u) \/ A!SessionFails(u)
       PROVE  StartInv'
  BY <1>16 DEF A!handle, A!ReplyWritten, A!SessionFails
<1>17. ASSUME NEW u \in Users, NEW target \in A!Targets,
              \/ A!p_invalid_request(u, target) \/ A!p_handle_echo(u, target)
              \/ A!p_handle_stop(u, target) \/ A!p_handle_list_filters(u, target)
       PROVE  StartInv'
  BY <1>17 DEF A!p_invalid_request, A!p_handle_echo, A!p_handle_stop, A!p_handle_list_filters,
               A!p_internal_handle
<1>18. CASE UNCHANGED A!vars
  BY <1>18 DEF A!vars
<1> QED
  BY <1>1, <1>2, <1>3, <1>4, <1>5, <1>6, <1>7, <1>8, <1>9, <1>10, <1>11, <1>12, <1>13, <1>14,
     <1>15, <1>16, <1>17, <1>18 DEF A!Next

\* However the main thread and the proxy thread interleave, and whenever the
\* condition variable wakes up by itself, the notification is not lost,
\* MitmThread::start returns only when the server listens, and terminate() is
\* never called through a null m_server_uptr.
THEOREM StartSynchronisedHolds ==
  Spec => []StartSynchronised
<1> DEFINE Inv == part = "proxy_app" => StartInv
<1>1. Init => Inv
  <2>1. A!Init => StartInv
    BY DEF A!Init, StartInv, ThreadStates, Exclusion, FlagTrue, ControlAfter, A!Up
  <2> QED
    BY <2>1 DEF Init
<1>2. Inv /\ [Next]_vars => Inv'
  <2>1. [Next]_vars /\ part' = "proxy_app" => part = "proxy_app" /\ [A!Next]_A!vars
    BY DEF Next, vars, proxy_app, A!vars, A!threads, A!timer, A!sessions
  <2> QED
    BY <2>1, StartStep
<1>3. Inv => StartSynchronised
  <2>1. StartInv => A!StartSynchronised
    BY DEF StartInv, ThreadStates, FlagTrue, ControlAfter, A!Up, A!StartSynchronised, A!HasServer
  <2> QED
    BY <2>1 DEF StartSynchronised
<1> QED
  BY <1>1, <1>2, <1>3, PTL DEF Spec

-----------------------------------------------------------------------------
(* Collectors: PipeCollector::getInstance.                                  *)

Inside == {"locked", "making", "opening"}

CallerStates ==
  /\ caller \in [Threads -> [at : {"idle", "locking", "locked", "making", "opening", "returned", "threw"},
                             got : Nat]]
  /\ made \in {0, 1}

\* The mutex is held by the one thread that is inside.
OneInside == \A t \in Threads : caller[t].at \in Inside <=> s_mutex = {t}

\* The instance is stored under the mutex, right after it was made, and a
\* thread that goes on to make one has seen under the mutex that there is none.
InstanceStored ==
  /\ s_atomic_instance = made
  /\ \A t \in Threads :
       /\ caller[t].at \in {"making", "opening"} => made = 0
       /\ caller[t].at = "returned" => caller[t].got = 1 /\ made = 1

PipeInv == CallerStates /\ OneInside /\ InstanceStored

\* The steps of getInstance in one thread.
LEMMA GetInstanceStep ==
  ASSUME PipeInv, NEW t \in Threads,
         L!FirstLoad(t) \/ L!Locks(t) \/ L!SecondLoad(t) \/ L!Constructs(t) \/ L!Opens(t)
  PROVE  PipeInv'
<1> USE DEF PipeInv, CallerStates, OneInside, InstanceStored, Inside, L!At, L!Returns
<1>1. CASE L!FirstLoad(t)
  BY <1>1 DEF L!FirstLoad
<1>2. CASE L!Locks(t)
  BY <1>2 DEF L!Locks
<1>3. CASE L!SecondLoad(t)
  BY <1>3, SMTT(30) DEF L!SecondLoad
<1>4. CASE L!Constructs(t)
  <2>1. CallerStates'
    BY <1>4 DEF L!Constructs
  <2>2. OneInside'
    BY <1>4, SMTT(30) DEF L!Constructs
  <2>3. InstanceStored'
    BY <1>4 DEF L!Constructs
  <2> QED
    BY <2>1, <2>2, <2>3
<1>5. CASE L!Opens(t)
  <2>0. /\ caller[t].at = "opening" /\ made' = made + 1 /\ s_atomic_instance' = made + 1
        /\ s_mutex' = {} /\ caller' = [caller EXCEPT ![t] = [at |-> "returned", got |-> made + 1]]
    BY <1>5 DEF L!Opens
  <2>a. made = 0 /\ s_mutex = {t}
    BY <2>0
  <2>1. made = 0 /\ made' = 1 /\ s_atomic_instance' = 1 /\ s_mutex = {t} /\ s_mutex' = {}
        /\ caller' = [caller EXCEPT ![t] = [at |-> "returned", got |-> 1]]
    BY <2>0, <2>a
  <2>2. CallerStates'
    BY <2>1
  <2>3. \A u \in Threads : u # t => caller[u].at \notin Inside /\ caller[u].at # "returned"
    BY <2>1, SMTT(30)
  <2>4. OneInside'
    BY <2>1, <2>3
  <2>5. InstanceStored'
    BY <2>1, <2>3
  <2> QED
    BY <2>2, <2>4, <2>5
<1> QED
  BY <1>1, <1>2, <1>3, <1>4, <1>5

\* The other steps leave what getInstance works on alone.
LEMMA PipeStep ==
  ASSUME PipeInv, [L!PipeNext]_L!collectors
  PROVE  PipeInv'
<1>1. ASSUME NEW t \in Threads,
             L!FirstLoad(t) \/ L!Locks(t) \/ L!SecondLoad(t) \/ L!Constructs(t) \/ L!Opens(t)
      PROVE  PipeInv'
  BY <1>1, GetInstanceStep
<1>2. ASSUME UNCHANGED <<caller, s_mutex, s_atomic_instance, made>> PROVE PipeInv'
  BY <1>2 DEF PipeInv, CallerStates, OneInside, InstanceStored
<1>3. ASSUME NEW t \in Threads,
             NEW types \in [{"request", "response"} -> {"text", "application"}],
             L!collectToPipe(t, types)
      PROVE  PipeInv'
  BY <1>2, <1>3 DEF L!collectToPipe, L!pipe
<1>4. CASE L!PostedPipe \/ L!ReaderChanges
  BY <1>2, <1>4 DEF L!PostedPipe, L!ReaderChanges
<1>5. CASE UNCHANGED L!collectors
  BY <1>2, <1>5 DEF L!collectors, L!pipe
<1> QED
  BY <1>1, <1>3, <1>4, <1>5 DEF L!PipeNext

\* The double-checked locking of getInstance: with any number of threads, and
\* however often the constructor has thrown, one PipeCollector is made at most
\* and every call that returns has returned it.
THEOREM OneInstanceHolds ==
  Spec => [](part = "pipe" => L!OneInstance)
<1> DEFINE Inv == part = "pipe" => PipeInv
<1>1. Init => Inv
  <2>1. L!Init => PipeInv
    BY DEF L!Init, PipeInv, CallerStates, OneInside, InstanceStored, Inside
  <2> QED
    BY <2>1 DEF Init
<1>2. Inv /\ [Next]_vars => Inv'
  <2>1. [Next]_vars /\ part' = "pipe" => part = "pipe" /\ [L!PipeNext]_L!collectors
    BY DEF Next, vars, collectors, L!collectors, L!captures, L!display, L!pipe
  <2> QED
    BY <2>1, PipeStep
<1>3. Inv => (part = "pipe" => L!OneInstance)
  BY DEF PipeInv, CallerStates, OneInside, InstanceStored, Inside, L!OneInstance
<1> QED
  BY <1>1, <1>2, <1>3, PTL DEF Spec

-----------------------------------------------------------------------------
(* Certificates: the X509_STORE, and the store on disk.                     *)

\* The object holds two references, and every context one more.
References ==
  /\ IsFiniteSet(contexts)
  /\ instance.made \in BOOLEAN
  /\ instance.made => refs = Cardinality(contexts) + 2
  /\ ~instance.made => contexts = {}

\* The ends of ConfigSteps and of createStoreSteps.
S0 == <<"config">>
S1 == <<"roots", "config">>
S2 == <<"authority", "roots", "config">>
S3 == <<"store_dir", "authority", "roots", "config">>
S4 == <<"authority", "config">>
S5 == <<"store_dir", "authority", "config">>

\* What is still to be done is the end of the steps of config or createStore.
BuildStates ==
  /\ env \in [HOME : {"user", "unset"}, MARVIN_HOME : C!Places, cwd : C!Homes \cup {"elsewhere"}]
  /\ disk \in [C!Homes -> SUBSET (C!Parts \cup {"ca_config"})]
  /\ maker \in [C!Homes -> {"nobody", "config", "createStore", "remains"}]
  /\ config \in
       [steps : {<<>>, S0, S1, S2, S3, S4, S5, C!ConfigSteps, C!createStoreSteps},
        home : C!Homes, by : {"nobody", "config", "createStore"}]

\* A store is that of its maker once the old one is removed; one that the
\* config utility made has its roots before its configuration.
RootsFirst ==
  /\ config.steps \notin {<<>>, C!ConfigSteps, C!createStoreSteps} =>
       maker[config.home] = config.by
  /\ config.by = "config" =>
       /\ config.steps \notin {S4, S5, C!createStoreSteps}
       /\ config.steps = S0 => "roots" \in disk[config.home]
  /\ \A h \in C!Homes : maker[h] = "config" /\ "config" \in disk[h] => "roots" \in disk[h]
  /\ C!RootsTrusted

CertificatesInv == References /\ BuildStates /\ RootsFirst

\* What the steps are, and that they differ.
LEMMA StepsFacts ==
  /\ Head(S0) = "config" /\ Tail(S0) = <<>> /\ Head(S1) = "roots" /\ Tail(S1) = S0
  /\ Head(S2) = "authority" /\ Tail(S2) = S1 /\ Head(S3) = "store_dir" /\ Tail(S3) = S2
  /\ Head(S4) = "authority" /\ Tail(S4) = S0 /\ Head(S5) = "store_dir" /\ Tail(S5) = S4
  /\ Head(C!ConfigSteps) = "remove_all" /\ Tail(C!ConfigSteps) = S3
  /\ Head(C!createStoreSteps) = "remove_all" /\ Tail(C!createStoreSteps) = S5
  /\ S0 # <<>> /\ S1 # <<>> /\ S2 # <<>> /\ S3 # <<>> /\ S4 # <<>> /\ S5 # <<>>
  /\ S0 # S1 /\ S0 # S4 /\ S1 # S4 /\ S2 # S4 /\ S3 # S5
  /\ C!ConfigSteps # <<>> /\ C!createStoreSteps # <<>>
  /\ C!ConfigSteps # C!createStoreSteps
BY DEF S0, S1, S2, S3, S4, S5, C!ConfigSteps, C!createStoreSteps

\* Contexts that come take a reference, and those that go give it back.
LEMMA ReferencesKept ==
  ASSUME References, [C!Next]_C!certificates
  PROVE  References'
<1>1. ASSUME UNCHANGED <<instance, refs, contexts>> PROVE References'
  BY <1>1 DEF References
<1>2. CASE C!BuildNext
  BY <1>1, <1>2 DEF C!BuildNext, C!ConfigStarts, C!RemoveStep, C!BuildStep, C!BuildStops,
                    C!createStore, C!Builds
<1>3. ASSUME NEW home, ~instance.made, C!Constructed(home), UNCHANGED contexts PROVE References'
  <2>1. contexts' = {} /\ refs' = 2 /\ instance'.made = TRUE
    BY <1>3 DEF References, C!Constructed
  <2>2. IsFiniteSet(contexts') /\ Cardinality(contexts') = 0
    BY <2>1, FS_EmptySet
  <2>3. refs' = Cardinality(contexts') + 2
    BY <2>1, <2>2
  <2> QED
    BY <2>1, <2>2, <2>3 DEF References
<1>4. CASE C!getInstance
  BY <1>1, <1>3, <1>4 DEF C!getInstance
<1>5. ASSUME NEW home \in C!Homes, C!init(home) PROVE References'
  BY <1>1, <1>3, <1>5 DEF C!init
<1>6. ASSUME NEW home \in C!Homes \cup {"elsewhere"}, C!setMarvinHome(home) PROVE References'
  BY <1>1, <1>6 DEF C!setMarvinHome
<1>7. ASSUME NEW c \in Contexts, C!Secures(c) PROVE References'
  <2>1. instance.made /\ c \notin contexts /\ refs' = refs + 1 /\ contexts' = contexts \cup {c}
        /\ instance' = instance
    BY <1>7 DEF C!Secures, C!get_X509_STORE_ptr
  <2>2. IsFiniteSet(contexts') /\ Cardinality(contexts') = Cardinality(contexts) + 1
    BY <2>1, FS_AddElement DEF References
  <2>3. Cardinality(contexts) \in Nat /\ refs = Cardinality(contexts) + 2
    BY <2>1, FS_CardinalityType DEF References
  <2>4. refs' = Cardinality(contexts') + 2
    BY <2>1, <2>2, <2>3
  <2> QED
    BY <2>1, <2>2, <2>4 DEF References
<1>8. ASSUME NEW c \in Contexts, C!Releases(c) PROVE References'
  <2>1. c \in contexts /\ refs' = refs - 1 /\ contexts' = contexts \ {c} /\ instance' = instance
    BY <1>8 DEF C!Releases
  <2>2. instance.made /\ refs = Cardinality(contexts) + 2
    BY <2>1 DEF References
  <2>3. IsFiniteSet(contexts') /\ Cardinality(contexts') = Cardinality(contexts) - 1
    BY <2>1, FS_RemoveElement DEF References
  <2>4. Cardinality(contexts) \in Nat
    BY FS_CardinalityType DEF References
  <2> QED
    BY <2>1, <2>2, <2>3, <2>4 DEF References
<1>9. CASE UNCHANGED C!certificates
  BY <1>1, <1>9 DEF C!certificates
<1> QED
  BY <1>2, <1>4, <1>5, <1>6, <1>7, <1>8, <1>9 DEF C!Next, C!UseNext

\* The config utility and createStore().
LEMMA BuildKeeps ==
  ASSUME BuildStates, RootsFirst, C!BuildNext
  PROVE  BuildStates' /\ RootsFirst'
<1> USE StepsFacts
<1>0. UNCHANGED <<env, instance>>
  BY DEF C!BuildNext, C!ConfigStarts, C!RemoveStep, C!BuildStep, C!BuildStops, C!createStore, C!Builds
<1>1. C!RootsTrusted'
  BY <1>0 DEF RootsFirst, C!RootsTrusted
<1>2. CASE C!ConfigStarts
  <2>1. /\ env.MARVIN_HOME \in C!Homes /\ UNCHANGED <<disk, maker>>
        /\ config' = [steps |-> C!ConfigSteps, home |-> env.MARVIN_HOME, by |-> "config"]
    BY <1>2 DEF C!ConfigStarts, C!Builds, C!validEnvVariables
  <2>2. BuildStates'
    BY <1>0, <2>1 DEF BuildStates
  <2>3. config'.steps = C!ConfigSteps /\ C!ConfigSteps # S0 /\ C!ConfigSteps # S4 /\ C!ConfigSteps # S5
    BY <2>1
  <2> QED
    BY <1>1, <2>1, <2>2, <2>3 DEF RootsFirst
<1>3. ASSUME NEW home \in C!Homes, C!createStore(home) PROVE BuildStates' /\ RootsFirst'
  <2>1. /\ UNCHANGED <<disk, maker>>
        /\ config' = [steps |-> C!createStoreSteps, home |-> home, by |-> "createStore"]
    BY <1>3 DEF C!createStore, C!Builds
  <2>2. BuildStates'
    BY <1>0, <2>1 DEF BuildStates
  <2> QED
    BY <1>1, <2>1, <2>2 DEF RootsFirst
<1>4. CASE C!BuildStops
  <2>1. /\ UNCHANGED <<disk, maker>> /\ config' = [config EXCEPT !.steps = <<>>]
    BY <1>4 DEF C!BuildStops
  <2>2. BuildStates' /\ config'.steps = <<>>
    BY <1>0, <2>1 DEF BuildStates
  <2> QED
    BY <1>1, <2>1, <2>2 DEF RootsFirst
<1>5. CASE C!RemoveStep
  <2> DEFINE h == config.home
  <2>1. config.steps # <<>> /\ Head(config.steps) = "remove_all" /\ h \in C!Homes
    BY <1>5 DEF C!RemoveStep, BuildStates
  <2>2. config.steps \in {C!ConfigSteps, C!createStoreSteps}
    BY <2>1 DEF BuildStates
  <2>3. PICK left \in SUBSET (disk[h] \cap C!Parts) :
          /\ disk' = [disk EXCEPT ![h] = (@ \ C!Parts) \cup left]
          /\ maker' = [maker EXCEPT ![h] = IF left = {} THEN config.by ELSE "remains"]
          /\ config' = [config EXCEPT !.steps = IF left = {} THEN Tail(@) ELSE @]
    BY <1>5 DEF C!RemoveStep
  <2>4. config'.home = h /\ config'.by = config.by
        /\ config'.steps = IF left = {} THEN Tail(config.steps) ELSE config.steps
    BY <2>3 DEF BuildStates
  <2>5. config'.steps \in {S3, S5, C!ConfigSteps, C!createStoreSteps}
        /\ (config.by = "config" => config'.steps \in {S3, C!ConfigSteps})
    BY <2>2, <2>4 DEF RootsFirst
  <2>6. BuildStates'
    BY <1>0, <2>1, <2>3, <2>4, <2>5 DEF BuildStates
  <2>7. maker'[h] = (IF left = {} THEN config.by ELSE "remains") /\ disk'[h] = (disk[h] \ C!Parts) \cup left
        /\ \A g \in C!Homes : g # h => maker'[g] = maker[g] /\ disk'[g] = disk[g]
    BY <2>1, <2>3 DEF BuildStates
  <2>8. left = {} => "config" \notin disk'[h]
    BY <2>7 DEF C!Parts
  <2>9. \A g \in C!Homes : maker'[g] = "config" /\ "config" \in disk'[g] => "roots" \in disk'[g]
    BY <2>7, <2>8 DEF RootsFirst
  <2>10. config'.steps \notin {<<>>, C!ConfigSteps, C!createStoreSteps} => maker'[h] = config.by
    BY <2>2, <2>4, <2>7
  <2>11. S3 # S0 /\ S3 # S4 /\ S3 # S5 /\ S3 # C!createStoreSteps /\ C!ConfigSteps # S0
         /\ C!ConfigSteps # S4 /\ C!ConfigSteps # S5
    OBVIOUS
  <2> QED
    BY <1>1, <2>4, <2>5, <2>6, <2>9, <2>10, <2>11 DEF RootsFirst
<1>6. CASE C!BuildStep
  <2> DEFINE h == config.home
             piece == Head(config.steps)
  <2>1. /\ config.steps # <<>> /\ piece # "remove_all" /\ h \in C!Homes
        /\ disk' = [disk EXCEPT ![h] = @ \cup {piece}] /\ maker' = maker
        /\ config' = [config EXCEPT !.steps = Tail(@)]
    BY <1>6 DEF C!BuildStep, BuildStates
  <2>2. config.steps \in {S0, S1, S2, S3, S4, S5}
    BY <2>1 DEF BuildStates
  <2>3. config'.home = h /\ config'.by = config.by /\ config'.steps = Tail(config.steps)
    BY <2>1 DEF BuildStates
  <2>4. /\ piece \in {"config", "roots", "authority", "store_dir"}
        /\ config'.steps \in {<<>>, S0, S1, S2, S4}
    BY <2>2, <2>3, ZenonT(60)
  <2>5. BuildStates'
    BY <1>0, <2>1, <2>3, <2>4 DEF BuildStates, C!Parts
  <2>6. disk'[h] = disk[h] \cup {piece} /\ \A g \in C!Homes : g # h => disk'[g] = disk[g]
    BY <2>1 DEF BuildStates
  <2>7. maker[h] = config.by
    <3>1. config.steps \notin {<<>>, C!ConfigSteps, C!createStoreSteps}
      BY <2>1
    <3> QED
      BY <3>1 DEF RootsFirst
  <2>8. config.by = "config" => config.steps \in {S0, S1, S2, S3}
    BY <2>2 DEF RootsFirst
  <2>9. config.by = "config" /\ piece = "config" => "roots" \in disk[h]
    BY <2>8 DEF RootsFirst
  <2>10. \A g \in C!Homes : maker'[g] = "config" /\ "config" \in disk'[g] => "roots" \in disk'[g]
    BY <2>1, <2>6, <2>7, <2>9 DEF RootsFirst
  <2>11. config.by = "config" =>
           /\ config'.steps \in {<<>>, S0, S1, S2}
           /\ config'.steps = S0 => "roots" \in disk'[h]
    <3>1. Tail(S0) # S0 /\ Tail(S2) # S0 /\ Tail(S3) # S0
      OBVIOUS
    <3> QED
      BY <2>3, <2>6, <2>8, <3>1
  <2>12. S0 # S4 /\ S0 # S5 /\ S1 # S4 /\ S1 # S5 /\ S2 # S4 /\ S2 # S5 /\ S0 # C!createStoreSteps
         /\ S1 # C!createStoreSteps /\ S2 # C!createStoreSteps /\ <<>> # S4 /\ <<>> # S5
    OBVIOUS
  <2> QED
    BY <1>1, <2>1, <2>3, <2>5, <2>7, <2>10, <2>11, <2>12 DEF RootsFirst
<1> QED
  BY <1>2, <1>3, <1>4, <1>5, <1>6 DEF C!BuildNext

\* The Certificates object is made from a store that is complete.
LEMMA UseKeeps ==
  ASSUME BuildStates, RootsFirst, C!UseNext \/ UNCHANGED C!certificates
  PROVE  BuildStates' /\ RootsFirst'
<1>1. ASSUME UNCHANGED <<disk, maker, config>>, C!RootsTrusted',
             env' \in [HOME : {"user", "unset"}, MARVIN_HOME : C!Places, cwd : C!Homes \cup {"elsewhere"}]
      PROVE  BuildStates' /\ RootsFirst'
  <2>1. BuildStates'
    BY <1>1 DEF BuildStates
  <2> QED
    BY <1>1, <2>1 DEF RootsFirst
<1>2. ASSUME UNCHANGED <<disk, maker, config, env, instance>> PROVE BuildStates' /\ RootsFirst'
  <2>1. C!RootsTrusted'
    BY <1>2 DEF RootsFirst, C!RootsTrusted
  <2> QED
    BY <1>1, <1>2, <2>1 DEF BuildStates
<1>3. ASSUME NEW home \in C!Homes, C!Loadable(home), C!Constructed(home) PROVE C!RootsTrusted'
  <2>1. instance' = [made |-> TRUE, maker |-> maker[home], roots |-> "roots" \in disk[home]]
        /\ "config" \in disk[home]
    BY <1>3 DEF C!Constructed, C!Loadable
  <2>2. maker[home] = "config" => "roots" \in disk[home]
    BY <2>1 DEF RootsFirst
  <2>3. instance'.maker = maker[home] /\ (instance'.roots <=> "roots" \in disk[home])
    BY <2>1
  <2> QED
    BY <2>2, <2>3 DEF C!RootsTrusted
<1>4. CASE C!getInstance
  <2>1. UNCHANGED <<disk, maker, config, env>>
    BY <1>4 DEF C!getInstance
  <2>2. CASE UNCHANGED instance
    BY <1>2, <2>1, <2>2
  <2>3. CASE instance' # instance
    <3>1. env.MARVIN_HOME \in C!Homes /\ C!Loadable(env.MARVIN_HOME) /\ C!Constructed(env.MARVIN_HOME)
      BY <1>4, <2>3 DEF C!getInstance, C!validEnvVariables
    <3> QED
      BY <1>1, <1>3, <2>1, <3>1 DEF BuildStates
  <2> QED
    BY <2>2, <2>3
<1>5. ASSUME NEW home \in C!Homes, C!init(home) PROVE BuildStates' /\ RootsFirst'
  <2>1. UNCHANGED <<disk, maker, config, env>>
    BY <1>5 DEF C!init
  <2>2. CASE UNCHANGED instance
    BY <1>2, <2>1, <2>2
  <2>3. CASE instance' # instance
    <3>1. C!Loadable(home) /\ C!Constructed(home)
      BY <1>5, <2>3 DEF C!init
    <3> QED
      BY <1>1, <1>3, <2>1, <3>1 DEF BuildStates
  <2> QED
    BY <2>2, <2>3
<1>6. ASSUME NEW home \in C!Homes \cup {"elsewhere"}, C!setMarvinHome(home)
      PROVE  BuildStates' /\ RootsFirst'
  <2>1. UNCHANGED <<disk, maker, config, instance>>
        /\ (env' = env \/ env' = [env EXCEPT !.MARVIN_HOME = home])
    BY <1>6 DEF C!setMarvinHome
  <2>2. env' \in [HOME : {"user", "unset"}, MARVIN_HOME : C!Places, cwd : C!Homes \cup {"elsewhere"}]
    BY <2>1 DEF BuildStates, C!Places
  <2>3. C!RootsTrusted'
    BY <2>1 DEF RootsFirst, C!RootsTrusted
  <2> QED
    BY <1>1, <2>1, <2>2, <2>3
<1>7. ASSUME NEW c \in Contexts, C!Secures(c) \/ C!Releases(c) PROVE BuildStates' /\ RootsFirst'
  BY <1>2, <1>7 DEF C!Secures, C!Releases
<1>8. CASE UNCHANGED C!certificates
  BY <1>2, <1>8 DEF C!certificates
<1> QED
  BY <1>4, <1>5, <1>6, <1>7, <1>8 DEF C!UseNext

\* However many contexts come and go, the X509_STORE outlives them; and at
\* whatever step the building of a store was cut short, a Certificates object
\* made from a store the config utility was building has root certificates to
\* trust.  The remains of an older store, whose removal was cut short, are not
\* such a store.
THEOREM TrustKeptHolds ==
  Spec => []TrustKept
<1> DEFINE Inv == part = "certificates" => CertificatesInv
<1>1. C!Init => CertificatesInv
  <2> SUFFICES ASSUME C!Init PROVE CertificatesInv
    OBVIOUS
  <2>1. References
    BY FS_EmptySet DEF C!Init, References, C!NoInstance
  <2>2. BuildStates
    BY DEF C!Init, BuildStates, C!Homes
  <2>3. RootsFirst
    BY StepsFacts DEF C!Init, RootsFirst, C!RootsTrusted, C!NoInstance
  <2> QED
    BY <2>1, <2>2, <2>3 DEF CertificatesInv
<1>2. CertificatesInv /\ [C!Next]_C!certificates => CertificatesInv'
  BY ReferencesKept, BuildKeeps, UseKeeps DEF CertificatesInv, C!Next
<1>3. CertificatesInv => C!TrustKept
  <2> SUFFICES ASSUME CertificatesInv PROVE C!StoreHeld /\ C!RootsTrusted
    BY DEF C!TrustKept
  <2>1. C!Cardinality(contexts) = Cardinality(contexts)
    BY DEF C!Cardinality, Cardinality
  <2>2. Cardinality(contexts) \in Nat
    BY FS_CardinalityType DEF CertificatesInv, References
  <2> QED
    BY <2>1, <2>2 DEF CertificatesInv, References, RootsFirst, C!StoreHeld
<1>4. Init => Inv
  BY <1>1 DEF Init
<1>5. Inv /\ [Next]_vars => Inv'
  <2>1. [Next]_vars /\ part' = "certificates" => part = "certificates" /\ [C!Next]_C!certificates
    BY DEF Next, vars, certificates, C!certificates
  <2> QED
    BY <1>2, <2>1
<1>6. Inv => TrustKept
  BY <1>3 DEF TrustKept
<1> QED
  BY <1>4, <1>5, <1>6, PTL DEF Spec

-----------------------------------------------------------------------------
(* Request: the answers to its calls.                                       *)

Kinds == {"connect", "body", "last", "headers", "trailers"}

\* The calls that should be answered once.
Plain(kind) == kind \notin {"headers", "trailers"}

\* How the operations of a call may go on.
Thens == [connect |-> {"answer"}, body |-> {"hbc_write", "headers"},
          last |-> {"msg_write", "message", "answer"},
          headers |-> {"write_headers", "headers"}, trailers |-> {}]

Objects == [m_conn_shared_ptr : BOOLEAN, m_wrtr : BOOLEAN, m_current_message : BOOLEAN,
            m_is_connected : BOOLEAN, m_headers_written : BOOLEAN,
            framing : {"none", "length", "chunked", "other"}, joined : BOOLEAN]

RequestTypes ==
  /\ calls \in Seq(Kinds) /\ Len(calls) <= MaxCalls
  /\ answers \in [1..MaxCalls -> Nat]
  /\ req \in Objects

\* An operation of call c, of a kind.
IsOf(p, c, kind) ==
  /\ p = [op |-> p.op, call |-> p.call, then |-> p.then, nth |-> p.nth]
  /\ p.call = c /\ p.then \in Thens[kind]

\* The reader of call c is left with bytes, and its loop turns.
Turning(ps, c) == \E p \in ps : p.op = "turn" /\ p.call = c

\* All that is under way is of the last call; of a plain one there is a single
\* operation, and no answer yet unless its reader's loop turns.
UnderWay ==
  /\ requestEnded # "no" => pending = {}
  /\ pending # {} => Len(calls) # 0
  /\ \A p \in pending : IsOf(p, Len(calls), calls[Len(calls)])
  /\ pending # {} /\ Plain(calls[Len(calls)]) =>
       /\ answers[Len(calls)] = 0 \/ Turning(pending, Len(calls))
       /\ \A p, q \in pending : p = q

\* A call that wrote headers, and said so.
Wrote(d) == calls[d] \in {"body", "headers"} /\ answers[d] > 0

\* A call without an answer is the last one, still under way, or one after the
\* headers were written.
Heard ==
  /\ \A c \in 1..MaxCalls : c > Len(calls) => answers[c] = 0
  /\ \A c \in 1..Len(calls) : Plain(calls[c]) => answers[c] <= 1 \/ Turning(pending, c)
  /\ req.m_headers_written => \E d \in 1..Len(calls) : Wrote(d)
  /\ requestEnded = "no" =>
       \A c \in 1..Len(calls) : Plain(calls[c]) /\ answers[c] = 0 =>
         \/ c = Len(calls) /\ pending # {}
         \/ calls[c] \in {"body", "last"} /\ \E d \in 1..(c - 1) : Wrote(d)

RequestInv == RequestTypes /\ UnderWay /\ Heard

\* A new call starts nothing, ends the process, or starts operations of its own.
LEMMA NewCall ==
  ASSUME RequestInv, MaxCalls \in Nat, NEW kind \in Kinds, R!Call(kind),
         req' \in Objects, req'.m_headers_written = req.m_headers_written,
         \/ pending' = {} /\ requestEnded' # "no"
         \/ /\ pending' = {} /\ requestEnded' = "no"
            /\ kind = "trailers" \/ (kind \in {"body", "last"} /\ req.m_headers_written)
         \/ /\ pending' # {} /\ requestEnded' = "no"
            /\ \A p \in pending' : IsOf(p, Len(calls) + 1, kind)
            /\ Plain(kind) => \A p, q \in pending' : p = q
  PROVE  RequestInv'
<1> DEFINE n == Len(calls)
<1>0. RequestTypes /\ UnderWay /\ Heard
  BY DEF RequestInv
<1>1. /\ pending = {} /\ requestEnded = "no" /\ n < MaxCalls /\ calls' = Append(calls, kind)
      /\ answers' = answers /\ n \in Nat /\ calls \in Seq(Kinds)
  BY <1>0 DEF R!Call, R!Quiet, RequestTypes
<1>2. /\ calls' \in Seq(Kinds) /\ Len(calls') = n + 1 /\ calls'[n + 1] = kind
      /\ \A c \in 1..n : calls'[c] = calls[c]
  BY <1>1
<1>3. n + 1 \in 1..MaxCalls /\ n + 1 > n /\ n + 1 # 0 /\ n + 1 \in Nat
  BY <1>1
<1>4. answers[n + 1] = 0
  BY <1>0, <1>3 DEF Heard
<1> HIDE DEF n
<1>5. RequestTypes'
  BY <1>0, <1>1, <1>2, <1>3 DEF RequestTypes
<1>6. UnderWay'
  <2>1. \A p \in pending' : IsOf(p, n + 1, kind)
    BY DEF n
  <2>2. pending' # {} /\ Plain(kind) => answers'[n + 1] = 0 /\ \A p, q \in pending' : p = q
    BY <1>1, <1>4
  <2> QED
    BY <1>2, <1>3, <2>1, <2>2 DEF UnderWay, IsOf, Plain
<1>7. \A d \in 1..n : Wrote(d)' <=> Wrote(d)
  BY <1>1, <1>2 DEF Wrote
<1>8. \A c \in 1..MaxCalls : c > Len(calls') => answers'[c] = 0
  <2>1. \A c \in 1..MaxCalls : c > n + 1 => c > n
    BY <1>1
  <2> QED
    BY <1>0, <1>1, <1>2, <2>1 DEF Heard, n
<1>9. \A c \in 1..Len(calls') : c = n + 1 \/ c \in 1..n
  BY <1>1, <1>2
<1>10. \A c \in 1..Len(calls') : Plain(calls'[c]) => answers'[c] <= 1
  <2>1. \A c \in 1..n : Plain(calls[c]) => answers[c] <= 1
    BY <1>0, <1>1 DEF Heard, Turning, n
  <2>2. 0 <= 1
    OBVIOUS
  <2> QED
    BY <1>1, <1>2, <1>4, <1>9, <2>1, <2>2 DEF Plain
<1>11. req.m_headers_written => \E d \in 1..n : Wrote(d) /\ Wrote(d)'
  BY <1>0, <1>7 DEF Heard, n
<1>12. 1..n \subseteq 1..Len(calls') /\ 1..n = 1..((n + 1) - 1)
  BY <1>1, <1>2
<1>13. req'.m_headers_written => \E d \in 1..Len(calls') : Wrote(d)'
  BY <1>11, <1>12
<1>14. ASSUME requestEnded' = "no", NEW c \in 1..Len(calls'), Plain(calls'[c]), answers'[c] = 0
       PROVE  \/ c = Len(calls') /\ pending' # {}
              \/ calls'[c] \in {"body", "last"} /\ \E d \in 1..(c - 1) : Wrote(d)'
  <2>1. CASE c = n + 1
    <3>1. CASE pending' # {}
      BY <1>2, <2>1, <3>1
    <3>2. CASE pending' = {}
      <4>1. kind \in {"body", "last"} /\ req.m_headers_written
        BY <1>2, <1>14, <2>1, <3>2 DEF Plain
      <4>2. \E d \in 1..(c - 1) : Wrote(d)'
        BY <1>11, <1>12, <2>1, <4>1
      <4> QED
        BY <1>2, <2>1, <4>1, <4>2
    <3> QED
      BY <3>1, <3>2
  <2>2. CASE c \in 1..n
    <3>1. Plain(calls[c]) /\ answers[c] = 0 /\ calls'[c] = calls[c]
      BY <1>1, <1>2, <1>14, <2>2
    <3>2. calls[c] \in {"body", "last"} /\ \E d \in 1..(c - 1) : Wrote(d)
      BY <1>0, <1>1, <2>2, <3>1 DEF Heard, n
    <3>3. \A d \in 1..(c - 1) : d \in 1..n
      BY <1>1, <2>2
    <3> QED
      BY <1>7, <3>1, <3>2, <3>3
  <2> QED
    BY <1>9, <2>1, <2>2
<1>15. Heard'
  BY <1>8, <1>10, <1>13, <1>14 DEF Heard, Plain, Turning
<1> QED
  BY <1>5, <1>6, <1>15 DEF RequestInv

\* A callback answers the call, which p was the last operation of if it is plain.
LEMMA AnswerKeeps ==
  ASSUME RequestInv, MaxCalls \in Nat, NEW p \in pending, UNCHANGED <<calls, requestEnded>>, p.op # "turn",
         answers' = [answers EXCEPT ![p.call] = @ + 1], pending' = pending \ {p},
         req' \in Objects, req'.m_headers_written => req.m_headers_written \/ p.then = "headers"
  PROVE  RequestInv'
<1> DEFINE n == Len(calls)
<1>0. RequestTypes /\ UnderWay /\ Heard
  BY DEF RequestInv
<1>1. /\ n \in 1..MaxCalls /\ n \in 1..n /\ calls \in Seq(Kinds) /\ n \in Nat
      /\ p.call = n /\ p.then \in Thens[calls[n]] /\ requestEnded = "no"
      /\ \A q \in pending : IsOf(q, n, calls[n])
      /\ Plain(calls[n]) => answers[n] = 0 /\ \A q, r \in pending : q = r
  <2>1. n \in Nat /\ n <= MaxCalls /\ calls \in Seq(Kinds)
    BY <1>0 DEF RequestTypes
  <2>2. n # 0 /\ requestEnded = "no" /\ (\A q \in pending : IsOf(q, n, calls[n]))
        /\ (Plain(calls[n]) => answers[n] = 0 /\ \A q, r \in pending : q = r)
    BY <1>0 DEF UnderWay, Turning
  <2>3. n \in 1..MaxCalls /\ n \in 1..n
    BY <2>1, <2>2
  <2> QED
    BY <2>1, <2>2, <2>3 DEF IsOf
<1>2. Len(calls') = n /\ calls' = calls
  OBVIOUS
<1> HIDE DEF n
<1>3. answers' \in [1..MaxCalls -> Nat] /\ answers'[n] = answers[n] + 1
      /\ (\A c \in 1..MaxCalls : c # n => answers'[c] = answers[c])
      /\ answers[n] \in Nat
  BY <1>0, <1>1 DEF RequestTypes
<1>4. RequestTypes'
  BY <1>0, <1>2, <1>3 DEF RequestTypes, n
<1>5. UnderWay'
  <2>1. Plain(calls[n]) => pending' = {}
    BY <1>1
  <2> QED
    BY <1>0, <1>1, <1>2, <2>1 DEF UnderWay, IsOf, Plain, n
<1>6. \A d \in 1..n : Wrote(d) => Wrote(d)'
  <2>1. \A d \in 1..n : d \in 1..MaxCalls /\ answers[d] \in Nat /\ (answers[d] > 0 => answers'[d] > 0)
    BY <1>0, <1>1, <1>3 DEF RequestTypes
  <2> QED
    BY <1>2, <2>1 DEF Wrote
<1>7. \A c \in 1..MaxCalls : c > n => answers'[c] = 0
  <2>1. \A c \in 1..MaxCalls : c > n => c # n
    BY <1>1
  <2> QED
    BY <1>0, <1>3, <2>1 DEF Heard, n
<1>8. \A c \in 1..n : Plain(calls[c]) => answers'[c] <= 1
  <2>1. \A c \in 1..n : c \in 1..MaxCalls
    BY <1>1
  <2>2. Plain(calls[n]) => answers'[n] = 1
    BY <1>1, <1>3
  <2>3. \A c \in 1..n : c # n /\ Plain(calls[c]) => answers[c] <= 1
    BY <1>0, <1>1 DEF Heard, Turning, IsOf, n
  <2> QED
    BY <1>3, <2>1, <2>2, <2>3
<1>9. req'.m_headers_written => \E d \in 1..n : Wrote(d)'
  <2>1. CASE p.then = "headers"
    <3>1. calls[n] \in Kinds
      BY <1>1 DEF n
    <3>2. calls[n] \in {"body", "headers"}
      BY <1>1, <2>1, <3>1 DEF Kinds, Thens
    <3>3. answers'[n] > 0
      BY <1>3
    <3> QED
      BY <1>1, <1>2, <3>2, <3>3 DEF Wrote
  <2>2. CASE p.then # "headers"
    <3>1. req.m_headers_written => \E d \in 1..n : Wrote(d)
      BY <1>0 DEF Heard, n
    <3> QED
      BY <1>6, <2>2, <3>1
  <2> QED
    BY <2>1, <2>2
<1>10. ASSUME NEW c \in 1..n, Plain(calls[c]), answers'[c] = 0
       PROVE  calls[c] \in {"body", "last"} /\ \E d \in 1..(c - 1) : Wrote(d)'
  <2>1. c # n
    BY <1>3, <1>10
  <2>2. answers[c] = 0 /\ \A d \in 1..(c - 1) : d \in 1..n
    BY <1>1, <1>3, <1>10, <2>1
  <2>3. calls[c] \in {"body", "last"} /\ \E d \in 1..(c - 1) : Wrote(d)
    BY <1>0, <1>1, <1>10, <2>1, <2>2 DEF Heard, n
  <2> QED
    BY <1>6, <2>2, <2>3
<1>11. Heard'
  BY <1>2, <1>7, <1>8, <1>9, <1>10 DEF Heard, Plain, n
<1> QED
  BY <1>4, <1>5, <1>11 DEF RequestInv

\* A callback answers the call, and its reader's loop turns.
LEMMA TurnKeeps ==
  ASSUME RequestInv, MaxCalls \in Nat, NEW p \in pending, UNCHANGED <<calls, requestEnded, req>>,
         answers' = [answers EXCEPT ![p.call] = @ + 1], Turning(pending', Len(calls)),
         \A q \in pending' : IsOf(q, Len(calls), calls[Len(calls)]),
         Plain(calls[Len(calls)]) => \A q, s \in pending' : q = s
  PROVE  RequestInv'
<1> DEFINE n == Len(calls)
<1>0. RequestTypes /\ UnderWay /\ Heard
  BY DEF RequestInv
<1>1. /\ n \in 1..MaxCalls /\ n \in 1..n /\ calls \in Seq(Kinds) /\ n \in Nat
      /\ p.call = n /\ requestEnded = "no" /\ pending' # {} /\ Turning(pending', n)
      /\ \A q \in pending : IsOf(q, n, calls[n])
  <2>1. n \in Nat /\ n <= MaxCalls /\ calls \in Seq(Kinds)
    BY <1>0 DEF RequestTypes
  <2>2. n # 0 /\ requestEnded = "no" /\ (\A q \in pending : IsOf(q, n, calls[n]))
    BY <1>0 DEF UnderWay
  <2>3. n \in 1..MaxCalls /\ n \in 1..n
    BY <2>1, <2>2
  <2> QED
    BY <2>1, <2>2, <2>3 DEF IsOf, Turning
<1>2. Len(calls') = n /\ calls' = calls
  OBVIOUS
<1> HIDE DEF n
<1>3. answers' \in [1..MaxCalls -> Nat] /\ answers'[n] = answers[n] + 1
      /\ (\A c \in 1..MaxCalls : c # n => answers'[c] = answers[c])
      /\ answers[n] \in Nat
  BY <1>0, <1>1 DEF RequestTypes
<1>4. RequestTypes'
  BY <1>0, <1>2, <1>3 DEF RequestTypes, n
<1>5. UnderWay'
  BY <1>0, <1>1, <1>2 DEF UnderWay, IsOf, Plain, n
<1>6. \A d \in 1..n : Wrote(d) => Wrote(d)'
  <2>1. \A d \in 1..n : d \in 1..MaxCalls /\ answers[d] \in Nat /\ (answers[d] > 0 => answers'[d] > 0)
    BY <1>0, <1>1, <1>3 DEF RequestTypes
  <2> QED
    BY <1>2, <2>1 DEF Wrote
<1>7. \A c \in 1..MaxCalls : c > n => answers'[c] = 0
  <2>1. \A c \in 1..MaxCalls : c > n => c # n
    BY <1>1
  <2> QED
    BY <1>0, <1>3, <2>1 DEF Heard, n
<1>8. \A c \in 1..n : Plain(calls[c]) => answers'[c] <= 1 \/ Turning(pending', c)
  <2>1. \A c \in 1..n : c \in 1..MaxCalls
    BY <1>1
  <2>2. \A c \in 1..n : c # n /\ Plain(calls[c]) => answers[c] <= 1
    BY <1>0, <1>1 DEF Heard, Turning, IsOf, n
  <2> QED
    BY <1>1, <1>3, <2>1, <2>2
<1>9. req'.m_headers_written => \E d \in 1..n : Wrote(d)'
  BY <1>0, <1>6 DEF Heard, n
<1>10. ASSUME NEW c \in 1..n, Plain(calls[c]), answers'[c] = 0
       PROVE  calls[c] \in {"body", "last"} /\ \E d \in 1..(c - 1) : Wrote(d)'
  <2>1. c # n
    BY <1>3, <1>10
  <2>2. answers[c] = 0 /\ \A d \in 1..(c - 1) : d \in 1..n
    BY <1>1, <1>3, <1>10, <2>1
  <2>3. calls[c] \in {"body", "last"} /\ \E d \in 1..(c - 1) : Wrote(d)
    BY <1>0, <1>1, <1>10, <2>1, <2>2 DEF Heard, n
  <2> QED
    BY <1>6, <2>2, <2>3
<1>11. Heard'
  BY <1>2, <1>7, <1>8, <1>9, <1>10 DEF Heard, Plain, n
<1> QED
  BY <1>4, <1>5, <1>11 DEF RequestInv

\* Any other step answers nothing: it ends the process, or what is under way
\* goes on with operations of the same call.
LEMMA SilentKeeps ==
  ASSUME RequestInv, UNCHANGED <<calls, answers>>,
         req' \in Objects, req'.m_headers_written = req.m_headers_written,
         \A c \in 1..Len(calls) : Plain(calls[c]) /\ Turning(pending, c) => pending' = pending,
         \/ pending' = {} /\ requestEnded' # "no"
         \/ /\ requestEnded' = requestEnded /\ (pending' = {} <=> pending = {})
            /\ \A q \in pending' : IsOf(q, Len(calls), calls[Len(calls)])
            /\ Plain(calls[Len(calls)]) => \A q, s \in pending' : q = s
  PROVE  RequestInv'
<1>0. RequestTypes /\ UnderWay /\ Heard
  BY DEF RequestInv
<1>1. RequestTypes'
  BY <1>0 DEF RequestTypes
<1>2. \A d : Wrote(d)' <=> Wrote(d)
  BY DEF Wrote
<1>3. UnderWay'
  <2>1. pending' # {} => pending # {} /\ Len(calls) # 0
    BY <1>0 DEF UnderWay
  <2>2. pending' # {} /\ Plain(calls[Len(calls)]) =>
          answers[Len(calls)] = 0 \/ Turning(pending', Len(calls))
    <3>1. Len(calls) # 0 => Len(calls) \in 1..Len(calls)
      BY <1>0 DEF RequestTypes
    <3> QED BY <1>0, <2>1, <3>1 DEF UnderWay
  <2> QED BY <1>0, <2>1, <2>2 DEF UnderWay, IsOf, Plain
<1>4. Heard'
  <2>1. (\A c \in 1..MaxCalls : c > Len(calls) => answers[c] = 0)'
    BY <1>0 DEF Heard
  <2>2. (\A c \in 1..Len(calls) : Plain(calls[c]) => answers[c] <= 1 \/ Turning(pending, c))'
    BY <1>0 DEF Heard, Plain
  <2>3. req'.m_headers_written => \E d \in 1..Len(calls') : Wrote(d)'
    BY <1>0, <1>2 DEF Heard
  <2>4. requestEnded' = "no" => requestEnded = "no" /\ (pending' = {} <=> pending = {})
    OBVIOUS
  <2>5. ASSUME requestEnded' = "no", NEW c \in 1..Len(calls), Plain(calls[c]), answers[c] = 0
        PROVE  \/ c = Len(calls) /\ pending' # {}
               \/ calls[c] \in {"body", "last"} /\ \E d \in 1..(c - 1) : Wrote(d)'
    <3>1. \/ c = Len(calls) /\ pending # {}
          \/ calls[c] \in {"body", "last"} /\ \E d \in 1..(c - 1) : Wrote(d)
      BY <1>0, <2>4, <2>5 DEF Heard
    <3> QED
      BY <1>2, <2>4, <2>5, <3>1
  <2> QED
    BY <2>1, <2>2, <2>3, <2>5 DEF Heard, Plain
<1> QED
  BY <1>1, <1>3, <1>4 DEF RequestInv

\* What the tails of calls and callbacks may come to, for an operation that is
\* over and belongs to call c.
Outcome(c, kind, over) ==
  /\ req' \in Objects /\ req'.m_headers_written = req.m_headers_written
  /\ \/ pending' = {} /\ requestEnded' # "no"
     \/ /\ requestEnded' = requestEnded /\ pending' # {}
        /\ \A q \in pending' : q \in pending \ over \/ IsOf(q, c, kind)
        /\ Plain(kind) =>
             \A q, s \in pending' : q = s \/ q \in pending \ over \/ s \in pending \ over

\* An operation belongs to the call it was started for.
LEMMA OperationIsOf ==
  ASSUME NEW kind \in Kinds, NEW then \in Thens[kind], NEW op, NEW c
  PROVE  IsOf(R!Operation(op, c, then), c, kind)
BY DEF IsOf, R!Operation

\* connect, and a write of the whole message.
LEMMA OneStarted ==
  ASSUME req \in Objects, NEW over \in SUBSET pending, NEW c \in Nat, NEW kind \in Kinds,
         NEW then \in Thens[kind], NEW r \in Objects,
         r.m_headers_written = req.m_headers_written,
         R!connect(over, c, then, r) \/ R!write(over, c, then, r)
  PROVE  Outcome(c, kind, over)
<1>1. IsOf(R!Operation("connect", c, then), c, kind) /\ IsOf(R!Operation("write", c, then), c, kind)
  BY OperationIsOf
<1>2. CASE R!connect(over, c, then, r)
  BY <1>1, <1>2 DEF R!connect, R!Starts, R!Ends, Outcome
<1>3. CASE R!write(over, c, then, r)
  <2> DEFINE s == [r EXCEPT !.m_current_message = TRUE]
  <2>1. s \in Objects /\ s.m_headers_written = req.m_headers_written
    BY DEF Objects
  <2> HIDE DEF s
  <2> QED
    BY <1>1, <1>3, <2>1 DEF R!write, R!Starts, R!Ends, Outcome, s
<1> QED
  BY <1>2, <1>3

\* The tails that p_hbc_write, p_msg_write and p_internal_write_headers are.
LEMMA TailsOutcome ==
  ASSUME req \in Objects, NEW over \in SUBSET pending, NEW c \in Nat, NEW r \in Objects,
         r.m_headers_written = req.m_headers_written
  PROVE  /\ R!hbc_write(over, c, r) => Outcome(c, "body", over)
         /\ R!msg_write(over, c, r) => Outcome(c, "last", over)
         /\ R!internal_write_headers(over, c, r) => Outcome(c, "headers", over)
<1>0. "body" \in Kinds /\ "last" \in Kinds /\ "headers" \in Kinds
  BY DEF Kinds
<1>1. "headers" \in Thens["body"] /\ "message" \in Thens["last"]
      /\ "headers" \in Thens["headers"] /\ "write_headers" \in Thens["headers"]
  BY DEF Thens
<1>2. IsOf(R!Operation("write", c, "headers"), c, "body")
  BY <1>0, <1>1, OperationIsOf
<1>3. IsOf(R!Operation("write", c, "headers"), c, "headers")
      /\ IsOf(R!Operation("connect", c, "write_headers"), c, "headers")
  BY <1>0, <1>1, OperationIsOf
<1>4. ASSUME R!hbc_write(over, c, r) PROVE Outcome(c, "body", over)
  BY <1>2, <1>4 DEF R!hbc_write, R!write_headers, R!Starts, R!Ends, Outcome
<1>5. ASSUME R!msg_write(over, c, r) PROVE Outcome(c, "last", over)
  <2> DEFINE s == [r EXCEPT !.framing = "length"]
  <2>1. s \in Objects /\ s.m_headers_written = req.m_headers_written
    BY DEF Objects
  <2>2. R!write(over, c, "message", s)
    BY <1>5 DEF R!msg_write
  <2> HIDE DEF s
  <2> QED
    BY <1>0, <1>1, <2>1, <2>2, OneStarted
<1>6. ASSUME R!internal_write_headers(over, c, r) PROVE Outcome(c, "headers", over)
  <2>1. ~Plain("headers")
    BY DEF Plain
  <2> QED
    BY <1>3, <1>6, <2>1 DEF R!internal_write_headers, R!write_headers, R!Starts, R!Ends, Outcome
<1> QED
  BY <1>4, <1>5, <1>6

\* A call whose tail has an outcome.
LEMMA CallOutcome ==
  ASSUME RequestInv, MaxCalls \in Nat, NEW kind \in Kinds, R!Call(kind),
         Outcome(Len(calls) + 1, kind, {})
  PROVE  RequestInv'
<1>1. pending = {} /\ requestEnded = "no"
  BY DEF R!Call, R!Quiet
<1>2. req' \in Objects /\ req'.m_headers_written = req.m_headers_written
  BY DEF Outcome
<1>3. \/ pending' = {} /\ requestEnded' # "no"
      \/ /\ pending' # {} /\ requestEnded' = "no"
         /\ \A p \in pending' : IsOf(p, Len(calls) + 1, kind)
         /\ Plain(kind) => \A p, q \in pending' : p = q
  BY <1>1 DEF Outcome
<1> QED
  BY <1>2, <1>3, NewCall

\* The operations of the application.
LEMMA CallsKeep ==
  ASSUME RequestInv, MaxCalls \in Nat,
         \/ R!asyncConnect \/ R!asyncWriteBodyData \/ R!asyncWriteLastBodyData
         \/ R!asyncWriteLastBodyBuffer \/ R!asyncWriteHeaders \/ R!asyncWriteTrailers
  PROVE  RequestInv'
<1> DEFINE c == Len(calls) + 1
<1>0. req \in Objects /\ c \in Nat /\ {} \in SUBSET pending /\ R!This = c
  BY DEF RequestInv, RequestTypes, R!This
<1>1. /\ "connect" \in Kinds /\ "body" \in Kinds /\ "last" \in Kinds /\ "headers" \in Kinds
      /\ "trailers" \in Kinds
  BY DEF Kinds
<1>2. /\ "answer" \in Thens["connect"] /\ "hbc_write" \in Thens["body"]
      /\ "msg_write" \in Thens["last"] /\ "answer" \in Thens["last"]
      /\ "write_headers" \in Thens["headers"]
  BY DEF Thens
<1> HIDE DEF c
<1>3. ASSUME NEW kind \in Kinds, R!Call(kind), R!Ends("exception") PROVE RequestInv'
  BY <1>0, <1>3, NewCall DEF R!Ends
<1>4. ASSUME NEW kind \in Kinds, R!Call(kind), R!Starts({}, {}, req),
             kind = "trailers" \/ (kind \in {"body", "last"} /\ req.m_headers_written)
      PROVE  RequestInv'
  <2>1. pending' = {} /\ requestEnded' = "no" /\ req' = req
    BY <1>4 DEF R!Starts, R!Call, R!Quiet
  <2> QED
    BY <1>0, <1>4, <2>1, NewCall
<1>5. ASSUME NEW kind \in Kinds, R!Call(kind), Outcome(c, kind, {}) PROVE RequestInv'
  BY <1>5, CallOutcome DEF c
<1>6. CASE R!asyncConnect
  <2>1. R!Call("connect") /\ R!connect({}, c, "answer", req)
    BY <1>0, <1>6 DEF R!asyncConnect
  <2>2. Outcome(c, "connect", {})
    BY <1>0, <1>1, <1>2, <2>1, OneStarted
  <2> QED
    BY <1>1, <1>5, <2>1, <2>2
<1>7. CASE R!asyncWriteBodyData
  <2>1. R!Call("body")
    BY <1>7 DEF R!asyncWriteBodyData
  <2>2. \/ req.m_headers_written /\ R!Starts({}, {}, req)
        \/ R!Ends("exception")
        \/ R!hbc_write({}, c, req)
        \/ R!connect({}, c, "hbc_write", req)
    BY <1>0, <1>7 DEF R!asyncWriteBodyData
  <2>3. R!hbc_write({}, c, req) => Outcome(c, "body", {})
    BY <1>0, TailsOutcome
  <2>4. R!connect({}, c, "hbc_write", req) => Outcome(c, "body", {})
    BY <1>0, <1>1, <1>2, OneStarted
  <2> QED
    BY <1>1, <1>3, <1>4, <1>5, <2>1, <2>2, <2>3, <2>4
<1>8. CASE R!asyncWriteLastBodyData
  <2>1. R!Call("last")
    BY <1>8 DEF R!asyncWriteLastBodyData
  <2>2. \/ req.m_headers_written /\ R!Starts({}, {}, req)
        \/ R!msg_write({}, c, req)
        \/ R!connect({}, c, "msg_write", req)
    BY <1>0, <1>8 DEF R!asyncWriteLastBodyData
  <2>3. R!msg_write({}, c, req) => Outcome(c, "last", {})
    BY <1>0, TailsOutcome
  <2>4. R!connect({}, c, "msg_write", req) => Outcome(c, "last", {})
    BY <1>0, <1>1, <1>2, OneStarted
  <2> QED
    BY <1>1, <1>4, <1>5, <2>1, <2>2, <2>3, <2>4
<1>9. CASE R!asyncWriteLastBodyBuffer
  <2>1. R!Call("last")
    BY <1>9 DEF R!asyncWriteLastBodyBuffer
  <2>2. \/ req.m_headers_written /\ R!Starts({}, {}, req)
        \/ R!write({}, c, "answer", req)
    BY <1>0, <1>9 DEF R!asyncWriteLastBodyBuffer
  <2>3. R!write({}, c, "answer", req) => Outcome(c, "last", {})
    BY <1>0, <1>1, <1>2, OneStarted
  <2> QED
    BY <1>1, <1>4, <1>5, <2>1, <2>2, <2>3
<1>10. CASE R!asyncWriteHeaders
  <2>1. R!Call("headers")
    BY <1>10 DEF R!asyncWriteHeaders
  <2>2. R!internal_write_headers({}, c, req) \/ R!connect({}, c, "write_headers", req)
    BY <1>0, <1>10 DEF R!asyncWriteHeaders
  <2>3. R!internal_write_headers({}, c, req) => Outcome(c, "headers", {})
    BY <1>0, TailsOutcome
  <2>4. R!connect({}, c, "write_headers", req) => Outcome(c, "headers", {})
    BY <1>0, <1>1, <1>2, OneStarted
  <2> QED
    BY <1>1, <1>5, <2>1, <2>2, <2>3, <2>4
<1>11. CASE R!asyncWriteTrailers
  BY <1>1, <1>4, <1>11 DEF R!asyncWriteTrailers
<1> QED
  BY <1>6, <1>7, <1>8, <1>9, <1>10, <1>11

\* The setters, and close(), while nothing is under way.
LEMMA SettersKeep ==
  ASSUME RequestInv,
         \/ R!close \/ (\E h \in {"error", "headers", "data", "complete"} : R!setOn(h))
         \/ \E value \in {"length", "chunked", "other"} : R!header(value)
         \/ UNCHANGED R!request
  PROVE  RequestInv'
<1>0. req \in Objects /\ UnderWay
  BY DEF RequestInv, RequestTypes
<1>1. ASSUME NEW r \in Objects, r.m_headers_written = req.m_headers_written, R!Quiet,
             R!Starts({}, {}, r), UNCHANGED <<calls, answers>>
      PROVE  RequestInv'
  <2>1. pending' = pending /\ pending = {} /\ requestEnded' = requestEnded /\ req' = r
    BY <1>1 DEF R!Starts, R!Quiet
  <2> QED
    BY <1>1, <2>1, SilentKeeps
<1>2. ASSUME R!Ends("exception") \/ R!Ends("null pointer"), R!Quiet, UNCHANGED <<calls, answers>>
      PROVE  RequestInv'
  BY <1>0, <1>2, SilentKeeps DEF R!Ends, R!Quiet, Turning
<1>3. CASE R!close
  <2> DEFINE r == [req EXCEPT !.m_conn_shared_ptr = FALSE, !.m_wrtr = FALSE, !.joined = FALSE]
  <2>1. r \in Objects /\ r.m_headers_written = req.m_headers_written
    BY <1>0 DEF Objects
  <2>2. R!Quiet /\ UNCHANGED <<calls, answers>> /\ (R!Starts({}, {}, r) \/ R!Ends("null pointer"))
    BY <1>3 DEF R!close
  <2> HIDE DEF r
  <2> QED
    BY <1>1, <1>2, <2>1, <2>2
<1>4. ASSUME NEW value \in {"length", "chunked", "other"}, R!header(value) PROVE RequestInv'
  <2> DEFINE r == [req EXCEPT !.framing = value]
  <2>1. r \in Objects /\ r.m_headers_written = req.m_headers_written
    BY <1>0 DEF Objects
  <2>2. R!Quiet /\ UNCHANGED <<calls, answers>> /\ (R!Starts({}, {}, r) \/ R!Ends("exception"))
    BY <1>4 DEF R!header
  <2> HIDE DEF r
  <2> QED
    BY <1>1, <1>2, <2>1, <2>2
<1>5. ASSUME UNCHANGED <<req, pending, calls, answers, requestEnded>> PROVE RequestInv'
  <2>1. pending # {} /\ Plain(calls[Len(calls)]) => \A q, s \in pending : q = s
    BY <1>0 DEF UnderWay
  <2>2. \A q \in pending : IsOf(q, Len(calls), calls[Len(calls)])
    BY <1>0 DEF UnderWay
  <2> QED
    BY <1>0, <1>5, <2>1, <2>2, SilentKeeps
<1>6. CASE \E h \in {"error", "headers", "data", "complete"} : R!setOn(h)
  BY <1>5, <1>6 DEF R!setOn
<1>7. CASE UNCHANGED R!request
  BY <1>5, <1>7 DEF R!request
<1> QED
  BY <1>3, <1>4, <1>6, <1>7

\* The callbacks.
LEMMA CallbacksKeep ==
  ASSUME RequestInv, MaxCalls \in Nat, R!Done
  PROVE  RequestInv'
<1>0. req \in Objects /\ UnderWay /\ calls \in Seq(Kinds) /\ Len(calls) \in Nat
  BY DEF RequestInv, RequestTypes
<1>1. PICK p \in pending, ok \in BOOLEAN :
        /\ R!ReadAgain(p) \/ R!ConnectDone(p, ok) \/ R!WriteDone(p, ok) \/ R!ReadDone(p, ok)
        /\ UNCHANGED <<handlers, calls>>
  BY DEF R!Done
<1> DEFINE n == Len(calls)
           kind == calls[n]
           over == {p}
<1>2. n # 0 /\ IsOf(p, n, kind) /\ requestEnded = "no"
  BY <1>0 DEF UnderWay
<1>3. /\ kind \in Kinds /\ n \in Nat /\ over \in SUBSET pending
      /\ p = [op |-> p.op, call |-> p.call, then |-> p.then, nth |-> p.nth]
      /\ p.call = n /\ p.then \in Thens[kind]
  BY <1>0, <1>2 DEF IsOf
<1>4. \A q \in pending : IsOf(q, n, kind)
  BY <1>0 DEF UnderWay
<1>5. Plain(kind) => pending = {p}
  BY <1>0 DEF UnderWay
<1>13. p.op # "turn" => \A c \in 1..n : Plain(calls[c]) => ~Turning(pending, c)
  BY <1>3, <1>4, <1>5 DEF Turning, IsOf
<1> HIDE DEF n, kind
<1>6. /\ p.then = "msg_write" \/ p.then = "message" => kind = "last"
      /\ p.then = "hbc_write" => kind = "body"
      /\ p.then = "write_headers" => kind = "headers"
  BY <1>3 DEF Kinds, Thens
<1>7. ASSUME p.op # "turn", NEW r \in Objects, r.m_headers_written => req.m_headers_written \/ p.then = "headers",
             R!Answered(p, r)
      PROVE  RequestInv'
  <2>1. answers' = [answers EXCEPT ![p.call] = @ + 1] /\ pending' = pending \ {p}
        /\ req' = r /\ requestEnded' = requestEnded
    BY <1>7 DEF R!Answered, R!Told, R!Starts
  <2> QED
    BY <1>1, <1>7, <2>1, AnswerKeeps
<1>8. ASSUME p.op # "turn", UNCHANGED answers, R!Ends("exception") PROVE RequestInv'
  BY <1>0, <1>1, <1>8, <1>13, SilentKeeps DEF R!Ends, n
<1>9. ASSUME p.op # "turn", UNCHANGED answers, Outcome(n, kind, over) PROVE RequestInv'
  <2>1. req' \in Objects /\ req'.m_headers_written = req.m_headers_written
    BY <1>9 DEF Outcome
  <2>2. CASE pending' = {} /\ requestEnded' # "no"
    BY <1>1, <1>9, <1>13, <2>1, <2>2, SilentKeeps DEF n
  <2>3. CASE requestEnded' = requestEnded /\ pending' # {}
    <3>1. \A q \in pending' : IsOf(q, n, kind)
      BY <1>2, <1>4, <1>9, <2>3 DEF Outcome
    <3>2. Plain(kind) => \A q, s \in pending' : q = s
      BY <1>2, <1>5, <1>9, <2>3 DEF Outcome
    <3>3. pending # {} /\ pending' # {}
      BY <2>3
    <3> QED
      BY <1>1, <1>9, <1>13, <2>1, <2>3, <3>1, <3>2, <3>3, SilentKeeps DEF n, kind
  <2> QED
    BY <1>9, <2>2, <2>3 DEF Outcome
<1>10. CASE R!ConnectDone(p, ok)
  <2> DEFINE r == [req EXCEPT !.joined = ok, !.m_conn_shared_ptr = @ /\ ok]
  <2>1. r \in Objects /\ r.m_headers_written = req.m_headers_written
    BY <1>0 DEF Objects
  <2>2. \/ R!Answered(p, r)
        \/ p.then = "msg_write" /\ UNCHANGED answers /\ R!msg_write(over, n, r)
        \/ p.then = "hbc_write" /\ UNCHANGED answers /\ R!hbc_write(over, n, r)
        \/ p.then = "write_headers" /\ UNCHANGED answers /\ R!internal_write_headers(over, n, r)
        \/ UNCHANGED answers /\ R!Ends("exception")
    BY <1>3, <1>10 DEF R!ConnectDone, R!Continues
  <2> HIDE DEF r
  <2>3. /\ R!msg_write(over, n, r) => Outcome(n, "last", over)
        /\ R!hbc_write(over, n, r) => Outcome(n, "body", over)
        /\ R!internal_write_headers(over, n, r) => Outcome(n, "headers", over)
    BY <1>0, <1>3, <2>1, TailsOutcome
  <2>4. p.op # "turn"
    BY <1>10 DEF R!ConnectDone
  <2> QED
    BY <1>6, <1>7, <1>8, <1>9, <2>1, <2>2, <2>3, <2>4
<1>11. CASE R!WriteDone(p, ok)
  <2> DEFINE r == [req EXCEPT !.m_headers_written = TRUE]
             q == [p EXCEPT !.op = "read"]
  <2>1. r \in Objects
    BY <1>0 DEF Objects
  <2>2. \/ p.then = "headers" /\ R!Answered(p, r)
        \/ p.then = "message" /\ UNCHANGED answers /\ R!Starts({p}, {q}, req)
        \/ R!Answered(p, req)
    BY <1>11 DEF R!WriteDone, R!Continues
  <2>3. IsOf(q, n, kind)
    <3>1. q = [op |-> "read", call |-> p.call, then |-> p.then, nth |-> p.nth]
      BY <1>3
    <3>2. q.op = "read" /\ q.call = p.call /\ q.then = p.then /\ q.nth = p.nth
      BY <3>1
    <3> QED
      BY <1>3, <3>1, <3>2 DEF IsOf
  <2> HIDE DEF r, q
  <2>4. R!Starts({p}, {q}, req) => Outcome(n, kind, over)
    BY <1>0, <2>3 DEF R!Starts, Outcome
  <2>5. p.op # "turn"
    BY <1>11 DEF R!WriteDone
  <2> QED
    BY <1>0, <1>7, <1>9, <2>1, <2>2, <2>4, <2>5
<1>12. CASE R!ReadDone(p, ok)
  <2> DEFINE q == [p EXCEPT !.op = "turn"]
  <2>1. p.op # "turn"
    BY <1>12 DEF R!ReadDone
  <2>2. \/ UNCHANGED answers /\ R!Ends("exception")
        \/ R!Answered(p, req)
        \/ R!Told(p) /\ R!Starts({p}, {q}, req)
    BY <1>12 DEF R!ReadDone, R!Continues, R!Answered
  <2>3. IsOf(q, n, kind) /\ q.op = "turn" /\ q.call = n
    <3>1. q = [op |-> "turn", call |-> p.call, then |-> p.then, nth |-> p.nth]
      BY <1>3
    <3>2. q.op = "turn" /\ q.call = p.call /\ q.then = p.then /\ q.nth = p.nth
      BY <3>1
    <3> QED
      BY <1>3, <3>1, <3>2 DEF IsOf
  <2> HIDE DEF q
  <2>4. CASE R!Told(p) /\ R!Starts({p}, {q}, req)
    <3>1. /\ answers' = [answers EXCEPT ![p.call] = @ + 1] /\ pending' = (pending \ {p}) \cup {q}
          /\ UNCHANGED <<req, requestEnded, calls>>
      BY <1>1, <2>4 DEF R!Told, R!Starts
    <3>2. Turning(pending', n) /\ (\A s \in pending' : IsOf(s, n, kind))
      BY <1>4, <2>3, <3>1 DEF Turning
    <3>3. Plain(kind) => \A s, t \in pending' : s = t
      BY <1>5, <3>1
    <3> QED
      BY <3>1, <3>2, <3>3, TurnKeeps DEF n, kind
  <2> QED
    BY <1>0, <1>7, <1>8, <2>1, <2>2, <2>4
<1>14. CASE R!ReadAgain(p)
  <2>1. /\ answers' = [answers EXCEPT ![p.call] = @ + 1] /\ pending' = pending
        /\ UNCHANGED <<req, requestEnded, calls>> /\ p.op = "turn"
    BY <1>1, <1>14 DEF R!ReadAgain, R!Told, R!Starts
  <2>2. Turning(pending', n)
    BY <1>3, <2>1 DEF Turning
  <2>3. Plain(kind) => \A s, t \in pending' : s = t
    BY <1>5, <2>1
  <2> QED
    BY <1>4, <2>1, <2>2, <2>3, TurnKeeps DEF n, kind
<1> QED
  BY <1>1, <1>10, <1>11, <1>12, <1>14

\* No call of a plain kind is answered twice, unless by a reader's loop that
\* never lets it be over, and one that is over without an
\* answer is the dropped body data after a call that wrote headers, however
\* connects, writes and reads end.
THEOREM AnsweredOnceHolds ==
  Spec => []AnsweredOnce
<1> DEFINE Inv == part = "request" => RequestInv
<1> USE LibraryAssumption
<1>1. R!Init => RequestInv
  <2> SUFFICES ASSUME R!Init PROVE RequestInv
    OBVIOUS
  <2>1. calls = <<>> /\ Len(calls) = 0 /\ pending = {} /\ answers = [c \in 1..MaxCalls |-> 0]
        /\ requestEnded = "no"
    BY DEF R!Init
  <2>2. req \in Objects /\ req.m_headers_written = FALSE
    <3>1. PICK conn \in BOOLEAN : req = R!Request(conn)
      BY DEF R!Init
    <3>2. R!Request(conn).m_headers_written = FALSE
      BY DEF R!Request
    <3>3. R!Request(conn) \in Objects
      BY DEF R!Request, Objects
    <3> QED
      BY <3>1, <3>2, <3>3
  <2>3. RequestTypes
    BY <2>1, <2>2 DEF RequestTypes
  <2>4. UnderWay
    BY <2>1 DEF UnderWay
  <2>5. Heard
    BY <2>1, <2>2 DEF Heard
  <2> QED
    BY <2>3, <2>4, <2>5 DEF RequestInv
<1>2. RequestInv /\ [R!Next]_R!request => RequestInv'
  BY CallsKeep, SettersKeep, CallbacksKeep DEF R!Next
<1>3. RequestInv => R!AnsweredOnce
  <2> SUFFICES ASSUME RequestInv, NEW c \in DOMAIN calls, calls[c] \notin {"headers", "trailers"}
               PROVE  /\ answers[c] <= 1 \/ \E p \in pending : p.op = "turn" /\ p.call = c
                      /\ R!Quiet /\ answers[c] = 0 =>
                           /\ calls[c] \in {"body", "last"}
                           /\ \E d \in 1..(c - 1) : calls[d] \in {"body", "headers"} /\ answers[d] > 0
    BY DEF R!AnsweredOnce
  <2>1. c \in 1..Len(calls) /\ Plain(calls[c])
    BY DEF RequestInv, RequestTypes, Plain
  <2>2. answers[c] <= 1 \/ \E p \in pending : p.op = "turn" /\ p.call = c
    BY <2>1 DEF RequestInv, Heard, Turning
  <2>3. ASSUME R!Quiet, answers[c] = 0
        PROVE  calls[c] \in {"body", "last"} /\ \E d \in 1..(c - 1) : Wrote(d)
    BY <2>1, <2>3 DEF RequestInv, Heard, R!Quiet
  <2> QED
    BY <2>2, <2>3 DEF Wrote
<1>4. Init => Inv
  BY <1>1 DEF Init
<1>5. Inv /\ [Next]_vars => Inv'
  <2>1. [Next]_vars /\ part' = "request" => part = "request" /\ [R!Next]_R!request
    BY DEF Next, vars, request, R!request
  <2> QED
    BY <1>2, <2>1
<1>6. Inv => AnsweredOnce
  BY <1>3 DEF AnsweredOnce
<1> QED
  BY <1>4, <1>5, <1>6, PTL DEF Spec

-----------------------------------------------------------------------------
(* Handshake: check_host.cpp and the verdicts.                              *)

\* The labels of host from its end to label i are those of dns or "*".
Agree(host, dns, i) == \A j \in 1..i : H!Label(dns, j) \in {H!Label(host, j), "*"}

\* One of them is there in so many words.
SameLabel(host, dns, i) == \E j \in 1..i : H!Label(dns, j) = H!Label(host, j)

\* A label before the host's, where there is one, is no other than "*".
FitsBefore(host, dns) ==
  \/ Len(dns) = Len(host) \/ H!Label(dns, Len(host)) = "*" \/ H!Label(dns, Len(host) + 1) = "*"

\* The loop of matchHostAgainstDnsName says "match" of a name that has the
\* labels of host.
LEMMA MatchAgrees ==
  ASSUME NEW host \in Seq(STRING), NEW dns \in Seq(STRING), H!matchHostAgainstDnsName(host, dns)
  PROVE  /\ Len(host) <= Len(dns) /\ Len(host) # 0
         /\ Agree(host, dns, Len(host)) /\ SameLabel(host, dns, Len(host)) /\ FitsBefore(host, dns)
<1> DEFINE n == Len(host)
           V == {"none", "match", "no"}
           Turn(i, m) == IF m = "no" THEN "no" ELSE H!Compared(host, dns, i, m)
           turn == [i \in 1..n |-> [m \in V |-> Turn(i, m)]]
           Loop(h) == [i \in 0..n |-> IF i = 0 THEN "none"
                                      ELSE IF h[i - 1] = "no" THEN "no"
                                      ELSE H!Compared(host, dns, i, h[i - 1])]
           F == CHOOSE h : h = Loop(h)
<1>1. n \in Nat /\ Len(dns) \in Nat
  OBVIOUS
<1>2. Len(host) <= Len(dns) /\ F[n] = "match"
  BY DEF H!matchHostAgainstDnsName
<1>3. ASSUME NEW i \in 1..n, NEW m \in V PROVE Turn(i, m) \in V
  BY DEF H!Compared
<1>4. PICK g : IsRun(g, n, V, "none", turn)
  <2>1. IsLoop(n, V, "none", turn)
    BY <1>1, <1>3 DEF IsLoop
  <2> QED
    BY <2>1, Turns
<1>5. \A k \in 1..n : k - 1 \in 0..n /\ k \in 0..n /\ g[k - 1] \in V /\ g[k] = Turn(k, g[k - 1])
  <2> SUFFICES ASSUME NEW k \in 1..n
               PROVE  k - 1 \in 0..n /\ k \in 0..n /\ g[k - 1] \in V /\ g[k] = Turn(k, g[k - 1])
    OBVIOUS
  <2>1. k - 1 \in 0..n /\ k \in 0..n
    BY <1>1
  <2>2. g[k] = turn[k][g[k - 1]] /\ g[k - 1] \in V
    BY <1>4, <2>1 DEF IsRun
  <2> QED
    BY <2>1, <2>2
<1>6. F = Loop(F)
  <2>1. g = Loop(g)
    <3>1. ASSUME NEW k \in 0..n PROVE g[k] = Loop(g)[k]
      BY <1>1, <1>4, <1>5 DEF IsRun
    <3> QED
      BY <1>4, <3>1 DEF IsRun
  <2> QED
    BY <2>1
<1>7. F[0] = "none" /\ \A k \in 1..n : F[k] = Turn(k, F[k - 1])
  <2>1. 0 \in 0..n /\ \A k \in 1..n : k \in 0..n /\ k # 0
    BY <1>1
  <2>2. \A k \in 0..n : F[k] = IF k = 0 THEN "none" ELSE Turn(k, F[k - 1])
    BY <1>6
  <2> HIDE DEF F
  <2> QED
    BY <2>1, <2>2
<1> HIDE DEF F
<1> DEFINE Good(i) == /\ F[i] \in V
                      /\ F[i] # "no" => Agree(host, dns, i)
                      /\ F[i] = "match" => SameLabel(host, dns, i)
           P == {i \in 0..n : Good(i)}
<1>8. 0 \in P
  BY <1>1, <1>7 DEF Agree, SameLabel
<1>9. ASSUME NEW i \in 1..n, i - 1 \in P PROVE i \in P
  <2>1. F[i] = Turn(i, F[i - 1]) /\ Good(i - 1) /\ i \in 0..n
    BY <1>1, <1>7, <1>9
  <2>2. F[i] \in V
    BY <1>3, <2>1
  <2>3. F[i] # "no" => F[i - 1] # "no" /\ H!Label(dns, i) \in {H!Label(host, i), "*"}
    BY <2>1 DEF H!Compared
  <2>4. F[i] = "match" => F[i - 1] = "match" \/ H!Label(dns, i) = H!Label(host, i)
    BY <2>1 DEF H!Compared
  <2>5. \A j \in 1..i : j = i \/ j \in 1..(i - 1)
    BY <1>1
  <2>6. i \in 1..i /\ \A j \in 1..(i - 1) : j \in 1..i
    BY <1>1
  <2>7. F[i] # "no" => Agree(host, dns, i)
    BY <2>1, <2>3, <2>5 DEF Agree
  <2>8. F[i] = "match" => SameLabel(host, dns, i)
    BY <2>1, <2>4, <2>6 DEF SameLabel
  <2> QED
    BY <2>1, <2>2, <2>7, <2>8
<1>10. Good(n)
  <2> HIDE DEF P
  <2>1. \A k \in 0..n : k \in P
    BY <1>1, <1>8, <1>9, UpTo
  <2> QED
    BY <1>1, <2>1 DEF P
<1>11. Agree(host, dns, n) /\ SameLabel(host, dns, n)
  BY <1>2, <1>10
<1>12. n # 0
  BY <1>2, <1>7
<1>13. FitsBefore(host, dns)
  <2>1. n \in 1..n /\ F[n] = Turn(n, F[n - 1])
    BY <1>1, <1>7, <1>12
  <2>2. H!Label(host, n) = H!Label(dns, n) => ~(Len(dns) > n /\ H!Label(dns, n + 1) # "*")
    BY <1>2, <2>1 DEF H!Compared
  <2>3. H!Label(host, n) # H!Label(dns, n) => H!Label(dns, n) = "*"
    BY <1>2, <2>1 DEF H!Compared
  <2> QED
    BY <1>1, <1>2, <2>2, <2>3 DEF FitsBefore
<1> QED
  BY <1>2, <1>11, <1>12, <1>13

\* A sequence that is another one with "*" before it.
LEMMA StarBefore ==
  ASSUME NEW S, "*" \in S, NEW s \in Seq(S), NEW t \in Seq(S),
         Len(t) = Len(s) + 1, t[1] = "*", \A i \in 1..Len(s) : t[i + 1] = s[i]
  PROVE  t = <<"*">> \o s
<1> DEFINE u == <<"*">> \o s
<1>1. u \in Seq(S) /\ Len(u) = Len(s) + 1
  OBVIOUS
<1>2. u[1] = "*" /\ \A i \in 1..Len(s) : u[i + 1] = s[i]
  OBVIOUS
<1> HIDE DEF u
<1>3. ASSUME NEW i \in 1..Len(t) PROVE t[i] = u[i]
  <2>1. i = 1 \/ (i - 1 \in 1..Len(s) /\ (i - 1) + 1 = i)
    OBVIOUS
  <2> QED
    BY <1>2, <2>1
<1>4. t = u
  BY <1>1, <1>3
<1> QED
  BY <1>4 DEF u

\* So the name is one for the host.
LEMMA MatchVouches ==
  ASSUME NEW host \in Seq(STRING), NEW dns \in Seq(STRING), H!matchHostAgainstDnsName(host, dns)
  PROVE  H!Vouches(dns, host)
<1> DEFINE n == Len(host)
           front == Len(dns) - n
<1>1. n \in Nat \ {0} /\ Len(dns) \in Nat /\ n <= Len(dns) /\ front \in Nat /\ Len(dns) = front + n
      /\ Len(host) = n /\ DOMAIN host = 1..n
  BY MatchAgrees
<1>2. Agree(host, dns, n) /\ SameLabel(host, dns, n) /\ FitsBefore(host, dns)
  BY MatchAgrees
<1> HIDE DEF n, front
<1>3. \A i \in 1..n : /\ n + 1 - i \in 1..n
                      /\ H!Label(host, n + 1 - i) = host[i] /\ H!Label(dns, n + 1 - i) = dns[front + i]
  <2> SUFFICES ASSUME NEW i \in 1..n
               PROVE  /\ n + 1 - i \in 1..n
                      /\ H!Label(host, n + 1 - i) = host[i] /\ H!Label(dns, n + 1 - i) = dns[front + i]
    OBVIOUS
  <2>1. n + 1 - i \in 1..n /\ n + 1 - (n + 1 - i) = i /\ Len(dns) + 1 - (n + 1 - i) = front + i
    BY <1>1
  <2> QED
    BY <1>1, <2>1 DEF H!Label
<1>4. \A i \in 1..n : dns[front + i] \in {host[i], "*"}
  BY <1>2, <1>3 DEF Agree
<1>5. \E i \in 1..n : dns[front + i] = host[i]
  <2>1. PICK j \in 1..n : H!Label(dns, j) = H!Label(host, j)
    BY <1>2 DEF SameLabel
  <2> DEFINE i == n + 1 - j
  <2>2. i \in 1..n /\ n + 1 - i = j
    BY <1>1
  <2> HIDE DEF i
  <2> QED
    BY <1>3, <2>1, <2>2
<1>6. front = 0 \/ dns[front + 1] = "*" \/ dns[front] = "*"
  <2>1. H!Label(dns, n) = dns[front + 1] /\ H!Label(dns, n + 1) = dns[front]
    <3>1. Len(dns) + 1 - n = front + 1 /\ Len(dns) + 1 - (n + 1) = front
      BY <1>1
    <3> QED
      BY <3>1 DEF H!Label
  <2> QED
    BY <1>1, <1>2, <2>1 DEF FitsBefore
<1>7. CASE H!Stray(dns)
  <2> DEFINE tail == SubSeq(dns, front + 1, Len(dns))
  <2>1. front \in 0..(Len(dns) - Len(host)) /\ DOMAIN host = 1..n
    BY <1>1
  <2>2. Len(tail) = n /\ \A i \in 1..n : tail[i] = dns[front + i]
    BY <1>1
  <2> HIDE DEF tail
  <2>3. /\ \A i \in DOMAIN host : tail[i] \in {host[i], "*"}
        /\ \E i \in DOMAIN host : tail[i] = host[i]
    BY <1>4, <1>5, <2>1, <2>2
  <2> QED
    BY <1>1, <1>7, <2>1, <2>2, <2>3 DEF H!Covers, H!Vouches, tail
<1>8. CASE ~H!Stray(dns)
  <2>1. \A i \in 2..Len(dns) : dns[i] # "*"
    BY <1>8 DEF H!Stray
  <2> DEFINE S == STRING \cup {"*"}
  <2>2. host \in Seq(S) /\ dns \in Seq(S)
    OBVIOUS
  <2>3. CASE front = 0
    <3>1. \A i \in 1..n : dns[i] \in {host[i], "*"}
      <4>1. \A i \in 1..n : front + i = i
        BY <1>1, <2>3
      <4> QED
        BY <1>4, <4>1
    <3>2. \A i \in 2..n : dns[i] = host[i]
      BY <1>1, <2>1, <2>3, <3>1
    <3>3. CASE dns[1] = host[1]
      <4>1. \A i \in 1..n : dns[i] = host[i]
        BY <3>2, <3>3
      <4>2. dns = host
        BY <1>1, <2>3, <4>1
      <4> QED
        BY <4>2 DEF H!Allowed, H!Vouches
    <3>4. CASE dns[1] # host[1]
      <4>1. dns[1] = "*"
        BY <1>1, <3>1, <3>4
      <4>2. n > 1
        <5>1. PICK i \in 1..n : dns[front + i] = host[i]
          BY <1>5
        <5>2. i # 1
          BY <2>3, <3>4, <5>1
        <5> QED
          BY <1>1, <5>2
      <4> DEFINE t == Tail(host)
      <4>3. t \in Seq(S) /\ Len(t) = n - 1 /\ \A i \in 1..(n - 1) : t[i] = host[i + 1]
        BY <1>1, <2>2, <4>2
      <4> HIDE DEF t, S
      <4>4. Len(dns) = Len(t) + 1 /\ \A i \in 1..Len(t) : dns[i + 1] = t[i]
        BY <1>1, <2>3, <3>2, <4>3
      <4>5. dns = <<"*">> \o t
        <5>1. "*" \in S
          BY DEF S
        <5> QED
          BY <2>2, <4>1, <4>3, <4>4, <5>1, StarBefore
      <4> QED
        BY <1>1, <4>2, <4>5 DEF H!Allowed, H!Vouches, t
    <3> QED
      BY <3>3, <3>4
  <2>4. CASE front # 0
    <3>1. \A i \in 1..n : front + i \in 2..Len(dns)
      BY <1>1, <2>4
    <3>2. \A i \in 1..n : dns[front + i] = host[i]
      BY <1>4, <2>1, <3>1
    <3>3. dns[front] = "*"
      BY <1>1, <1>6, <2>1, <2>4, <3>1
    <3>4. front = 1
      BY <1>1, <2>1, <2>4, <3>3
    <3>5. Len(dns) = Len(host) + 1 /\ \A i \in 1..Len(host) : dns[i + 1] = host[i]
      BY <1>1, <3>2, <3>4
    <3>6. dns = <<"*">> \o host
      <4>1. "*" \in S
        OBVIOUS
      <4> HIDE DEF S
      <4> QED
        BY <2>2, <3>3, <3>4, <3>5, <4>1, StarBefore
    <3> QED
      BY <3>6 DEF H!Allowed, H!Vouches
  <2> QED
    BY <2>3, <2>4
<1> QED
  BY <1>7, <1>8

\* The certificate has a name for the host.
Vouched(c, host) == \E name \in H!NamesOf(c) : H!Vouches(name, host)

Verdicts == {"skipped", "error", "OK", "FAILED"}

\* The file is a list of hosts, a report is about one of them, and there is one
\* for every line before the current one as long as the program has not died.
HandshakeTypes ==
  /\ hosts \in Seq(Servers) /\ line \in Nat \ {0}
  /\ cert \in Certs \cup {H!NoCert} /\ (at = "callback" => cert \in Certs)
  /\ reports \in Seq([host : Servers, verdict : Verdicts, cert : Certs \cup {H!NoCert}])
  /\ Len(reports) + 1 <= line /\ (~aborted => line = Len(reports) + 1)

HandshakeInv == HandshakeTypes /\ H!VerdictSound

\* A report about the current line that is sound keeps all of them sound.
LEMMA ReportKeeps ==
  ASSUME HandshakeInv, H!Running, NEW v \in Verdicts, H!Report(v), hosts' = hosts,
         v = "OK" => Vouched(cert, hosts[line])
  PROVE  /\ reports' \in Seq([host : Servers, verdict : Verdicts, cert : Certs \cup {H!NoCert}])
         /\ Len(reports') = Len(reports) + 1 /\ H!VerdictSound'
<1> DEFINE R1 == [host : Servers, verdict : Verdicts, cert : Certs \cup {H!NoCert}]
           r == [host |-> hosts[line], verdict |-> v, cert |-> cert]
<1>1. /\ hosts \in Seq(Servers) /\ line \in Nat \ {0} /\ cert \in Certs \cup {H!NoCert}
      /\ reports \in Seq(R1) /\ line = Len(reports) + 1 /\ line <= Len(hosts)
  BY DEF HandshakeInv, HandshakeTypes, H!Running
<1>2. hosts[line] \in Servers
  BY <1>1
<1>3. r \in R1
  BY <1>1, <1>2
<1>4. reports' = Append(reports, r)
  BY DEF H!Report, H!Host
<1>5. r.host = hosts[line] /\ r.verdict = v /\ r.cert = cert
  OBVIOUS
<1> HIDE DEF r
<1>6. reports' \in Seq(R1) /\ Len(reports') = Len(reports) + 1
      /\ reports'[line] = r /\ \A i \in 1..Len(reports) : reports'[i] = reports[i]
  <2> HIDE DEF R1
  <2> QED
    BY <1>1, <1>3, <1>4
<1>7. ASSUME NEW i \in DOMAIN reports'
      PROVE  /\ reports'[i].host = hosts[i]
             /\ reports'[i].verdict = "OK" => Vouched(reports'[i].cert, hosts[i])
  <2>1. i = line \/ i \in 1..Len(reports)
    BY <1>1, <1>6
  <2>2. CASE i = line
    BY <1>5, <1>6, <2>2
  <2>3. CASE i \in 1..Len(reports)
    <3>1. reports'[i] = reports[i] /\ i \in DOMAIN reports
      BY <1>1, <1>6, <2>3
    <3> QED
      BY <3>1 DEF HandshakeInv, H!VerdictSound, Vouched
  <2> QED
    BY <2>1, <2>2, <2>3
<1>8. H!VerdictSound'
  BY <1>7 DEF H!VerdictSound, Vouched
<1> QED
  BY <1>6, <1>8

\* What xmitmWorked says of a certificate that was shown.
LEMMA WorkedVouched ==
  ASSUME NEW host \in Servers, NEW c \in Certs, H!mitmWorked(host, c)
  PROVE  Vouched(c, host)
<1>1. host \in Seq(STRING) /\ c.cn \in Seq(STRING) /\ \A a \in c.alt : a.name \in Seq(STRING)
  BY NamesAssumption
<1>2. CASE H!matchHostAgainstDnsName(host, c.cn)
  BY <1>1, <1>2, MatchVouches DEF Vouched, H!NamesOf
<1>3. CASE H!matchHostAgainstDnsAltString(host, c.alt)
  <2>1. PICK a \in c.alt : a.kind = "DNS" /\ H!matchHostAgainstDnsName(host, a.name)
    BY <1>3 DEF H!matchHostAgainstDnsAltString, H!splitDNSNames
  <2>2. H!Vouches(a.name, host)
    BY <1>1, <2>1, MatchVouches
  <2> QED
    BY <2>1, <2>2 DEF Vouched, H!NamesOf
<1> QED
  BY <1>2, <1>3 DEF H!mitmWorked

\* The steps of the program.
LEMMA HandshakeStep ==
  ASSUME HandshakeInv, [H!HandshakeNext]_H!handshake
  PROVE  HandshakeInv'
<1>0. /\ hosts \in Seq(Servers) /\ line \in Nat \ {0} /\ cert \in Certs \cup {H!NoCert}
      /\ Len(reports) + 1 <= line /\ (~aborted => line = Len(reports) + 1) /\ Len(reports) \in Nat
  BY DEF HandshakeInv, HandshakeTypes
<1>1. ASSUME UNCHANGED <<hosts, line, reports>>, cert' \in Certs \cup {H!NoCert},
             at' = "callback" => cert' \in Certs, ~aborted \/ line = 1
      PROVE  HandshakeInv'
  <2>1. line = Len(reports) + 1
    BY <1>0, <1>1
  <2>2. HandshakeTypes'
    BY <1>1, <2>1 DEF HandshakeInv, HandshakeTypes
  <2>3. H!VerdictSound'
    BY <1>1 DEF HandshakeInv, H!VerdictSound
  <2> QED
    BY <2>2, <2>3 DEF HandshakeInv
<1>2. CASE H!Prepared
  BY <1>0, <1>1, <1>2 DEF H!Prepared
<1>3. CASE H!handleHostName
  <2>1. H!Running /\ at = "next" /\ UNCHANGED <<hosts, cert, aborted>>
    BY <1>3 DEF H!handleHostName, H!certificates
  <2>2. CASE H!Host \in Skipped
    <3>1. H!Report("skipped") /\ line' = line + 1 /\ at' = "next"
      BY <1>3, <2>1, <2>2 DEF H!handleHostName
    <3>2. /\ reports' \in Seq([host : Servers, verdict : Verdicts, cert : Certs \cup {H!NoCert}])
          /\ Len(reports') = Len(reports) + 1 /\ H!VerdictSound'
      BY <2>1, <3>1, ReportKeeps DEF Verdicts
    <3>3. HandshakeTypes'
      BY <1>0, <2>1, <3>1, <3>2 DEF HandshakeTypes
    <3> QED
      BY <3>2, <3>3 DEF HandshakeInv
  <2>3. CASE H!Host \notin Skipped
    <3>1. UNCHANGED <<hosts, line, reports, cert>> /\ at' # "callback"
      BY <1>3, <2>3 DEF H!handleHostName
    <3> QED
      BY <1>0, <1>1, <2>1, <3>1 DEF H!Running
  <2> QED
    BY <2>2, <2>3
<1>4. CASE H!NeedsInstance \/ H!certContactServer \/ H!makeSecure
  BY <1>0, <1>1, <1>4 DEF H!NeedsInstance, H!certContactServer, H!makeSecure, H!Goes, H!Running
<1>5. ASSUME NEW ok \in BOOLEAN, H!Resolves(ok) \/ H!Connected(ok) \/ H!ShakenHands(ok)
      PROVE  HandshakeInv'
  BY <1>0, <1>1, <1>5 DEF H!Resolves, H!Connected, H!ShakenHands, H!Goes, H!Failed, H!Saved, H!Running
<1>6. CASE H!Callback
  <2>1. /\ H!Running /\ at \in {"error", "callback"} /\ hosts' = hosts /\ line' = line + 1
        /\ cert' = H!NoCert /\ at' = "next"
    BY <1>6 DEF H!Callback
  <2>2. line <= Len(hosts) /\ hosts[line] \in Servers /\ line = Len(reports) + 1
    BY <1>0, <2>1 DEF H!Running
  <2>3. CASE aborted' = TRUE /\ UNCHANGED reports
    <3>1. HandshakeTypes'
      BY <1>0, <2>1, <2>2, <2>3 DEF HandshakeInv, HandshakeTypes
    <3>2. H!VerdictSound'
      BY <2>1, <2>3 DEF HandshakeInv, H!VerdictSound
    <3> QED
      BY <3>1, <3>2 DEF HandshakeInv
  <2>4. CASE \E v \in {"error", "FAILED", "OK"} :
                H!Report(v) /\ UNCHANGED aborted
                /\ (v = "OK" => at = "callback" /\ H!mitmWorked(H!Host, cert))
    <3>1. PICK v \in {"error", "FAILED", "OK"} :
                H!Report(v) /\ UNCHANGED aborted
                /\ (v = "OK" => at = "callback" /\ H!mitmWorked(H!Host, cert))
      BY <2>4
    <3>2. v = "OK" => Vouched(cert, hosts[line])
      BY <2>2, <3>1, WorkedVouched DEF HandshakeInv, HandshakeTypes, H!Host
    <3>3. /\ reports' \in Seq([host : Servers, verdict : Verdicts, cert : Certs \cup {H!NoCert}])
          /\ Len(reports') = Len(reports) + 1 /\ H!VerdictSound'
      BY <2>1, <3>1, <3>2, ReportKeeps DEF Verdicts
    <3>4. HandshakeTypes'
      BY <1>0, <2>1, <2>2, <3>1, <3>3 DEF HandshakeTypes
    <3> QED
      BY <3>3, <3>4 DEF HandshakeInv
  <2> QED
    BY <1>6, <2>3, <2>4 DEF H!Callback
<1>7. CASE UNCHANGED H!handshake
  <2>1. UNCHANGED <<hosts, at, line, cert, reports, aborted>>
    BY <1>7 DEF H!handshake, H!certificates
  <2>2. HandshakeTypes'
    BY <2>1 DEF HandshakeInv, HandshakeTypes
  <2>3. H!VerdictSound'
    BY <2>1 DEF HandshakeInv, H!VerdictSound
  <2> QED
    BY <2>2, <2>3 DEF HandshakeInv
<1> QED
  BY <1>2, <1>3, <1>4, <1>5, <1>6, <1>7 DEF H!HandshakeNext

\* Init.
LEMMA HandshakeStarts ==
  ASSUME H!HandshakeInit
  PROVE  HandshakeInv
<1>1. PICK n \in 1..MaxHosts : hosts \in [1..n -> Servers]
  BY DEF H!HandshakeInit
<1>2. hosts \in Seq(Servers)
  BY <1>1, LibraryAssumption
<1>3. reports = <<>> /\ line = 1 /\ cert = H!NoCert /\ at = "next"
  BY DEF H!HandshakeInit
<1>4. HandshakeTypes
  BY <1>2, <1>3 DEF HandshakeTypes
<1> QED
  BY <1>3, <1>4 DEF HandshakeInv, H!VerdictSound

-----------------------------------------------------------------------------
(* CertFileTest: a test tells the truth about its file of roots.            *)

Expectations == {"success", "handshake", "names"}
Files == {"default", "cacert", "x_cacert", "osx-allcerts", "combined-cacert"}
Tests == [host : {"ssllabs", "ssltest"}, file : Files, via : {"context", "store"},
          expect : Expectations]

\* The test cases are tests.
LEMMA CasesAreTests == T!Cases \in Seq(Tests)
<1> USE DEF T!Test, T!withDefaultCertFile, T!withDefaultCertFileViaX509Store,
            T!withNonDefaultCertFile, T!withNonDefaultCertFileViaX509Store, Tests, Files, Expectations
<1>1. T!ssllabs_testSuite \in Seq(Tests)
  BY DEF T!ssllabs_testSuite
<1>2. T!ssllabs_testSuiteViaX509Store \in Seq(Tests)
  BY DEF T!ssllabs_testSuiteViaX509Store
<1>3. T!ssltest_testSuite \in Seq(Tests)
  BY DEF T!ssltest_testSuite
<1>4. T!ssltest_testSuiteViaX509Store \in Seq(Tests)
  BY DEF T!ssltest_testSuiteViaX509Store
<1> HIDE DEF Tests
<1> QED
  BY <1>1, <1>2, <1>3, <1>4 DEF T!Cases

Connected == {"handshaking", "writing", "reading"}

TestTypes ==
  /\ case \in Nat \ {0} /\ thrown \in BOOLEAN /\ success \in BOOLEAN
  /\ testAt \in {"none", "connecting", "done"} \cup Connected

RootsOf(file) == {r \in {h[2] : h \in Holds} : <<file, r>> \in Holds}

\* A test that is under way has the roots of its own file and no other, and a
\* client that got past the handshake trusts the server by them.
OwnRoots ==
  /\ testAt # "none" => case <= Len(T!Cases) /\ ctx = RootsOf(T!Now.file)
  /\ testAt \in {"connecting"} \cup Connected => ~success
  /\ testAt \in {"writing", "reading"} => Signer[T!Now.host] \in ctx
  /\ testAt = "done" /\ success => Signer[T!Now.host] \in ctx

\* What passed, and why the program ended.
Verdict ==
  /\ \A p \in passed :
       LET c == T!Cases[p.case]
       IN  /\ c.expect \in {"success", "names"} => <<c.file, Signer[c.host]>> \in Holds
           /\ c.expect = "handshake" => p.where = "HANDSHAKE"
  /\ thrown => testAt = "none"
  /\ thrown /\ success =>
       LET c == T!Cases[case - 1]
       IN  \/ c.expect = "names" /\ _subjectAltnames # T!Names
           \/ c.expect = "handshake" /\ <<c.file, Signer[c.host]>> \in Holds

TestInv == TestTypes /\ OwnRoots /\ Verdict

\* A handler that is given an error.
LEMMA FailKeeps ==
  ASSUME TestInv, NEW step, T!Fails(step), UNCHANGED <<thrown, passed>>, testAt \in {"connecting"} \cup Connected
  PROVE  TestInv'
<1>1. testAt' = "done" /\ UNCHANGED <<case, ctx, success, _subjectAltnames, thrown, passed>>
  BY DEF T!Fails
<1>2. success = FALSE /\ thrown = FALSE
  BY DEF TestInv, OwnRoots, Verdict, TestTypes, Connected
<1>3. OwnRoots'
  BY <1>1, <1>2 DEF TestInv, OwnRoots, T!Now, Connected
<1>4. Verdict'
  BY <1>1, <1>2 DEF TestInv, Verdict
<1>5. TestTypes'
  BY <1>1 DEF TestInv, TestTypes
<1> QED
  BY <1>3, <1>4, <1>5 DEF TestInv

\* A handler that is given none, and starts the next operation.
LEMMA GoesOnKeeps ==
  ASSUME TestInv, UNCHANGED <<case, ctx, success, thrown, passed>>,
         testAt \in {"connecting"} \cup Connected, testAt' \in Connected,
         testAt' \in {"writing", "reading"} => Signer[T!Now.host] \in ctx
  PROVE  TestInv'
<1>1. success = FALSE /\ thrown = FALSE
  BY DEF TestInv, OwnRoots, Verdict, TestTypes, Connected
<1>2. OwnRoots'
  BY <1>1 DEF TestInv, OwnRoots, T!Now, Connected
<1>3. Verdict' /\ TestTypes'
  BY <1>1 DEF TestInv, Verdict, TestTypes
<1> QED
  BY <1>2, <1>3 DEF TestInv

\* The steps of the client.
LEMMA ClientKeeps ==
  ASSUME TestInv,
         T!runOneTest \/ T!ResolveThrows \/ T!handle_connect \/ T!handle_handshake \/ T!handle_write
           \/ T!handle_read
  PROVE  TestInv'
<1>0. TestTypes /\ OwnRoots /\ Verdict
  BY DEF TestInv
<1>1. CASE T!runOneTest
  <2>1. /\ ~thrown /\ testAt = "none" /\ case <= Len(T!Cases) /\ ctx' = RootsOf(T!Now.file)
        /\ testAt' = "connecting" /\ success' = FALSE /\ UNCHANGED <<case, thrown, passed>>
    BY <1>1 DEF T!runOneTest, RootsOf
  <2>2. TestTypes'
    BY <1>0, <2>1 DEF TestTypes
  <2>3. OwnRoots'
    BY <2>1 DEF OwnRoots, T!Now, Connected
  <2>4. Verdict'
    BY <1>0, <2>1 DEF Verdict
  <2> QED
    BY <2>2, <2>3, <2>4 DEF TestInv
<1>2. CASE T!ResolveThrows
  <2>1. /\ testAt = "none" /\ thrown' = TRUE /\ success' = FALSE
        /\ UNCHANGED <<case, testAt, ctx, passed>>
    BY <1>2 DEF T!ResolveThrows
  <2>2. TestTypes'
    BY <1>0, <2>1 DEF TestTypes
  <2>3. OwnRoots'
    BY <2>1 DEF OwnRoots, Connected
  <2>4. Verdict'
    BY <1>0, <2>1 DEF Verdict
  <2> QED
    BY <2>2, <2>3, <2>4 DEF TestInv
<1>3. CASE T!handle_connect
  BY <1>3, FailKeeps, GoesOnKeeps DEF T!handle_connect, Connected
<1>4. CASE T!handle_handshake
  BY <1>4, FailKeeps, GoesOnKeeps DEF T!handle_handshake, Connected
<1>5. CASE T!handle_write
  <2>1. testAt = "writing" => Signer[T!Now.host] \in ctx
    BY <1>0 DEF OwnRoots
  <2> QED
    BY <1>5, <2>1, FailKeeps, GoesOnKeeps DEF T!handle_write, Connected
<1>6. CASE T!handle_read
  <2>1. testAt = "reading" /\ testAt \in Connected /\ UNCHANGED <<thrown, passed>>
    BY <1>6 DEF T!handle_read, Connected
  <2>2. CASE T!Fails("READ")
    BY <2>1, <2>2, FailKeeps
  <2>3. CASE testAt' = "done" /\ success' = TRUE /\ UNCHANGED <<case, ctx, where, _subjectAltnames>>
    <3>1. TestTypes'
      BY <1>0, <2>1, <2>3 DEF TestTypes
    <3>2. Verdict'
      BY <1>0, <2>1, <2>3 DEF Verdict
    <3>3. OwnRoots'
      BY <1>0, <2>1, <2>3 DEF OwnRoots, T!Now, Connected
    <3> QED
      BY <3>1, <3>2, <3>3 DEF TestInv
  <2> QED
    BY <1>6, <2>2, <2>3 DEF T!handle_read
<1> QED
  BY <1>1, <1>2, <1>3, <1>4, <1>5, <1>6

\* The validation of a result.
LEMMA ValidateKeeps ==
  ASSUME TestInv, T!Validates
  PROVE  TestInv'
<1>0. TestTypes /\ OwnRoots /\ Verdict
  BY DEF TestInv
<1> DEFINE c == T!Now
           ok == \/ c.expect = "success" /\ T!validateSuccess
                 \/ c.expect = "handshake" /\ T!validateFailInHandshake
                 \/ c.expect = "names" /\ T!validateSuccess /\ T!validateSubjectAltNames
<1>1. /\ testAt = "done" /\ ~thrown /\ thrown' = ~ok
      /\ passed' = (IF ok THEN passed \cup {[case |-> case, where |-> where]} ELSE passed)
      /\ case' = case + 1 /\ testAt' = "none"
      /\ UNCHANGED <<ctx, success, where, _subjectAltnames>>
  BY DEF T!Validates
<1>2. case \in Nat \ {0} /\ case' \in Nat \ {0} /\ case' - 1 = case /\ success \in BOOLEAN
  BY <1>0, <1>1 DEF TestTypes
<1>3. TestTypes'
  <2>1. ok \in BOOLEAN
    OBVIOUS
  <2> HIDE DEF ok
  <2> QED
    BY <1>0, <1>1, <1>2, <2>1 DEF TestTypes
<1>4. OwnRoots'
  BY <1>0, <1>1 DEF OwnRoots, Connected
<1>5. c = T!Cases[case] /\ c.expect \in Expectations
  <2>1. case \in 1..Len(T!Cases) /\ Len(T!Cases) \in Nat
    BY <1>0, <1>1, <1>2, CasesAreTests DEF OwnRoots
  <2>2. T!Cases[case] \in Tests
    BY <2>1, CasesAreTests
  <2> QED
    BY <2>2 DEF Tests, T!Now
<1> HIDE DEF c
<1>6. success => <<c.file, Signer[c.host]>> \in Holds
  BY <1>0, <1>1 DEF OwnRoots, RootsOf, c
<1>7. ASSUME NEW p \in passed'
      PROVE  LET d == T!Cases[p.case]
             IN  /\ d.expect \in {"success", "names"} => <<d.file, Signer[d.host]>> \in Holds
                 /\ d.expect = "handshake" => p.where = "HANDSHAKE"
  <2>1. CASE p \in passed
    BY <1>0, <2>1 DEF Verdict
  <2>2. CASE ok /\ p = [case |-> case, where |-> where]
    <3>1. p.case = case /\ p.where = where
      BY <2>2
    <3>2. c.expect \in {"success", "names"} => success
      BY <2>2 DEF T!validateSuccess
    <3>3. c.expect = "handshake" => where = "HANDSHAKE"
      BY <2>2 DEF T!validateFailInHandshake
    <3> HIDE DEF ok
    <3> QED
      BY <1>5, <1>6, <3>1, <3>2, <3>3
  <2> QED
    BY <1>1, <2>1, <2>2
<1>8. ASSUME thrown', success'
      PROVE  LET d == T!Cases[case' - 1]
             IN  \/ d.expect = "names" /\ _subjectAltnames' # T!Names
                 \/ d.expect = "handshake" /\ <<d.file, Signer[d.host]>> \in Holds
  <2>1. ~ok /\ success = TRUE
    BY <1>1, <1>2, <1>8
  <2>2. \/ c.expect = "names" /\ _subjectAltnames # T!Names
        \/ c.expect = "handshake"
    BY <1>5, <2>1 DEF Expectations, T!validateSuccess, T!validateSubjectAltNames
  <2> QED
    BY <1>1, <1>2, <1>5, <1>6, <2>1, <2>2
<1>9. Verdict'
  BY <1>1, <1>7, <1>8 DEF Verdict
<1> QED
  BY <1>3, <1>4, <1>9 DEF TestInv

\* The first test.
LEMMA TestStarts ==
  ASSUME T!Init
  PROVE  TestInv
<1>1. case = 1 /\ testAt = "none" /\ success = FALSE /\ thrown = FALSE /\ passed = {}
  BY DEF T!Init
<1>2. TestTypes
  <2>1. thrown \in BOOLEAN /\ success \in BOOLEAN
    BY <1>1, Zenon
  <2>2. case \in Nat \ {0} /\ testAt \in {"none", "connecting", "done"} \cup Connected
    BY <1>1
  <2> QED
    BY <2>1, <2>2, Zenon DEF TestTypes
<1>3. OwnRoots /\ Verdict
  BY <1>1 DEF OwnRoots, Verdict, Connected
<1> QED
  BY <1>2, <1>3 DEF TestInv

\* Every step.
LEMMA TestStep ==
  ASSUME TestInv, [T!Next]_T!vars
  PROVE  TestInv'
<1>1. CASE UNCHANGED T!vars
  <2>1. UNCHANGED <<case, testAt, ctx, success, _subjectAltnames, thrown, passed>>
    BY <1>1 DEF T!vars
  <2> QED
    BY <2>1 DEF TestInv, TestTypes, OwnRoots, Verdict, T!Now
<1> QED
  BY <1>1, ClientKeeps, ValidateKeeps DEF T!Next

\* What the property says of a state.
LEMMA TestJudged ==
  ASSUME TestInv
  PROVE  T!Judged
  BY DEF TestInv, Verdict, T!Judged

\* The verdicts of the handshake utility are about the lines of its file in
\* their order, and OK is printed only for a host that the certificate has a name
\* for, its own or one with a wildcard in front, or one with a wildcard astray
\* that covers it, whatever hosts, certificates and failures there are; a test of
\* a file of roots that passes tells the truth about it, whatever the files hold.
THEOREM VerdictsSoundHolds ==
  Spec => []VerdictsSound
<1> DEFINE Inv == /\ part = "handshake" => HandshakeInv
                  /\ part = "cert_files" => TestInv
<1>1. Init => Inv
  BY HandshakeStarts, TestStarts DEF Init
<1>2. Inv /\ [Next]_vars => Inv'
  <2>1. [Next]_vars /\ part' = "handshake" => part = "handshake" /\ [H!HandshakeNext]_H!handshake
    BY DEF Next, vars, handshake, certificates, H!handshake, H!certificates
  <2>2. [Next]_vars /\ part' = "cert_files" => part = "cert_files" /\ [T!Next]_T!vars
    BY DEF Next, vars, cert_files, T!vars
  <2> QED
    BY <2>1, <2>2, HandshakeStep, TestStep
<1>3. Inv => VerdictsSound
  BY TestJudged DEF VerdictsSound, HandshakeInv
<1> QED
  BY <1>1, <1>2, <1>3, PTL DEF Spec

-----------------------------------------------------------------------------
(* Collectors: the captures kept by CaptureCollector.                       *)

Posted == [to : {"capture", "cout", "base"}, id : Nat, host : Hosts]
Exchanges == [id : Nat, host : Hosts]
Entries == [host : Hosts, exchanges : Seq(Nat)]

\* The exchanges are numbered as they are collected, and wait in this order;
\* those that were captured came before.
InTurn ==
  /\ m_io \in Seq(Posted) /\ collected \in Nat /\ Len(m_io) <= collected
  /\ \A i \in 1..Len(m_io) : m_io[i].id = (collected - Len(m_io)) + i
  /\ seen \in Seq(Exchanges)
  /\ \A k \in 1..Len(seen) : seen[k].id <= collected - Len(m_io)

\* An entry holds the latest exchanges of its host among past.
Latest(e, past) ==
  /\ Len(e.exchanges) \in 1..(Keep + 1)
  /\ \A j, k \in 1..Len(e.exchanges) : j < k => e.exchanges[j] < e.exchanges[k]
  /\ \A k \in 1..Len(e.exchanges) :
       \E n \in 1..Len(past) : past[n].host = e.host /\ past[n].id = e.exchanges[k]
  /\ \A n \in 1..Len(past) :
       past[n].host = e.host /\ past[n].id >= e.exchanges[1] =>
         \E k \in 1..Len(e.exchanges) : e.exchanges[k] = past[n].id

LastOf(list) == list[Len(list)]

EntriesLatest ==
  /\ m_captured_traffic \in Seq(Entries) /\ Len(m_captured_traffic) <= Keep + 1
  /\ \A i, j \in 1..Len(m_captured_traffic) :
       m_captured_traffic[i].host = m_captured_traffic[j].host => i = j
  /\ \A i \in 1..Len(m_captured_traffic) : Latest(m_captured_traffic[i], seen)
  /\ seen # <<>> =>
       \E i \in 1..Len(m_captured_traffic) :
         LastOf(m_captured_traffic[i].exchanges) = LastOf(seen).id

CaptureInv == InTurn /\ EntriesLatest

\* What the loop of pop_front leaves: the end of the list, Keep of it at most.
LEMMA TrimmedFacts ==
  ASSUME NEW S, NEW list \in Seq(S)
  PROVE  /\ L!Trimmed(list) \in Seq(S) /\ Len(L!Trimmed(list)) <= Keep
         /\ Len(L!Trimmed(list)) <= Len(list)
         /\ \A j \in 1..Len(L!Trimmed(list)) :
              L!Trimmed(list)[j] = list[(Len(list) - Len(L!Trimmed(list))) + j]
<1>1. Keep \in Nat /\ Len(list) \in Nat
  BY LibraryAssumption
<1>2. CASE Len(list) > Keep
  <2>1. L!Trimmed(list) = SubSeq(list, Len(list) - Keep + 1, Len(list))
    BY <1>2 DEF L!Trimmed
  <2>2. Len(list) - Keep + 1 \in 1..(Len(list) + 1)
    BY <1>1, <1>2
  <2> DEFINE m == Len(list) - Keep + 1
             t == SubSeq(list, m, Len(list))
  <2>3. t \in Seq(S) /\ Len(t) = Keep /\ \A j \in 1..Keep : t[j] = list[(m - 1) + j]
    BY <1>1, <1>2, <2>2
  <2>4. m - 1 = Len(list) - Keep
    BY <1>1
  <2> QED
    BY <1>1, <1>2, <2>1, <2>3, <2>4
<1>3. CASE ~(Len(list) > Keep)
  BY <1>1, <1>3 DEF L!Trimmed
<1> QED
  BY <1>2, <1>3

\* What Append does.
LEMMA AppendFacts ==
  ASSUME NEW S, NEW list \in Seq(S), NEW x \in S
  PROVE  /\ Append(list, x) \in Seq(S) /\ Len(Append(list, x)) = Len(list) + 1
         /\ Append(list, x)[Len(list) + 1] = x
         /\ \A j \in 1..Len(list) : Append(list, x)[j] = list[j]
OBVIOUS

\* An exchange of another host is of no matter.
LEMMA LatestOther ==
  ASSUME NEW e \in Entries, NEW past \in Seq(Exchanges), NEW x \in Exchanges,
         Latest(e, past), x.host # e.host
  PROVE  Latest(e, Append(past, x))
<1> DEFINE now == Append(past, x)
<1>1. /\ Len(now) = Len(past) + 1 /\ now[Len(past) + 1] = x /\ Len(past) \in Nat
      /\ \A j \in 1..Len(past) : now[j] = past[j]
  BY AppendFacts
<1> HIDE DEF now
<1>2. \A n \in 1..Len(now) : n \in 1..Len(past) \/ n = Len(past) + 1
  BY <1>1
<1>3. \A n \in 1..Len(past) : n \in 1..Len(now)
  BY <1>1
<1>4. ASSUME NEW k \in 1..Len(e.exchanges)
      PROVE  \E n \in 1..Len(now) : now[n].host = e.host /\ now[n].id = e.exchanges[k]
  <2>1. PICK n \in 1..Len(past) : past[n].host = e.host /\ past[n].id = e.exchanges[k]
    BY DEF Latest
  <2> QED
    BY <1>1, <1>3, <2>1
<1>5. ASSUME NEW n \in 1..Len(now), now[n].host = e.host, now[n].id >= e.exchanges[1]
      PROVE  \E k \in 1..Len(e.exchanges) : e.exchanges[k] = now[n].id
  <2>1. n \in 1..Len(past) /\ now[n] = past[n]
    BY <1>1, <1>2, <1>5
  <2> QED
    BY <1>5, <2>1 DEF Latest
<1> QED
  BY <1>4, <1>5 DEF Latest, now

\* One more of the host itself is the latest of all.
LEMMA LatestMore ==
  ASSUME NEW e \in Entries, NEW past \in Seq(Exchanges), NEW x \in Exchanges,
         Latest(e, past), x.host = e.host, \A n \in 1..Len(past) : past[n].id < x.id
  PROVE  LET f == [e EXCEPT !.exchanges = Append(L!Trimmed(@), x.id)]
         IN  /\ f \in Entries /\ f.host = e.host /\ Latest(f, Append(past, x))
             /\ f.exchanges[Len(f.exchanges)] = x.id
<1> DEFINE now == Append(past, x)
           old == e.exchanges
           cut == L!Trimmed(old)
           ids == Append(cut, x.id)
           f == [e EXCEPT !.exchanges = Append(L!Trimmed(@), x.id)]
<1>1. /\ Len(now) = Len(past) + 1 /\ now[Len(past) + 1] = x /\ Len(past) \in Nat
      /\ \A j \in 1..Len(past) : now[j] = past[j]
  BY AppendFacts
<1>2. old \in Seq(Nat) /\ Len(old) \in Nat /\ x.id \in Nat /\ Keep \in Nat
  BY LibraryAssumption DEF Entries, Exchanges
<1>3. /\ cut \in Seq(Nat) /\ Len(cut) <= Keep /\ Len(cut) <= Len(old) /\ Len(cut) \in Nat
      /\ \A j \in 1..Len(cut) : cut[j] = old[(Len(old) - Len(cut)) + j]
  <2>1. cut \in Seq(Nat) /\ Len(cut) <= Keep /\ Len(cut) <= Len(old)
        /\ \A j \in 1..Len(cut) : cut[j] = old[(Len(old) - Len(cut)) + j]
    BY <1>2, TrimmedFacts
  <2> QED
    BY <2>1
<1> HIDE DEF now, cut
<1>4. /\ ids \in Seq(Nat) /\ Len(ids) = Len(cut) + 1 /\ ids[Len(cut) + 1] = x.id
      /\ \A j \in 1..Len(cut) : ids[j] = cut[j]
  BY <1>2, <1>3, AppendFacts
<1> HIDE DEF ids
<1>5. f = [host |-> e.host, exchanges |-> ids]
  <2>1. f = [e EXCEPT !.exchanges = ids]
    BY Zenon DEF ids, cut
  <2> HIDE DEF f
  <2>2. e = [host |-> e.host, exchanges |-> e.exchanges]
    BY DEF Entries
  <2>3. [e EXCEPT !.exchanges = ids] = [host |-> e.host, exchanges |-> ids]
    BY <2>2
  <2> QED
    BY <2>1, <2>3
<1>6. f \in Entries /\ f.host = e.host /\ f.exchanges = ids
  BY <1>4, <1>5 DEF Entries
<1> HIDE DEF f, old
<1> DEFINE d == Len(old) - Len(cut)
<1>7. d \in Nat /\ \A j \in 1..Len(cut) : d + j \in 1..Len(old) /\ ids[j] = old[d + j]
  BY <1>2, <1>3, <1>4
<1>8. \A j \in 1..Len(old) : old[j] \in Nat /\ old[j] < x.id
  <2> SUFFICES ASSUME NEW j \in 1..Len(old) PROVE old[j] \in Nat /\ old[j] < x.id
    OBVIOUS
  <2>1. PICK n \in 1..Len(past) : past[n].host = e.host /\ past[n].id = old[j]
    BY DEF Latest, old
  <2> QED
    BY <1>2, <2>1
<1>9. \A j \in 1..Len(ids) : j \in 1..Len(cut) \/ j = Len(cut) + 1
  BY <1>3, <1>4
<1>10. Len(ids) \in 1..(Keep + 1)
  BY <1>2, <1>3, <1>4
<1>11. ASSUME NEW j \in 1..Len(ids), NEW k \in 1..Len(ids), j < k PROVE ids[j] < ids[k]
  <2>1. j \in 1..Len(cut)
    BY <1>3, <1>4, <1>11
  <2>2. CASE k = Len(cut) + 1
    BY <1>4, <1>7, <1>8, <2>1, <2>2
  <2>3. CASE k \in 1..Len(cut)
    <3>1. d + j \in 1..Len(old) /\ d + k \in 1..Len(old) /\ d + j < d + k
      BY <1>7, <1>11, <2>1, <2>3
    <3>2. \A a, b \in 1..Len(old) : a < b => old[a] < old[b]
      BY DEF Latest, old
    <3> HIDE DEF d
    <3>3. old[d + j] < old[d + k]
      BY <3>1, <3>2
    <3> QED
      BY <1>7, <2>1, <2>3, <3>3
  <2> QED
    BY <1>9, <2>2, <2>3
<1>12. ASSUME NEW k \in 1..Len(ids)
       PROVE  \E n \in 1..Len(now) : now[n].host = e.host /\ now[n].id = ids[k]
  <2>1. CASE k = Len(cut) + 1
    <3>1. Len(past) + 1 \in 1..Len(now) /\ now[Len(past) + 1].host = e.host /\ now[Len(past) + 1].id = ids[k]
      BY <1>1, <1>4, <2>1
    <3> QED
      BY <3>1
  <2>2. CASE k \in 1..Len(cut)
    <3>1. d + k \in 1..Len(old) /\ ids[k] = old[d + k]
      BY <1>7, <2>2
    <3>2. PICK n \in 1..Len(past) : past[n].host = e.host /\ past[n].id = ids[k]
      BY <3>1 DEF Latest, old
    <3>3. n \in 1..Len(now) /\ now[n] = past[n]
      BY <1>1
    <3> QED
      BY <3>2, <3>3
  <2> QED
    BY <1>9, <2>1, <2>2
<1>13. ASSUME NEW n \in 1..Len(now), now[n].host = e.host, now[n].id >= ids[1]
       PROVE  \E k \in 1..Len(ids) : ids[k] = now[n].id
  <2>1. CASE n = Len(past) + 1
    <3>1. Len(cut) + 1 \in 1..Len(ids)
      BY <1>3, <1>4
    <3> QED
      BY <1>1, <1>4, <2>1, <3>1
  <2>2. CASE n # Len(past) + 1
    <3>1. n \in 1..Len(past) /\ now[n] = past[n] /\ past[n].id \in Nat /\ past[n].id < x.id
      <4>1. n \in 1..Len(past) /\ now[n] = past[n]
        BY <1>1, <2>2
      <4>2. past[n] \in Exchanges
        BY <4>1
      <4> QED
        BY <4>1, <4>2 DEF Exchanges
    <3>2. Len(cut) # 0 /\ 1 \in 1..Len(cut) /\ d + 1 \in 1..Len(old) /\ ids[1] = old[d + 1]
      <4>1. Len(cut) # 0
        BY <1>2, <1>3, <1>4, <1>13, <3>1
      <4>2. 1 \in 1..Len(cut)
        BY <1>3, <4>1
      <4> QED
        BY <1>7, <4>1, <4>2
    <3>3. 1 \in 1..Len(old) /\ old[1] <= old[d + 1]
      <4>1. 1 \in 1..Len(old) /\ (d + 1 = 1 \/ 1 < d + 1)
        BY <1>2, <1>7, <3>2
      <4>2. 1 < d + 1 => old[1] < old[d + 1]
        BY <3>2, <4>1 DEF Latest, old
      <4> QED
        BY <1>8, <3>2, <4>1, <4>2
    <3>4. past[n].id >= old[1]
      BY <1>8, <1>13, <3>1, <3>2, <3>3
    <3>5. PICK k \in 1..Len(old) : old[k] = past[n].id
      BY <1>13, <3>1, <3>4 DEF Latest, old
    <3>6. d + 1 <= k
      <4> SUFFICES ASSUME ~(d + 1 <= k) PROVE FALSE
        OBVIOUS
      <4>1. k < d + 1
        BY <1>7
      <4>2. old[k] < old[d + 1]
        BY <3>2, <4>1 DEF Latest, old
      <4> QED
        BY <1>8, <1>13, <3>1, <3>2, <3>5, <4>2
    <3>7. k - d \in 1..Len(cut) /\ d + (k - d) = k /\ k - d \in 1..Len(ids)
      BY <1>2, <1>3, <1>4, <1>7, <3>6
    <3>8. ids[k - d] = old[k]
      BY <1>7, <3>7
    <3> QED
      BY <3>1, <3>5, <3>7, <3>8
  <2> QED
    BY <2>1, <2>2
<1>14. Latest(f, now)
  BY <1>6, <1>10, <1>11, <1>12, <1>13 DEF Latest
<1> QED
  BY <1>4, <1>6, <1>14 DEF f, now

\* The first exchange of a host that has no entry.
LEMMA LatestFirst ==
  ASSUME NEW past \in Seq(Exchanges), NEW x \in Exchanges, \A n \in 1..Len(past) : past[n].id < x.id
  PROVE  LET f == [host |-> x.host, exchanges |-> <<x.id>>]
         IN  f \in Entries /\ Latest(f, Append(past, x)) /\ f.exchanges[Len(f.exchanges)] = x.id
<1> DEFINE now == Append(past, x)
           f == [host |-> x.host, exchanges |-> <<x.id>>]
<1>1. /\ Len(now) = Len(past) + 1 /\ now[Len(past) + 1] = x /\ Len(past) \in Nat
      /\ \A j \in 1..Len(past) : now[j] = past[j]
  BY AppendFacts
<1> HIDE DEF now
<1>2. x.host \in Hosts /\ x.id \in Nat /\ Keep \in Nat
  BY LibraryAssumption DEF Exchanges
<1>3. f \in Entries /\ f.host = x.host /\ f.exchanges = <<x.id>>
  BY <1>2 DEF Entries
<1> HIDE DEF f
<1>4. Len(f.exchanges) = 1 /\ f.exchanges[1] = x.id /\ 1 \in 1..(Keep + 1)
  BY <1>2, <1>3
<1>5. Len(past) + 1 \in 1..Len(now)
  BY <1>1
<1>6. ASSUME NEW n \in 1..Len(now), now[n].id >= x.id PROVE now[n].id = x.id
  <2>1. CASE n \in 1..Len(past)
    <3>1. past[n] \in Exchanges /\ past[n].id < x.id /\ now[n] = past[n]
      BY <1>1, <2>1
    <3> QED
      BY <1>2, <1>6, <3>1 DEF Exchanges
  <2>2. CASE n = Len(past) + 1
    BY <1>1, <2>2
  <2> QED
    BY <1>1, <2>1, <2>2
<1>7. \A k \in 1..Len(f.exchanges) : k = 1
  BY <1>4
<1>8. Latest(f, now)
  BY <1>1, <1>3, <1>4, <1>5, <1>6, <1>7 DEF Latest
<1> QED
  BY <1>3, <1>4, <1>8 DEF f, now

\* The posted handler: each entry that is left is still the latest of its host.
LEMMA CapturedKeeps ==
  ASSUME EntriesLatest, seen \in Seq(Exchanges), NEW x \in Exchanges,
         \A n \in 1..Len(seen) : seen[n].id < x.id,
         m_captured_traffic' = L!Captured(m_captured_traffic, x.id, x.host), seen' = Append(seen, x)
  PROVE  EntriesLatest'
<1> DEFINE old == m_captured_traffic
           found == {i \in DOMAIN old : old[i].host = x.host}
           grown == [i \in DOMAIN old |->
                       IF i \in found THEN [old[i] EXCEPT !.exchanges = Append(L!Trimmed(@), x.id)]
                                      ELSE old[i]]
           first == [host |-> x.host, exchanges |-> <<x.id>>]
           cut == L!Trimmed(old)
<1>1. old \in Seq(Entries) /\ Len(old) \in Nat /\ DOMAIN old = 1..Len(old) /\ Keep \in Nat /\ Len(old) <= Keep + 1
  BY LibraryAssumption DEF EntriesLatest
<1>2. \A i \in 1..Len(old) : old[i] \in Entries /\ Latest(old[i], seen)
  BY <1>1 DEF EntriesLatest
<1>3. \A i, j \in 1..Len(old) : old[i].host = old[j].host => i = j
  BY DEF EntriesLatest
<1>4. seen' # <<>> /\ LastOf(seen').id = x.id
  <2>1. Len(seen') = Len(seen) + 1 /\ seen'[Len(seen) + 1] = x /\ Len(seen) \in Nat
    BY AppendFacts
  <2>2. seen' # <<>>
    BY <2>1
  <2> QED
    BY <2>1, <2>2 DEF LastOf
<1>5. CASE found # {}
  <2>1. old' = grown
    BY <1>5 DEF L!Captured
  <2>2. \A i \in 1..Len(old) : i \notin found => grown[i] = old[i] /\ old[i].host # x.host
    BY <1>1
  <2>3. ASSUME NEW i \in 1..Len(old), i \in found
        PROVE  /\ grown[i] \in Entries /\ grown[i].host = old[i].host /\ Latest(grown[i], Append(seen, x))
               /\ grown[i].exchanges[Len(grown[i].exchanges)] = x.id
    <3>1. grown[i] = [old[i] EXCEPT !.exchanges = Append(L!Trimmed(@), x.id)]
      BY <1>1, <2>3, Zenon
    <3> HIDE DEF grown
    <3>2. old[i].host = x.host /\ old[i] \in Entries /\ Latest(old[i], seen)
      BY <1>2, <2>3
    <3> DEFINE e == old[i]
               f == [e EXCEPT !.exchanges = Append(L!Trimmed(@), x.id)]
    <3>3. f \in Entries /\ f.host = e.host /\ Latest(f, Append(seen, x))
          /\ f.exchanges[Len(f.exchanges)] = x.id
      <4> HIDE DEF e
      <4>1. e \in Entries /\ Latest(e, seen) /\ x.host = e.host
        BY <3>2 DEF e
      <4> QED
        BY <4>1, LatestMore
    <3>4. grown[i] = f
      BY <3>1, Zenon
    <3> HIDE DEF f
    <3> QED
      BY <3>3, <3>4
  <2>4. grown = [i \in 1..Len(old) |-> grown[i]]
    BY <1>1
  <2> HIDE DEF grown
  <2>5. \A i \in 1..Len(old) : grown[i] \in Entries /\ grown[i].host = old[i].host /\ Latest(grown[i], Append(seen, x))
    <3> SUFFICES ASSUME NEW i \in 1..Len(old)
                 PROVE  grown[i] \in Entries /\ grown[i].host = old[i].host /\ Latest(grown[i], Append(seen, x))
      OBVIOUS
    <3>1. CASE i \in found
      BY <2>3, <3>1
    <3>2. CASE i \notin found
      <4>1. grown[i] = old[i] /\ old[i].host # x.host /\ old[i] \in Entries /\ Latest(old[i], seen)
        BY <1>2, <2>2, <3>2
      <4> QED
        BY <4>1, LatestOther
    <3> QED
      BY <3>1, <3>2
  <2>6. grown \in Seq(Entries) /\ Len(grown) = Len(old)
    BY <1>1, <2>4, <2>5
  <2>7. PICK i \in 1..Len(old) : i \in found
    BY <1>1, <1>5
  <2>8. LastOf(grown[i].exchanges) = x.id
    BY <2>3, <2>7 DEF LastOf
  <2> HIDE DEF found
  <2> QED
    BY <1>1, <1>3, <1>4, <2>1, <2>5, <2>6, <2>7, <2>8 DEF EntriesLatest
<1>6. CASE found = {}
  <2>1. old' = Append(cut, first)
    BY <1>6 DEF L!Captured
  <2>2. \A i \in 1..Len(old) : old[i].host # x.host
    BY <1>1, <1>6
  <2>3. /\ cut \in Seq(Entries) /\ Len(cut) <= Keep /\ Len(cut) <= Len(old) /\ Len(cut) \in Nat
        /\ \A j \in 1..Len(cut) : cut[j] = old[(Len(old) - Len(cut)) + j]
    <3>1. cut \in Seq(Entries) /\ Len(cut) <= Keep /\ Len(cut) <= Len(old)
          /\ \A j \in 1..Len(cut) : cut[j] = old[(Len(old) - Len(cut)) + j]
      BY <1>1, TrimmedFacts
    <3> QED
      BY <3>1
  <2>4. first \in Entries /\ Latest(first, Append(seen, x)) /\ first.exchanges[Len(first.exchanges)] = x.id
        /\ first.host = x.host
    BY LatestFirst
  <2> HIDE DEF cut, first
  <2>5. /\ old' \in Seq(Entries) /\ Len(old') = Len(cut) + 1 /\ old'[Len(cut) + 1] = first
        /\ \A j \in 1..Len(cut) : old'[j] = cut[j]
    BY <2>1, <2>3, <2>4, AppendFacts
  <2> DEFINE d == Len(old) - Len(cut)
  <2>6. d \in Nat /\ \A j \in 1..Len(cut) : d + j \in 1..Len(old) /\ old'[j] = old[d + j]
    BY <1>1, <2>3, <2>5
  <2>7. \A j \in 1..Len(old') : j \in 1..Len(cut) \/ j = Len(cut) + 1
    BY <2>3, <2>5
  <2>8. Len(old') <= Keep + 1 /\ Len(cut) + 1 \in 1..Len(old')
    BY <1>1, <2>3, <2>5
  <2>9. ASSUME NEW i \in 1..Len(old'), NEW j \in 1..Len(old'), old'[i].host = old'[j].host PROVE i = j
    <3>1. CASE i \in 1..Len(cut) /\ j \in 1..Len(cut)
      <4>1. d + i = d + j
        BY <1>3, <2>6, <2>9, <3>1
      <4> QED
        BY <2>6, <3>1, <4>1
    <3>2. \A k \in 1..Len(cut) : old'[k].host # x.host
      BY <2>2, <2>6
    <3>3. old'[Len(cut) + 1].host = x.host
      BY <2>4, <2>5
    <3> QED
      BY <2>7, <2>9, <3>1, <3>2, <3>3
  <2>10. ASSUME NEW i \in 1..Len(old') PROVE Latest(old'[i], Append(seen, x))
    <3>1. CASE i = Len(cut) + 1
      BY <2>4, <2>5, <3>1
    <3>2. CASE i \in 1..Len(cut)
      <4>1. old'[i] \in Entries /\ old'[i].host # x.host /\ Latest(old'[i], seen)
        BY <1>2, <2>2, <2>6, <3>2
      <4> QED
        BY <4>1, LatestOther
    <3> QED
      BY <2>7, <3>1, <3>2
  <2>11. LastOf(old'[Len(cut) + 1].exchanges) = x.id
    BY <2>4, <2>5 DEF LastOf
  <2> QED
    BY <1>4, <2>5, <2>8, <2>9, <2>10, <2>11 DEF EntriesLatest
<1> QED
  BY <1>5, <1>6

\* What is taken from the queue, and what waits behind it.
LEMMA TakenFirst ==
  ASSUME InTurn, m_io # <<>>, m_io' = Tail(m_io), collected' = collected
  PROVE  /\ Head(m_io) \in Posted /\ Head(m_io).id = (collected - Len(m_io)) + 1
         /\ m_io' \in Seq(Posted) /\ Len(m_io') = Len(m_io) - 1 /\ Len(m_io) \in Nat \ {0}
         /\ \A i \in 1..Len(m_io') : m_io'[i].id = (collected' - Len(m_io')) + i
<1>1. m_io \in Seq(Posted) /\ Len(m_io) \in Nat \ {0} /\ collected \in Nat /\ Len(m_io) <= collected
  BY DEF InTurn
<1>2. 1 \in 1..Len(m_io) /\ Head(m_io) = m_io[1] /\ m_io[1] \in Posted
  BY <1>1
<1>3. m_io' \in Seq(Posted) /\ Len(m_io') = Len(m_io) - 1
      /\ \A i \in 1..Len(m_io') : m_io'[i] = m_io[i + 1] /\ i + 1 \in 1..Len(m_io)
  BY <1>1
<1>4. ASSUME NEW i \in 1..Len(m_io') PROVE m_io'[i].id = (collected' - Len(m_io')) + i
  <2>1. m_io'[i].id = (collected - Len(m_io)) + (i + 1)
    BY <1>3 DEF InTurn
  <2> QED
    BY <1>1, <1>3, <2>1
<1> QED
  BY <1>1, <1>2, <1>3, <1>4 DEF InTurn

\* Every step.
LEMMA CaptureStep ==
  ASSUME CaptureInv, [L!CaptureNext]_L!collectors
  PROVE  CaptureInv'
<1>0. InTurn /\ EntriesLatest /\ seen \in Seq(Exchanges) /\ Len(seen) \in Nat /\ collected \in Nat
  BY DEF CaptureInv, InTurn
<1>a. \A n \in 1..Len(seen) :
        seen[n] \in Exchanges /\ seen[n].id \in Nat /\ seen[n].id <= collected - Len(m_io)
  <2>1. \A n \in 1..Len(seen) : seen[n] \in Exchanges
    BY <1>0
  <2>2. \A x \in Exchanges : x.id \in Nat
    BY DEF Exchanges
  <2> QED
    BY <1>0, <2>1, <2>2 DEF InTurn
<1>1. ASSUME UNCHANGED L!captures PROVE EntriesLatest'
  BY <1>0, <1>1 DEF L!captures, EntriesLatest
<1>2. ASSUME NEW h \in Hosts, NEW to \in {"capture", "cout", "base"}, L!collect(to, h) PROVE CaptureInv'
  <2> DEFINE x == [to |-> to, id |-> collected + 1, host |-> h]
  <2>1. /\ collected' = collected + 1 /\ m_io' = Append(m_io, x) /\ UNCHANGED L!captures
        /\ m_io \in Seq(Posted) /\ Len(m_io) \in Nat /\ Len(m_io) <= collected
    BY <1>0, <1>2 DEF L!collect, InTurn
  <2>2. x \in Posted /\ x.id = collected + 1
    BY <1>0 DEF Posted
  <2> HIDE DEF x
  <2>3. m_io' \in Seq(Posted) /\ Len(m_io') = Len(m_io) + 1 /\ m_io'[Len(m_io) + 1] = x
        /\ \A j \in 1..Len(m_io) : m_io'[j] = m_io[j]
    BY <2>1, <2>2, AppendFacts
  <2>4. ASSUME NEW i \in 1..Len(m_io') PROVE m_io'[i].id = (collected' - Len(m_io')) + i
    <3>1. CASE i = Len(m_io) + 1
      BY <1>0, <2>1, <2>2, <2>3, <3>1
    <3>2. CASE i \in 1..Len(m_io)
      <4>1. m_io'[i].id = (collected - Len(m_io)) + i
        BY <1>0, <2>3, <3>2 DEF InTurn
      <4> QED
        BY <1>0, <2>1, <2>3, <4>1
    <3> QED
      BY <2>1, <2>3, <3>1, <3>2
  <2>5. seen' = seen /\ collected' - Len(m_io') = collected - Len(m_io) /\ collected' \in Nat
        /\ Len(m_io') <= collected'
    BY <1>0, <2>1, <2>3 DEF L!captures
  <2>6. InTurn'
    BY <1>0, <2>3, <2>4, <2>5 DEF InTurn
  <2> QED
    BY <1>1, <2>1, <2>6 DEF CaptureInv
<1>3. CASE L!PostedCapture
  <2> DEFINE x == [id |-> Head(m_io).id, host |-> Head(m_io).host]
  <2>1. /\ m_io # <<>> /\ m_io' = Tail(m_io) /\ collected' = collected /\ seen' = Append(seen, x)
        /\ m_captured_traffic' = L!Captured(m_captured_traffic, Head(m_io).id, Head(m_io).host)
    BY <1>3 DEF L!PostedCapture
  <2>2. /\ Head(m_io) \in Posted /\ Head(m_io).id = (collected - Len(m_io)) + 1
        /\ m_io' \in Seq(Posted) /\ Len(m_io') = Len(m_io) - 1 /\ Len(m_io) \in Nat \ {0}
        /\ \A i \in 1..Len(m_io') : m_io'[i].id = (collected' - Len(m_io')) + i
    BY <1>0, <2>1, TakenFirst
  <2>3. x \in Exchanges /\ x.id = (collected - Len(m_io)) + 1 /\ x.id = Head(m_io).id /\ x.host = Head(m_io).host
    BY <2>2 DEF Posted, Exchanges
  <2> HIDE DEF x
  <2>5. \A n \in 1..Len(seen) : seen[n].id < x.id
    <3>1. collected - Len(m_io) \in Int
      BY <1>0, <2>2
    <3>2. \A k \in Nat, d \in Int : k <= d => k < d + 1
      OBVIOUS
    <3> QED
      BY <1>a, <2>3, <3>1, <3>2
  <2>6. EntriesLatest'
    BY <1>0, <2>1, <2>3, <2>5, CapturedKeeps
  <2>7. seen' \in Seq(Exchanges) /\ Len(seen') = Len(seen) + 1 /\ seen'[Len(seen) + 1] = x
        /\ \A j \in 1..Len(seen) : seen'[j] = seen[j]
    BY <1>0, <2>1, <2>3, AppendFacts
  <2>8. ASSUME NEW k \in 1..Len(seen') PROVE seen'[k].id <= collected' - Len(m_io')
    <3>1. CASE k = Len(seen) + 1
      BY <1>0, <2>1, <2>2, <2>3, <2>7, <3>1
    <3>2. CASE k \in 1..Len(seen)
      BY <1>0, <1>a, <2>1, <2>2, <2>7, <3>2
    <3> QED
      BY <1>0, <2>7, <3>1, <3>2
  <2>9. Len(m_io') <= collected' /\ collected' \in Nat
    BY <1>0, <2>1, <2>2 DEF InTurn
  <2>10. InTurn'
    BY <2>2, <2>7, <2>8, <2>9 DEF InTurn
  <2> QED
    BY <2>6, <2>10 DEF CaptureInv
<1>4. CASE L!PostedPrint \/ L!PostedBase
  <2>1. m_io # <<>> /\ m_io' = Tail(m_io) /\ collected' = collected /\ UNCHANGED L!captures
    BY <1>4 DEF L!PostedPrint, L!PostedBase
  <2>2. /\ m_io' \in Seq(Posted) /\ Len(m_io') = Len(m_io) - 1 /\ Len(m_io) \in Nat \ {0}
        /\ \A i \in 1..Len(m_io') : m_io'[i].id = (collected' - Len(m_io')) + i
    BY <1>0, <2>1, TakenFirst
  <2>3. seen' = seen /\ Len(m_io') <= collected' /\ collected' \in Nat
    BY <1>0, <2>1, <2>2 DEF InTurn, L!captures
  <2>5. \A k \in 1..Len(seen) : seen[k].id <= collected' - Len(m_io')
    BY <1>0, <1>a, <2>1, <2>2
  <2>6. InTurn'
    BY <1>0, <2>2, <2>3, <2>5 DEF InTurn
  <2> QED
    BY <1>1, <2>1, <2>6 DEF CaptureInv
<1>5. ASSUME UNCHANGED <<m_io, collected, m_captured_traffic, seen>> PROVE CaptureInv'
  BY <1>5 DEF CaptureInv, InTurn, EntriesLatest
<1>6. ASSUME NEW on \in BOOLEAN, L!set_show_message_bodies(on) PROVE CaptureInv'
  BY <1>5, <1>6 DEF L!set_show_message_bodies, L!captures
<1>7. CASE UNCHANGED L!collectors
  BY <1>5, <1>7 DEF L!collectors, L!captures
<1> QED
  BY <1>2, <1>3, <1>4, <1>6, <1>7 DEF L!CaptureNext

\* At the start nothing is captured.
LEMMA CaptureStarts ==
  ASSUME L!Init
  PROVE  CaptureInv
<1>1. m_io = <<>> /\ collected = 0 /\ m_captured_traffic = <<>> /\ seen = <<>> /\ Keep \in Nat
  BY LibraryAssumption DEF L!Init
<1> QED
  BY <1>1 DEF CaptureInv, InTurn, EntriesLatest

\* What the property says of a state.
LEMMA CaptureLatest ==
  ASSUME CaptureInv
  PROVE  L!LatestKept
<1> DEFINE of(h) == {seen[k].id : k \in {k \in DOMAIN seen : seen[k].host = h}}
<1>0. /\ m_captured_traffic \in Seq(Entries) /\ DOMAIN m_captured_traffic = 1..Len(m_captured_traffic)
      /\ seen \in Seq(Exchanges) /\ DOMAIN seen = 1..Len(seen)
  BY DEF CaptureInv, InTurn, EntriesLatest
<1>1. ASSUME NEW i \in DOMAIN m_captured_traffic
      PROVE  LET e == m_captured_traffic[i]
                 ids == e.exchanges
             IN  /\ Len(ids) \in 1..(Keep + 1)
                 /\ \A j, k \in DOMAIN ids : j < k => ids[j] < ids[k]
                 /\ {ids[k] : k \in DOMAIN ids} = {id \in of(e.host) : id >= ids[1]}
  <2> DEFINE e == m_captured_traffic[i]
             ids == e.exchanges
  <2>1. e \in Entries /\ Latest(e, seen)
    BY <1>0 DEF CaptureInv, EntriesLatest
  <2>2. ids \in Seq(Nat) /\ DOMAIN ids = 1..Len(ids) /\ Len(ids) \in 1..(Keep + 1) /\ Len(ids) \in Nat
        /\ \A k \in 1..Len(ids) : ids[k] \in Nat
    BY <2>1 DEF Entries, Latest
  <2> HIDE DEF e
  <2>3. \A j, k \in DOMAIN ids : j < k => ids[j] < ids[k]
    BY <2>1, <2>2 DEF Latest
  <2>4. 1 \in 1..Len(ids) /\ \A k \in 1..Len(ids) : ids[1] <= ids[k]
    <3>1. 1 \in 1..Len(ids) /\ \A k \in 1..Len(ids) : k = 1 \/ 1 < k
      BY <2>2
    <3>2. ASSUME NEW k \in 1..Len(ids), 1 < k PROVE ids[1] < ids[k]
      BY <2>2, <2>3, <3>1, <3>2, Zenon
    <3>3. \A a, b \in Nat : a < b => a <= b
      OBVIOUS
    <3>4. \A a \in Nat : a <= a
      OBVIOUS
    <3> HIDE DEF ids
    <3> QED
      BY <2>2, <3>1, <3>2, <3>3, <3>4
  <2>5. ASSUME NEW k \in 1..Len(ids) PROVE ids[k] \in {id \in of(e.host) : id >= ids[1]}
    <3>1. PICK n \in 1..Len(seen) : seen[n].host = e.host /\ seen[n].id = ids[k]
      BY <2>1 DEF Latest
    <3>2. ids[k] \in of(e.host)
      BY <1>0, <3>1
    <3> HIDE DEF of
    <3> QED
      BY <2>2, <2>4, <3>2
  <2>6. ASSUME NEW id \in of(e.host), id >= ids[1] PROVE id \in {ids[k] : k \in 1..Len(ids)}
    <3>1. PICK n \in 1..Len(seen) : seen[n].host = e.host /\ seen[n].id = id
      BY <1>0
    <3>2. PICK k \in 1..Len(ids) : ids[k] = id
      BY <2>1, <2>6, <3>1 DEF Latest
    <3> QED
      BY <3>2
  <2>7. {ids[k] : k \in DOMAIN ids} = {id \in of(e.host) : id >= ids[1]}
    <3> HIDE DEF of, ids
    <3> QED
      BY <2>2, <2>5, <2>6
  <2> QED
    BY <2>2, <2>3, <2>7 DEF e
<1>2. Len(m_captured_traffic) <= Keep + 1
  BY DEF CaptureInv, EntriesLatest
<1>3. \A i, j \in DOMAIN m_captured_traffic :
        m_captured_traffic[i].host = m_captured_traffic[j].host => i = j
  BY <1>0 DEF CaptureInv, EntriesLatest
<1>4. seen # <<>> =>
        \E i \in DOMAIN m_captured_traffic :
          LastOf(m_captured_traffic[i].exchanges) = LastOf(seen).id
  BY <1>0 DEF CaptureInv, EntriesLatest
<1> QED
  BY <1>1, <1>2, <1>3, <1>4, Zenon DEF L!LatestKept, LastOf

-----------------------------------------------------------------------------
(* CocoaTraffic: from the collector to the window.                          *)

Notices == [id : Nat, host : TrafficHosts]

\* Numbers that are under way are those gathered last, in order.
Handed == gathered - Len(ioLoop)
Taken == Handed - Len(mainQueue)

UnderWayTo ==
  /\ ioLoop \in Seq(Notices) /\ mainQueue \in Seq(Notices) /\ filed \in Seq(Notices)
  /\ gathered \in Nat /\ clears \in Nat /\ Taken \in Nat
  /\ \A i \in 1..Len(ioLoop) : ioLoop[i].id = Handed + i
  /\ \A i \in 1..Len(mainQueue) : mainQueue[i].id = Taken + i
  /\ \A i \in 1..Len(filed) : filed[i].id <= Taken
  /\ clears = 0 => Len(filed) = Taken

\* The collector has its delegate before it collects.
Delegated ==
  /\ main_thread = "starting" => background = "none"
  /\ background # "none" => _delegateObj = TRUE
  /\ background = "listening" => _anonDelegate = TRUE
  /\ ioLoop # <<>> => background = "listening"

\* The dictionary holds a TrafficForHost of its own for each host that was
\* notified, and the host has a row.
Dictionary ==
  /\ _traffic \in Seq(Seq(Nat)) /\ _hostsArray \in Seq(TrafficHosts)
  /\ DOMAIN _hosts \subseteq TrafficHosts
  /\ \A h \in DOMAIN _hosts : _hosts[h] \in 1..Len(_traffic)
  /\ \A g, h \in DOMAIN _hosts : _hosts[g] = _hosts[h] => g = h
  /\ \A h \in DOMAIN _hosts : \E i \in 1..Len(_hostsArray) : _hostsArray[i] = h

\* What is under a host is what was notified of it, in order.
Under(h, ids, past) ==
  /\ \A j, k \in 1..Len(ids) : j < k => ids[j] < ids[k]
  /\ \A k \in 1..Len(ids) : \E n \in 1..Len(past) : past[n].host = h /\ past[n].id = ids[k]
  /\ \A n \in 1..Len(past) : past[n].host = h => \E k \in 1..Len(ids) : ids[k] = past[n].id

FiledUnder ==
  /\ \A n \in 1..Len(filed) : filed[n].host \in DOMAIN _hosts
  /\ \A h \in DOMAIN _hosts : Len(_traffic[_hosts[h]]) > 0 /\ Under(h, _traffic[_hosts[h]], filed)

\* The rows are those of the names, as far as they were drawn; before anything
\* was cleared each is that of its name.
RowsShown ==
  /\ dirty \in BOOLEAN
  /\ rows \in Seq(Nat) /\ Len(rows) <= Len(_hostsArray)
  /\ dirty = FALSE => \A h \in DOMAIN _hosts : \E i \in 1..Len(rows) : rows[i] = _hosts[h]
  /\ clears = 0 =>
       /\ \A i, j \in 1..Len(_hostsArray) : _hostsArray[i] = _hostsArray[j] => i = j
       /\ \A i \in 1..Len(_hostsArray) : _hostsArray[i] \in DOMAIN _hosts
       /\ \A i \in 1..Len(rows) : rows[i] = _hosts[_hostsArray[i]]

\* An open row was given the start of what its item has by now.
Starts(s, t) == Len(s) <= Len(t) /\ \A c \in 1..Len(s) : s[c] = t[c]

OpenRows ==
  /\ DOMAIN open_rows \subseteq 1..Len(_traffic)
  /\ \A item \in DOMAIN open_rows : open_rows[item] \in Seq(Nat) /\ Starts(open_rows[item], _traffic[item])

CocoaInv == UnderWayTo /\ Delegated /\ Dictionary /\ FiledUnder /\ RowsShown /\ OpenRows

\* What Tail and Head do.
LEMMA TailFacts ==
  ASSUME NEW S, NEW list \in Seq(S), list # <<>>
  PROVE  /\ Len(list) \in Nat \ {0} /\ Head(list) = list[1] /\ Head(list) \in S
         /\ Tail(list) \in Seq(S) /\ Len(Tail(list)) = Len(list) - 1
         /\ \A i \in 1..Len(Tail(list)) : Tail(list)[i] = list[i + 1] /\ i + 1 \in 1..Len(list)
<1>1. Len(list) \in Nat \ {0}
  OBVIOUS
<1> QED
  BY <1>1

\* The state that the threads and the view leave alone.
LEMMA FilingUnchanged ==
  ASSUME UNCHANGED <<_hosts, _hostsArray, _traffic, filed, clears>>
  PROVE  /\ Dictionary => Dictionary'
         /\ FiledUnder => FiledUnder'
BY DEF Dictionary, FiledUnder, Under

LEMMA ViewUnchanged ==
  ASSUME UNCHANGED <<_hosts, _hostsArray, _traffic, clears, rows, open_rows, dirty, _expandedRow>>
  PROVE  /\ RowsShown => RowsShown'
         /\ OpenRows => OpenRows'
BY DEF RowsShown, OpenRows, Starts

\* collect() and postedCollect, and the steps that start the threads.
LEMMA CollectorKeeps ==
  ASSUME CocoaInv,
         \/ O!applicationDidFinishLaunching \/ O!run \/ O!postedCollect
         \/ \E h \in TrafficHosts : O!collect(h)
  PROVE  CocoaInv'
<1>0. UNCHANGED <<_hosts, _hostsArray, _traffic, filed, clears, rows, open_rows, dirty, _expandedRow>>
  BY DEF O!applicationDidFinishLaunching, O!run, O!postedCollect, O!collect, O!traffic, O!view, O!counters
<1>1. Dictionary' /\ FiledUnder' /\ RowsShown' /\ OpenRows'
  BY <1>0, FilingUnchanged, ViewUnchanged DEF CocoaInv
<1>2. /\ ioLoop \in Seq(Notices) /\ mainQueue \in Seq(Notices) /\ filed \in Seq(Notices)
      /\ gathered \in Nat /\ clears \in Nat /\ Taken \in Nat /\ Len(ioLoop) \in Nat /\ Len(mainQueue) \in Nat
  BY DEF CocoaInv, UnderWayTo
<1>3. CASE O!applicationDidFinishLaunching \/ O!run
  <2>1. UNCHANGED <<ioLoop, mainQueue, gathered>>
    BY <1>3 DEF O!applicationDidFinishLaunching, O!run, O!counters
  <2>2. UnderWayTo'
    BY <1>0, <2>1 DEF CocoaInv, UnderWayTo, Handed, Taken
  <2>3. CASE O!applicationDidFinishLaunching
    <3>1. /\ main_thread = "starting" /\ main_thread' = "running" /\ _delegateObj' = TRUE
          /\ background' = "created" /\ background = "none" /\ ioLoop = <<>> /\ ioLoop' = <<>>
      BY <2>1, <2>3 DEF O!applicationDidFinishLaunching, CocoaInv, Delegated
    <3>2. Delegated'
      BY <3>1 DEF Delegated
    <3> QED
      BY <1>1, <2>2, <3>2 DEF CocoaInv
  <2>4. CASE O!run
    <3>1. /\ background = "created" /\ background' = "listening" /\ _anonDelegate' = _delegateObj
          /\ UNCHANGED <<main_thread, _delegateObj, ioLoop>>
      BY <2>4 DEF O!run
    <3>2. Delegated'
      BY <3>1 DEF Delegated, CocoaInv
    <3> QED
      BY <1>1, <2>2, <3>2 DEF CocoaInv
  <2> QED
    BY <1>3, <2>3, <2>4
<1>4. ASSUME NEW h \in TrafficHosts, O!collect(h) PROVE CocoaInv'
  <2> DEFINE x == O!Exchange(gathered + 1, h)
  <2>1. /\ background = "listening" /\ gathered' = gathered + 1 /\ ioLoop' = Append(ioLoop, x)
        /\ UNCHANGED <<main_thread, _delegateObj, mainQueue, background, _anonDelegate>>
    BY <1>4 DEF O!collect
  <2>2. x \in Notices /\ x.id = gathered + 1
    BY <1>2 DEF Notices, O!Exchange
  <2> HIDE DEF x
  <2>3. ioLoop' \in Seq(Notices) /\ Len(ioLoop') = Len(ioLoop) + 1 /\ ioLoop'[Len(ioLoop) + 1] = x
        /\ \A j \in 1..Len(ioLoop) : ioLoop'[j] = ioLoop[j]
    BY <1>2, <2>1, <2>2, AppendFacts
  <2>4. Handed' = Handed /\ Taken' = Taken /\ gathered' \in Nat /\ x.id = Handed + (Len(ioLoop) + 1)
    BY <1>2, <2>1, <2>2, <2>3 DEF Handed, Taken
  <2>5. \A i \in 1..Len(ioLoop') : i \in 1..Len(ioLoop) \/ i = Len(ioLoop) + 1
    BY <1>2, <2>3
  <2>6. \A i \in 1..Len(ioLoop') : ioLoop'[i].id = Handed' + i
    BY <2>3, <2>4, <2>5 DEF CocoaInv, UnderWayTo
  <2>7. UnderWayTo'
    BY <1>0, <1>2, <2>1, <2>3, <2>4, <2>6 DEF CocoaInv, UnderWayTo
  <2>8. Delegated'
    BY <2>1 DEF CocoaInv, Delegated
  <2> QED
    BY <1>1, <2>7, <2>8 DEF CocoaInv
<1>5. CASE O!postedCollect
  <2>1. /\ ioLoop # <<>> /\ ioLoop' = Tail(ioLoop) /\ UNCHANGED <<main_thread, _delegateObj, background, _anonDelegate, gathered>>
        /\ mainQueue' = IF _anonDelegate THEN Append(mainQueue, Head(ioLoop)) ELSE mainQueue
    BY <1>5 DEF O!postedCollect, O!counters
  <2>2. _anonDelegate = TRUE /\ background = "listening"
    BY <2>1 DEF CocoaInv, Delegated
  <2> DEFINE x == Head(ioLoop)
  <2>3. mainQueue' = Append(mainQueue, x)
    BY <2>1, <2>2
  <2>4. /\ Len(ioLoop) \in Nat \ {0} /\ x = ioLoop[1] /\ x \in Notices
        /\ ioLoop' \in Seq(Notices) /\ Len(ioLoop') = Len(ioLoop) - 1
        /\ \A i \in 1..Len(ioLoop') : ioLoop'[i] = ioLoop[i + 1] /\ i + 1 \in 1..Len(ioLoop)
    BY <1>2, <2>1, TailFacts
  <2> HIDE DEF x
  <2>5. mainQueue' \in Seq(Notices) /\ Len(mainQueue') = Len(mainQueue) + 1 /\ mainQueue'[Len(mainQueue) + 1] = x
        /\ \A j \in 1..Len(mainQueue) : mainQueue'[j] = mainQueue[j]
    BY <1>2, <2>3, <2>4, AppendFacts
  <2>6. Handed' = Handed + 1 /\ Taken' = Taken /\ Handed = Taken + Len(mainQueue)
        /\ Handed \in Int /\ Taken \in Nat
    BY <1>2, <2>1, <2>4, <2>5 DEF Handed, Taken
  <2>7. x.id = Handed + 1
    <3>1. 1 \in 1..Len(ioLoop)
      BY <2>4
    <3> QED
      BY <2>4, <3>1 DEF CocoaInv, UnderWayTo
  <2>8. ASSUME NEW i \in 1..Len(ioLoop') PROVE ioLoop'[i].id = Handed' + i
    <3>1. ioLoop'[i].id = Handed + (i + 1)
      BY <2>4 DEF CocoaInv, UnderWayTo
    <3> QED
      BY <1>2, <2>4, <2>6, <3>1
  <2>9. ASSUME NEW i \in 1..Len(mainQueue') PROVE mainQueue'[i].id = Taken' + i
    <3>1. CASE i = Len(mainQueue) + 1
      BY <1>2, <2>5, <2>6, <2>7, <3>1
    <3>2. CASE i \in 1..Len(mainQueue)
      BY <2>5, <2>6, <3>2 DEF CocoaInv, UnderWayTo
    <3> QED
      BY <1>2, <2>5, <3>1, <3>2
  <2>10. UnderWayTo'
    BY <1>0, <1>2, <2>1, <2>4, <2>5, <2>6, <2>8, <2>9 DEF CocoaInv, UnderWayTo
  <2>11. Delegated'
    BY <2>1, <2>2 DEF CocoaInv, Delegated
  <2> QED
    BY <1>1, <2>10, <2>11 DEF CocoaInv
<1> QED
  BY <1>3, <1>4, <1>5

\* One more notice of another host, and of the host itself.
LEMMA UnderMore ==
  ASSUME NEW h, NEW ids \in Seq(Nat), NEW past \in Seq(Notices), NEW x \in Notices, Under(h, ids, past),
         \A n \in 1..Len(past) : past[n].id < x.id
  PROVE  /\ x.host # h => Under(h, ids, Append(past, x))
         /\ x.host = h => Under(h, Append(ids, x.id), Append(past, x))
<1> DEFINE now == Append(past, x)
           more == Append(ids, x.id)
<1>1. /\ Len(now) = Len(past) + 1 /\ now[Len(past) + 1] = x /\ Len(past) \in Nat
      /\ \A j \in 1..Len(past) : now[j] = past[j]
  BY AppendFacts
<1>2. x.id \in Nat /\ Len(ids) \in Nat
  BY DEF Notices
<1>3. /\ Len(more) = Len(ids) + 1 /\ more[Len(ids) + 1] = x.id
      /\ \A j \in 1..Len(ids) : more[j] = ids[j]
  BY <1>2, AppendFacts
<1> HIDE DEF now, more
<1>4. /\ \A n \in 1..Len(now) : n \in 1..Len(past) \/ n = Len(past) + 1
      /\ \A n \in 1..Len(past) : n \in 1..Len(now)
      /\ Len(past) + 1 \in 1..Len(now)
      /\ \A n \in 1..Len(more) : n \in 1..Len(ids) \/ n = Len(ids) + 1
      /\ \A n \in 1..Len(ids) : n \in 1..Len(more)
      /\ Len(ids) + 1 \in 1..Len(more)
  BY <1>1, <1>2, <1>3
<1>5. \A k \in 1..Len(ids) : \E n \in 1..Len(now) : now[n].host = h /\ now[n].id = ids[k]
  <2> SUFFICES ASSUME NEW k \in 1..Len(ids)
               PROVE  \E n \in 1..Len(now) : now[n].host = h /\ now[n].id = ids[k]
    OBVIOUS
  <2>1. PICK n \in 1..Len(past) : past[n].host = h /\ past[n].id = ids[k]
    BY DEF Under
  <2> QED
    BY <1>1, <1>4, <2>1
<1>6. \A k \in 1..Len(ids) : ids[k] \in Nat /\ ids[k] < x.id
  <2> SUFFICES ASSUME NEW k \in 1..Len(ids) PROVE ids[k] \in Nat /\ ids[k] < x.id
    OBVIOUS
  <2>1. PICK n \in 1..Len(past) : past[n].id = ids[k]
    BY DEF Under
  <2> QED
    BY <2>1
<1>7. ASSUME x.host # h PROVE Under(h, ids, now)
  <2>1. ASSUME NEW n \in 1..Len(now), now[n].host = h PROVE \E k \in 1..Len(ids) : ids[k] = now[n].id
    <3>1. n \in 1..Len(past) /\ now[n] = past[n]
      BY <1>1, <1>4, <1>7, <2>1
    <3> QED
      BY <2>1, <3>1 DEF Under
  <2> QED
    BY <1>5, <2>1 DEF Under
<1>8. ASSUME x.host = h PROVE Under(h, more, now)
  <2>1. ASSUME NEW j \in 1..Len(more), NEW k \in 1..Len(more), j < k PROVE more[j] < more[k]
    <3>1. j \in 1..Len(ids)
      BY <1>2, <1>3, <2>1
    <3>2. CASE k = Len(ids) + 1
      BY <1>3, <1>6, <3>1, <3>2
    <3>3. CASE k \in 1..Len(ids)
      BY <1>3, <2>1, <3>1, <3>3 DEF Under
    <3> QED
      BY <1>4, <3>2, <3>3
  <2>2. ASSUME NEW k \in 1..Len(more) PROVE \E n \in 1..Len(now) : now[n].host = h /\ now[n].id = more[k]
    <3>1. CASE k = Len(ids) + 1
      BY <1>1, <1>3, <1>4, <1>8, <3>1
    <3>2. CASE k \in 1..Len(ids)
      BY <1>3, <1>5, <3>2
    <3> QED
      BY <1>4, <3>1, <3>2
  <2>3. ASSUME NEW n \in 1..Len(now), now[n].host = h PROVE \E k \in 1..Len(more) : more[k] = now[n].id
    <3>1. CASE n = Len(past) + 1
      BY <1>1, <1>3, <1>4, <3>1
    <3>2. CASE n \in 1..Len(past)
      <4>1. PICK k \in 1..Len(ids) : ids[k] = past[n].id
        BY <1>1, <2>3, <3>2 DEF Under
      <4> QED
        BY <1>1, <1>3, <1>4, <3>2, <4>1
    <3> QED
      BY <1>4, <3>1, <3>2
  <2> QED
    BY <2>1, <2>2, <2>3 DEF Under
<1> QED
  BY <1>7, <1>8 DEF now, more

\* What addHost and add leave: the host's TrafficForHost has one exchange more,
\* the others are as they were, and a host that is new has a row of its own.
Filing(h, id) ==
  /\ DOMAIN _hosts' = DOMAIN _hosts \cup {h} /\ \A g \in DOMAIN _hosts : _hosts'[g] = _hosts[g]
  /\ _traffic' \in Seq(Seq(Nat)) /\ Len(_traffic') >= Len(_traffic) /\ _hosts'[h] \in 1..Len(_traffic')
  /\ \A k \in 1..Len(_traffic) : k # _hosts'[h] => _traffic'[k] = _traffic[k]
  /\ h \in DOMAIN _hosts =>
       /\ _traffic'[_hosts'[h]] = Append(_traffic[_hosts[h]], id) /\ _hostsArray' = _hostsArray
  /\ h \notin DOMAIN _hosts =>
       /\ _hosts'[h] = Len(_traffic) + 1 /\ _traffic'[_hosts'[h]] = <<id>>
       /\ _hostsArray' = Append(_hostsArray, h)

LEMMA AddFiles ==
  ASSUME Dictionary, NEW h \in TrafficHosts, NEW id \in Nat, O!addHost(h), O!add(_hosts'[h], id)
  PROVE  Filing(h, id)
<1>1. _traffic \in Seq(Seq(Nat)) /\ Len(_traffic) \in Nat /\ DOMAIN _traffic = 1..Len(_traffic)
  BY DEF Dictionary
<1>2. CASE h \in DOMAIN _hosts
  <2>1. UNCHANGED <<_hosts, _hostsArray>> /\ _hosts[h] \in 1..Len(_traffic)
    BY <1>2 DEF O!addHost, O!hasHost, Dictionary
  <2> DEFINE o == _hosts[h]
             more == Append(_traffic[o], id)
  <2>2. _traffic' = [_traffic EXCEPT ![o] = more]
    BY <1>1, <2>1 DEF O!add
  <2>3. more \in Seq(Nat) /\ o \in 1..Len(_traffic)
    BY <1>1, <2>1
  <2> HIDE DEF more, o
  <2>4. /\ _traffic' \in Seq(Seq(Nat)) /\ Len(_traffic') = Len(_traffic) /\ _traffic'[o] = more
        /\ \A k \in 1..Len(_traffic) : k # o => _traffic'[k] = _traffic[k]
    BY <1>1, <2>2, <2>3
  <2>5. /\ _hosts' = _hosts /\ DOMAIN _hosts' = DOMAIN _hosts \cup {h} /\ _hosts'[h] = o
        /\ \A g \in DOMAIN _hosts : _hosts'[g] = _hosts[g]
    BY <1>2, <2>1 DEF o
  <2>6. _traffic'[_hosts'[h]] = Append(_traffic[_hosts[h]], id)
    BY <2>4, <2>5 DEF more, o
  <2>7. Len(_traffic') >= Len(_traffic) /\ _hosts'[h] \in 1..Len(_traffic')
    BY <1>1, <2>3, <2>4, <2>5
  <2>8. \A k \in 1..Len(_traffic) : k # _hosts'[h] => _traffic'[k] = _traffic[k]
    BY <2>4, <2>5
  <2> QED
    BY <1>2, <2>1, <2>4, <2>5, <2>6, <2>7, <2>8 DEF Filing
<1>3. CASE h \notin DOMAIN _hosts
  <2> DEFINE n == Len(_traffic) + 1
             one == <<id>>
  <2>1. /\ _hosts' = [g \in DOMAIN _hosts \cup {h} |-> IF g = h THEN n ELSE _hosts[g]]
        /\ _hostsArray' = Append(_hostsArray, h)
    BY <1>3 DEF O!addHost, O!hasHost
  <2>2. _hosts'[h] = n /\ n \notin DOMAIN _traffic
    BY <1>1, <2>1
  <2>3. _traffic' = Append(_traffic, one) /\ one \in Seq(Nat)
    BY <2>2 DEF O!add
  <2> HIDE DEF one
  <2>4. /\ _traffic' \in Seq(Seq(Nat)) /\ Len(_traffic') = Len(_traffic) + 1 /\ _traffic'[n] = one
        /\ \A k \in 1..Len(_traffic) : _traffic'[k] = _traffic[k]
    BY <1>1, <2>3, AppendFacts
  <2>5. DOMAIN _hosts' = DOMAIN _hosts \cup {h} /\ \A g \in DOMAIN _hosts : _hosts'[g] = _hosts[g]
    BY <1>3, <2>1
  <2> QED
    BY <1>1, <1>3, <2>1, <2>2, <2>4, <2>5 DEF Filing, one
<1> QED
  BY <1>2, <1>3

\* The next notice is filed.
LEMMA NotifyKeeps ==
  ASSUME CocoaInv, O!notify
  PROVE  CocoaInv'
<1> DEFINE x == Head(mainQueue)
           h == x.host
           id == x.id
<1>1. /\ mainQueue # <<>> /\ mainQueue' = Tail(mainQueue) /\ filed' = Append(filed, x) /\ dirty' = TRUE
      /\ O!addHost(h) /\ O!add(_hosts'[h], id)
      /\ UNCHANGED <<rows, open_rows, _expandedRow, main_thread, _delegateObj, background, _anonDelegate,
                     ioLoop, gathered, clears>>
  BY DEF O!notify, O!addTrafficForHost, O!updateView, O!collector
<1>2. /\ ioLoop \in Seq(Notices) /\ mainQueue \in Seq(Notices) /\ filed \in Seq(Notices)
      /\ gathered \in Nat /\ clears \in Nat /\ Taken \in Nat /\ Len(ioLoop) \in Nat /\ Len(filed) \in Nat
  BY DEF CocoaInv, UnderWayTo
<1>3. /\ Len(mainQueue) \in Nat \ {0} /\ x = mainQueue[1] /\ x \in Notices
      /\ mainQueue' \in Seq(Notices) /\ Len(mainQueue') = Len(mainQueue) - 1
      /\ \A i \in 1..Len(mainQueue') : mainQueue'[i] = mainQueue[i + 1] /\ i + 1 \in 1..Len(mainQueue)
  BY <1>1, <1>2, TailFacts
<1> HIDE DEF x
<1>4. /\ filed' \in Seq(Notices) /\ Len(filed') = Len(filed) + 1 /\ filed'[Len(filed) + 1] = x
      /\ \A j \in 1..Len(filed) : filed'[j] = filed[j]
  BY <1>1, <1>2, <1>3, AppendFacts
<1>5. Taken' = Taken + 1 /\ Handed' = Handed
  BY <1>1, <1>2, <1>3 DEF Taken, Handed
<1>6. id = Taken + 1 /\ id \in Nat /\ h \in TrafficHosts
  <2>1. 1 \in 1..Len(mainQueue)
    BY <1>3
  <2>2. x.id = Taken + 1
    BY <1>3, <2>1 DEF CocoaInv, UnderWayTo
  <2> QED
    BY <1>2, <1>3, <2>2 DEF Notices
<1>7. \A n \in 1..Len(filed) : filed[n].id \in Nat /\ filed[n].id < id
  <2> SUFFICES ASSUME NEW n \in 1..Len(filed) PROVE filed[n].id \in Nat /\ filed[n].id < id
    OBVIOUS
  <2>1. filed[n] \in Notices
    BY <1>2
  <2>2. filed[n].id \in Nat /\ filed[n].id <= Taken
    BY <2>1 DEF Notices, CocoaInv, UnderWayTo
  <2> QED
    BY <1>2, <1>6, <2>2
<1>8. \A n \in 1..Len(filed') : n \in 1..Len(filed) \/ n = Len(filed) + 1
  BY <1>2, <1>4
<1>9. UnderWayTo'
  <2>1. ASSUME NEW i \in 1..Len(mainQueue') PROVE mainQueue'[i].id = Taken' + i
    <3>1. mainQueue'[i].id = Taken + (i + 1)
      BY <1>3 DEF CocoaInv, UnderWayTo
    <3> QED
      BY <1>2, <1>3, <1>5, <3>1
  <2>2. ASSUME NEW i \in 1..Len(filed') PROVE filed'[i].id <= Taken'
    BY SMTT(30), <1>2, <1>4, <1>5, <1>6, <1>7, <1>8
  <2>3. clears' = 0 => Len(filed') = Taken'
    BY <1>1, <1>4, <1>5 DEF CocoaInv, UnderWayTo
  <2>4. Taken' \in Nat
    BY <1>2, <1>5
  <2>5. \A i \in 1..Len(ioLoop') : ioLoop'[i].id = Handed' + i
    BY <1>1, <1>5 DEF CocoaInv, UnderWayTo
  <2> QED
    BY <1>1, <1>2, <1>3, <1>4, <2>1, <2>2, <2>3, <2>4, <2>5 DEF UnderWayTo
<1>10. Delegated'
  BY <1>1 DEF CocoaInv, Delegated
<1>11. Filing(h, id) /\ Dictionary
  BY <1>1, <1>6, AddFiles DEF CocoaInv
<1> HIDE DEF h, id
<1>12. /\ _traffic \in Seq(Seq(Nat)) /\ Len(_traffic) \in Nat /\ _traffic' \in Seq(Seq(Nat)) /\ Len(_traffic') \in Nat
       /\ Len(_traffic) <= Len(_traffic') /\ _hostsArray \in Seq(TrafficHosts) /\ Len(_hostsArray) \in Nat
       /\ DOMAIN _hosts' = DOMAIN _hosts \cup {h} /\ _hosts'[h] \in 1..Len(_traffic')
       /\ \A g \in DOMAIN _hosts : _hosts'[g] = _hosts[g] /\ _hosts[g] \in 1..Len(_traffic)
  BY SMTT(30), <1>11 DEF Filing, Dictionary
<1>13. /\ _hostsArray' \in Seq(TrafficHosts)
       /\ Len(_hostsArray) <= Len(_hostsArray') /\ \A i \in 1..Len(_hostsArray) : _hostsArray'[i] = _hostsArray[i]
       /\ h \in DOMAIN _hosts => _hostsArray' = _hostsArray
       /\ h \notin DOMAIN _hosts => /\ Len(_hostsArray') = Len(_hostsArray) + 1
                                    /\ _hostsArray'[Len(_hostsArray) + 1] = h
  <2>1. CASE h \in DOMAIN _hosts
    BY <1>11, <1>12, <2>1 DEF Filing
  <2>2. CASE h \notin DOMAIN _hosts
    <3>1. _hostsArray' = Append(_hostsArray, h)
      BY <1>11, <2>2 DEF Filing
    <3> QED
      BY <1>6, <1>12, <2>2, <3>1, AppendFacts
  <2> QED
    BY <2>1, <2>2
<1>14. ASSUME NEW g \in DOMAIN _hosts, g # h PROVE _hosts'[g] # _hosts'[h] /\ _traffic'[_hosts'[g]] = _traffic[_hosts[g]]
  <2>1. _hosts'[g] # _hosts'[h]
    <3>1. CASE h \in DOMAIN _hosts
      BY <1>11, <1>12, <1>14, <3>1 DEF Dictionary
    <3>2. CASE h \notin DOMAIN _hosts
      <4>1. _hosts'[h] = Len(_traffic) + 1 /\ _hosts'[g] \in 1..Len(_traffic)
        BY <1>11, <1>12, <3>2 DEF Filing
      <4> QED
        BY <1>12, <4>1
    <3> QED
      BY <3>1, <3>2
  <2> QED
    BY <1>11, <1>12, <2>1 DEF Filing
<1>15. Dictionary'
  <2>1. DOMAIN _hosts' \subseteq TrafficHosts
    BY <1>6, <1>11, <1>12 DEF Dictionary
  <2>2. ASSUME NEW g \in DOMAIN _hosts' PROVE _hosts'[g] \in 1..Len(_traffic')
    BY <1>12
  <2>3. ASSUME NEW f \in DOMAIN _hosts', NEW g \in DOMAIN _hosts', _hosts'[f] = _hosts'[g] PROVE f = g
    <3>1. CASE f = h \/ g = h
      BY <1>12, <1>14, <2>3, <3>1
    <3>2. CASE f # h /\ g # h
      BY <1>11, <1>12, <2>3, <3>2 DEF Dictionary
    <3> QED
      BY <3>1, <3>2
  <2>4. ASSUME NEW g \in DOMAIN _hosts' PROVE \E i \in 1..Len(_hostsArray') : _hostsArray'[i] = g
    <3>1. CASE g \in DOMAIN _hosts
      <4>1. PICK i \in 1..Len(_hostsArray) : _hostsArray[i] = g
        BY <1>11, <3>1 DEF Dictionary
      <4>2. i \in 1..Len(_hostsArray')
        BY <1>12, <1>13
      <4> QED
        BY <1>13, <4>1, <4>2
    <3>2. CASE g \notin DOMAIN _hosts
      <4>1. g = h /\ h \notin DOMAIN _hosts
        BY <1>12, <3>2
      <4>2. Len(_hostsArray) + 1 \in 1..Len(_hostsArray')
        BY <1>12, <1>13, <4>1
      <4> QED
        BY <1>13, <4>1, <4>2
    <3> QED
      BY <3>1, <3>2
  <2> QED
    BY <1>12, <1>13, <2>1, <2>2, <2>3, <2>4 DEF Dictionary
<1>16. FiledUnder'
  <2>1. ASSUME NEW n \in 1..Len(filed') PROVE filed'[n].host \in DOMAIN _hosts'
    <3>1. CASE n \in 1..Len(filed)
      BY <1>4, <1>12, <3>1 DEF CocoaInv, FiledUnder
    <3>2. CASE n = Len(filed) + 1
      BY <1>4, <1>12, <3>2 DEF h
    <3> QED
      BY <1>8, <3>1, <3>2
  <2>2. ASSUME NEW g \in DOMAIN _hosts', g # h
        PROVE  Len(_traffic'[_hosts'[g]]) > 0 /\ Under(g, _traffic'[_hosts'[g]], filed')
    <3>1. g \in DOMAIN _hosts /\ _traffic'[_hosts'[g]] = _traffic[_hosts[g]] /\ _traffic[_hosts[g]] \in Seq(Nat)
      BY <1>12, <1>14, <2>2
    <3>2. Len(_traffic[_hosts[g]]) > 0 /\ Under(g, _traffic[_hosts[g]], filed)
      BY <3>1 DEF CocoaInv, FiledUnder
    <3>3. Under(g, _traffic[_hosts[g]], Append(filed, x))
      BY <1>2, <1>3, <1>7, <2>2, <3>1, <3>2, UnderMore DEF id, h
    <3> QED
      BY <1>1, <3>1, <3>2, <3>3
  <2>3. Len(_traffic'[_hosts'[h]]) > 0 /\ Under(h, _traffic'[_hosts'[h]], filed')
    <3>1. CASE h \in DOMAIN _hosts
      <4> DEFINE ids == _traffic[_hosts[h]]
      <4>1. ids \in Seq(Nat) /\ Under(h, ids, filed) /\ _traffic'[_hosts'[h]] = Append(ids, id)
        BY <1>11, <1>12, <3>1 DEF CocoaInv, FiledUnder, Filing
      <4> HIDE DEF ids
      <4>2. Under(h, Append(ids, id), Append(filed, x))
        BY <1>2, <1>3, <1>7, <4>1, UnderMore DEF id, h
      <4>3. Len(Append(ids, id)) > 0
        BY <1>6, <4>1, AppendFacts DEF id
      <4> QED
        BY <1>1, <4>1, <4>2, <4>3
    <3>2. CASE h \notin DOMAIN _hosts
      <4>1. _traffic'[_hosts'[h]] = <<id>> /\ <<id>> = Append(<<>>, id) /\ Len(<<id>>) > 0
        BY <1>11, <3>2 DEF Filing
      <4>2. \A n \in 1..Len(filed) : filed[n].host # h
        BY <3>2 DEF CocoaInv, FiledUnder
      <4>3. <<>> \in Seq(Nat) /\ Under(h, <<>>, filed)
        BY <4>2 DEF Under
      <4>4. Under(h, Append(<<>>, id), Append(filed, x))
        BY <1>2, <1>3, <1>7, <4>3, UnderMore DEF id, h
      <4> QED
        BY <1>1, <4>1, <4>4
    <3> QED
      BY <3>1, <3>2
  <2>4. \A g \in DOMAIN _hosts' : Len(_traffic'[_hosts'[g]]) > 0 /\ Under(g, _traffic'[_hosts'[g]], filed')
    BY <2>2, <2>3
  <2> QED
    BY <2>1, <2>4 DEF FiledUnder, Under
<1>17. RowsShown'
  <2>1. /\ rows \in Seq(Nat) /\ Len(rows) \in Nat /\ Len(rows) <= Len(_hostsArray)
    BY DEF CocoaInv, RowsShown
  <2>2. dirty' \in BOOLEAN /\ dirty' # FALSE
    BY <1>1
  <2>3. Len(rows) <= Len(_hostsArray')
    BY <1>12, <1>13, <2>1
  <2>4. ASSUME clears = 0
        PROVE  /\ \A i, j \in 1..Len(_hostsArray') : _hostsArray'[i] = _hostsArray'[j] => i = j
               /\ \A i \in 1..Len(_hostsArray') : _hostsArray'[i] \in DOMAIN _hosts'
               /\ \A i \in 1..Len(rows) : rows[i] = _hosts'[_hostsArray'[i]]
    <3>1. /\ \A i, j \in 1..Len(_hostsArray) : _hostsArray[i] = _hostsArray[j] => i = j
          /\ \A i \in 1..Len(_hostsArray) : _hostsArray[i] \in DOMAIN _hosts
          /\ \A i \in 1..Len(rows) : rows[i] = _hosts[_hostsArray[i]]
      BY <2>4 DEF CocoaInv, RowsShown
    <3>2. \A i \in 1..Len(_hostsArray') : \/ i \in 1..Len(_hostsArray)
                                          \/ h \notin DOMAIN _hosts /\ i = Len(_hostsArray) + 1
      BY <1>12, <1>13
    <3>3. \A i, j \in 1..Len(_hostsArray') : _hostsArray'[i] = _hostsArray'[j] => i = j
      BY <1>13, <3>1, <3>2
    <3>4. \A i \in 1..Len(_hostsArray') : _hostsArray'[i] \in DOMAIN _hosts'
      BY <1>12, <1>13, <3>1, <3>2
    <3>5. ASSUME NEW i \in 1..Len(rows) PROVE rows[i] = _hosts'[_hostsArray'[i]]
      <4>1. i \in 1..Len(_hostsArray)
        BY <1>12, <2>1
      <4> QED
        BY <1>12, <1>13, <3>1, <4>1
    <3> QED
      BY <3>3, <3>4, <3>5
  <2> QED
    BY <1>1, <2>1, <2>2, <2>3, <2>4 DEF RowsShown
<1>18. OpenRows'
  <2> SUFFICES ASSUME NEW item \in DOMAIN open_rows
               PROVE  /\ item \in 1..Len(_traffic') /\ open_rows[item] \in Seq(Nat)
                      /\ Starts(open_rows[item], _traffic'[item])
    BY <1>1 DEF OpenRows, Starts
  <2>1. /\ item \in 1..Len(_traffic) /\ open_rows[item] \in Seq(Nat) /\ Starts(open_rows[item], _traffic[item])
    BY DEF CocoaInv, OpenRows
  <2>2. item \in 1..Len(_traffic')
    BY <1>12, <2>1
  <2>3. CASE item # _hosts'[h]
    BY <1>11, <2>1, <2>2, <2>3 DEF Filing
  <2>4. CASE item = _hosts'[h]
    <3> DEFINE ids == _traffic[item]
    <3>1. h \in DOMAIN _hosts
      BY <1>11, <1>12, <2>1, <2>4 DEF Filing
    <3>2. _traffic'[item] = Append(ids, id) /\ ids \in Seq(Nat)
      <4>1. item = _hosts[h]
        BY <1>12, <2>4, <3>1
      <4>2. _traffic'[_hosts'[h]] = Append(_traffic[_hosts[h]], id)
        BY <1>11, <3>1 DEF Filing
      <4>3. ids \in Seq(Nat)
        BY <1>12, <2>1
      <4> QED
        BY <2>4, <4>1, <4>2, <4>3
    <3> HIDE DEF ids
    <3>3. Len(ids) \in Nat /\ Len(Append(ids, id)) = Len(ids) + 1 /\ \A j \in 1..Len(ids) : Append(ids, id)[j] = ids[j]
      BY <1>6, <3>2, AppendFacts DEF id
    <3>4. Len(open_rows[item]) \in Nat /\ Len(open_rows[item]) <= Len(ids)
          /\ \A c \in 1..Len(open_rows[item]) : open_rows[item][c] = ids[c]
      BY <2>1 DEF Starts, ids
    <3>5. Starts(open_rows[item], Append(ids, id))
      BY <3>3, <3>4 DEF Starts
    <3> QED
      BY <2>1, <2>2, <3>2, <3>5
  <2> QED
    BY <2>3, <2>4
<1> QED
  BY <1>9, <1>10, <1>15, <1>16, <1>17, <1>18 DEF CocoaInv

\* The dictionary is emptied.
LEMMA ClearKeeps ==
  ASSUME CocoaInv, O!clear
  PROVE  CocoaInv'
<1>1. /\ _hosts' = <<>> /\ filed' = <<>> /\ clears' = clears + 1
      /\ UNCHANGED <<main_thread, _delegateObj, mainQueue, _hostsArray, _traffic, rows, open_rows, dirty,
                     _expandedRow, background, _anonDelegate, ioLoop, gathered>>
  BY DEF O!clear, O!view, O!collector
<1>2. DOMAIN _hosts' = {} /\ Len(filed') = 0 /\ filed' \in Seq(Notices)
  BY <1>1
<1>3. clears \in Nat /\ clears' \in Nat /\ clears' # 0
  BY <1>1 DEF CocoaInv, UnderWayTo
<1>4. Handed' = Handed /\ Taken' = Taken
  BY <1>1 DEF Taken, Handed
<1>5. UnderWayTo'
  BY <1>1, <1>2, <1>3, <1>4 DEF CocoaInv, UnderWayTo
<1>6. Delegated'
  BY <1>1 DEF CocoaInv, Delegated
<1>7. Dictionary' /\ FiledUnder'
  BY <1>1, <1>2 DEF CocoaInv, Dictionary, FiledUnder
<1>8. RowsShown'
  BY <1>1, <1>2, <1>3 DEF CocoaInv, RowsShown
<1>9. OpenRows'
  BY <1>1 DEF CocoaInv, OpenRows, Starts
<1> QED
  BY <1>5, <1>6, <1>7, <1>8, <1>9 DEF CocoaInv

\* What drawing, opening, closing and clicking leave alone.
LEMMA ViewKeeps ==
  ASSUME CocoaInv,
         UNCHANGED <<main_thread, _delegateObj, mainQueue, O!traffic, O!collector, O!counters>>
  PROVE  UnderWayTo' /\ Delegated' /\ Dictionary' /\ FiledUnder'
<1>1. UNCHANGED <<main_thread, _delegateObj, mainQueue, _hosts, _hostsArray, _traffic, background,
                  _anonDelegate, ioLoop, gathered, clears, filed>>
  BY DEF O!traffic, O!collector, O!counters
<1>2. Handed' = Handed /\ Taken' = Taken
  BY <1>1 DEF Taken, Handed
<1>3. UnderWayTo' /\ Delegated'
  BY <1>1, <1>2 DEF CocoaInv, UnderWayTo, Delegated
<1> QED
  BY <1>1, <1>3, FilingUnchanged DEF CocoaInv

\* The view draws its rows: one for each name.
LEMMA DrawsKeeps ==
  ASSUME CocoaInv, O!Draws
  PROVE  CocoaInv'
<1>1. /\ dirty' = FALSE /\ rows' = [i \in 1..Len(_hostsArray) |-> O!hostAtIndex(i)]
      /\ UNCHANGED <<_hosts, _hostsArray, _traffic, clears, open_rows, _expandedRow>>
  BY DEF O!Draws, O!traffic, O!collector, O!counters, O!numberOfChildrenOfItem, O!numberOfHosts, O!child
<1>2. UnderWayTo' /\ Delegated' /\ Dictionary' /\ FiledUnder'
  BY ViewKeeps DEF O!Draws
<1>3. /\ _hostsArray \in Seq(TrafficHosts) /\ Len(_hostsArray) \in Nat
      /\ \A h \in DOMAIN _hosts : _hosts[h] \in Nat
  BY DEF CocoaInv, Dictionary
<1>4. \A i \in 1..Len(_hostsArray) : /\ O!hostAtIndex(i) \in Nat
                                     /\ _hostsArray[i] \in DOMAIN _hosts => O!hostAtIndex(i) = _hosts[_hostsArray[i]]
  BY <1>3 DEF O!hostAtIndex, O!hasHost
<1>5. /\ rows' \in Seq(Nat) /\ Len(rows') = Len(_hostsArray)
      /\ \A i \in 1..Len(_hostsArray) : rows'[i] = O!hostAtIndex(i)
  BY <1>1, <1>3, <1>4
<1>6. RowsShown'
  <2>2. ASSUME NEW h \in DOMAIN _hosts PROVE \E i \in 1..Len(rows') : rows'[i] = _hosts[h]
    <3>1. PICK i \in 1..Len(_hostsArray) : _hostsArray[i] = h
      BY DEF CocoaInv, Dictionary
    <3> QED
      BY <1>4, <1>5, <3>1
  <2>3. ASSUME clears = 0
        PROVE  /\ \A i, j \in 1..Len(_hostsArray) : _hostsArray[i] = _hostsArray[j] => i = j
               /\ \A i \in 1..Len(_hostsArray) : _hostsArray[i] \in DOMAIN _hosts
               /\ \A i \in 1..Len(rows') : rows'[i] = _hosts[_hostsArray[i]]
    BY <1>4, <1>5, <2>3 DEF CocoaInv, RowsShown
  <2>4. dirty' \in BOOLEAN
    BY <1>1, Zenon
  <2>5. Len(rows') <= Len(_hostsArray)
    BY <1>3, <1>5
  <2> QED
    BY <1>1, <1>5, <2>2, <2>3, <2>4, <2>5 DEF RowsShown
<1>7. OpenRows'
  BY <1>1 DEF CocoaInv, OpenRows, Starts
<1> QED
  BY <1>2, <1>6, <1>7 DEF CocoaInv

\* A row is opened: it is given what its item has.
LEMMA ExpandsKeeps ==
  ASSUME CocoaInv, O!Expands
  PROVE  CocoaInv'
<1>1. UNCHANGED <<_hosts, _hostsArray, _traffic, clears, rows, dirty, _expandedRow>>
  BY DEF O!Expands, O!traffic, O!counters
<1>2. UnderWayTo' /\ Delegated' /\ Dictionary' /\ FiledUnder'
  BY ViewKeeps DEF O!Expands
<1>3. RowsShown'
  BY <1>1 DEF CocoaInv, RowsShown
<1>4. PICK i \in DOMAIN rows :
        /\ O!isItemExpandable(rows[i])
        /\ open_rows' = [item \in DOMAIN open_rows \cup {rows[i]} |->
                     IF item = rows[i] THEN [c \in 1..O!numberOfChildrenOfItem(item) |-> O!child(c, item)]
                                       ELSE open_rows[item]]
  BY DEF O!Expands
<1> DEFINE row == rows[i]
           given == [c \in 1..O!numberOfChildrenOfItem(row) |-> O!child(c, row)]
<1>5. row \in 1..Len(_traffic) /\ _traffic[row] \in Seq(Nat) /\ row # 0
  BY <1>4 DEF O!isItemExpandable, CocoaInv, Dictionary
<1>6. given = [c \in 1..Len(_traffic[row]) |-> _traffic[row][c]]
  BY <1>5 DEF O!numberOfChildrenOfItem, O!child
<1>7. given \in Seq(Nat) /\ Starts(given, _traffic[row])
  <2> DEFINE ids == _traffic[row]
  <2> HIDE DEF given, row, ids
  <2>1. given = [c \in 1..Len(ids) |-> ids[c]] /\ ids \in Seq(Nat)
    BY <1>5, <1>6 DEF ids
  <2>2. given \in Seq(Nat) /\ Len(given) = Len(ids) /\ Len(ids) \in Nat /\ \A c \in 1..Len(ids) : given[c] = ids[c]
    BY <2>1
  <2> QED
    BY <2>2 DEF Starts, ids
<1>8. DOMAIN open_rows' = DOMAIN open_rows \cup {row} /\ open_rows'[row] = given
      /\ \A item \in DOMAIN open_rows : item # row => open_rows'[item] = open_rows[item]
  BY <1>4
<1> HIDE DEF given, row
<1>9. ASSUME NEW item \in DOMAIN open_rows'
      PROVE  item \in 1..Len(_traffic) /\ open_rows'[item] \in Seq(Nat) /\ Starts(open_rows'[item], _traffic[item])
  <2>1. CASE item = row
    BY <1>5, <1>7, <1>8, <2>1
  <2>2. CASE item # row
    BY <1>8, <2>2 DEF CocoaInv, OpenRows
  <2> QED
    BY <2>1, <2>2
<1>10. OpenRows'
  BY <1>1, <1>9 DEF OpenRows, Starts
<1> QED
  BY <1>2, <1>3, <1>10 DEF CocoaInv

\* Every step of the window and of the threads keeps the invariant.
LEMMA CocoaStep ==
  ASSUME CocoaInv, [O!Next]_O!vars
  PROVE  CocoaInv'
<1>1. CASE O!Collapses
  <2>1. UNCHANGED <<_hosts, _hostsArray, _traffic, clears, rows, dirty, _expandedRow>>
    BY <1>1 DEF O!Collapses, O!traffic, O!counters
  <2>2. UnderWayTo' /\ Delegated' /\ Dictionary' /\ FiledUnder'
    BY <1>1, ViewKeeps DEF O!Collapses
  <2>3. RowsShown'
    BY <2>1 DEF CocoaInv, RowsShown
  <2>4. PICK closed \in DOMAIN open_rows : open_rows' = [item \in DOMAIN open_rows \ {closed} |-> open_rows[item]]
    BY <1>1 DEF O!Collapses
  <2>5. OpenRows'
    BY <2>1, <2>4 DEF CocoaInv, OpenRows, Starts
  <2> QED
    BY <2>2, <2>3, <2>5 DEF CocoaInv
<1>2. CASE O!doubleClick
  <2>1. UNCHANGED <<_hosts, _hostsArray, _traffic, clears, rows, dirty, open_rows>>
    BY <1>2 DEF O!doubleClick, O!traffic, O!counters
  <2>2. UnderWayTo' /\ Delegated' /\ Dictionary' /\ FiledUnder'
    BY <1>2, ViewKeeps DEF O!doubleClick
  <2>3. RowsShown' /\ OpenRows'
    BY <2>1 DEF CocoaInv, RowsShown, OpenRows, Starts
  <2> QED
    BY <2>2, <2>3 DEF CocoaInv
<1>3. CASE UNCHANGED O!vars
  <2>1. UNCHANGED <<main_thread, _delegateObj, mainQueue, O!traffic, O!collector, O!counters>>
        /\ UNCHANGED <<_hosts, _hostsArray, _traffic, clears, rows, open_rows, dirty, _expandedRow>>
    BY <1>3 DEF O!vars, O!traffic, O!view, O!counters
  <2> QED
    BY <2>1, ViewKeeps, ViewUnchanged DEF CocoaInv
<1> QED
  BY <1>1, <1>2, <1>3, CollectorKeeps, NotifyKeeps, ClearKeeps, DrawsKeeps, ExpandsKeeps DEF O!Next

LEMMA CocoaStarts ==
  ASSUME O!Init
  PROVE  CocoaInv
<1>1. /\ main_thread = "starting" /\ background = "none" /\ ioLoop = <<>> /\ mainQueue = <<>> /\ filed = <<>>
      /\ _hosts = <<>> /\ _hostsArray = <<>> /\ _traffic = <<>> /\ rows = <<>> /\ open_rows = <<>>
      /\ dirty = FALSE /\ _expandedRow = 0 /\ gathered = 0 /\ clears = 0
  BY DEF O!Init
<1>2. Handed = 0 /\ Taken = 0
  <2>1. Len(ioLoop) = 0 /\ Len(mainQueue) = 0 /\ gathered = 0
    BY <1>1
  <2>2. Handed = 0
    BY <2>1 DEF Handed
  <2> QED
    BY <2>1, <2>2 DEF Taken
<1>3. UnderWayTo
  BY <1>1, <1>2 DEF UnderWayTo
<1>4. Delegated
  BY <1>1 DEF Delegated
<1>5. Dictionary /\ FiledUnder
  BY <1>1 DEF Dictionary, FiledUnder
<1>6. RowsShown /\ OpenRows
  <2>1. dirty \in BOOLEAN
    BY <1>1, Zenon
  <2>2. /\ Len(rows) = 0 /\ Len(_hostsArray) = 0 /\ rows \in Seq(Nat) /\ DOMAIN _hosts = {} /\ DOMAIN open_rows = {}
        /\ Len(rows) <= Len(_hostsArray)
    BY <1>1
  <2> QED
    BY <2>1, <2>2 DEF RowsShown, OpenRows
<1> QED
  BY <1>3, <1>4, <1>5, <1>6 DEF CocoaInv

\* The first row with a name is that of the host.
LEMMA IndexFound ==
  ASSUME CocoaInv, NEW h \in DOMAIN _hosts
  PROVE  O!hostAtIndex(O!indexForHost(h)) = _hosts[h]
<1> DEFINE found == {i \in 1..Len(_hostsArray) : _hostsArray[i] = h}
           First(i) == _hostsArray[i] = h /\ \A j \in 1..(i - 1) : _hostsArray[j] # h
<1>1. \E i \in 1..Len(_hostsArray) : _hostsArray[i] = h
  BY DEF CocoaInv, Dictionary
<1>2. found \in SUBSET Nat /\ found # {}
  BY <1>1
<1>3. DOMAIN _hostsArray = 1..Len(_hostsArray) /\ Len(_hostsArray) \in Nat
  BY DEF CocoaInv, Dictionary
<1>4. PICK x \in found : \A y \in found : x <= y
  BY <1>2, LeastNumber
<1>5. ASSUME NEW j \in 1..(x - 1) PROVE _hostsArray[j] # h
  <2>1. j \in 1..Len(_hostsArray) /\ ~(x <= j)
    BY <1>3, <1>4
  <2> QED
    BY <1>4, <2>1
<1>6. x \in DOMAIN _hostsArray /\ First(x)
  BY <1>3, <1>4, <1>5
<1>7. O!indexForHost(h) = CHOOSE i \in DOMAIN _hostsArray : First(i)
  BY DEF O!indexForHost, O!hasHost
<1>8. First(O!indexForHost(h))
  <2> HIDE DEF First
  <2> QED
    BY <1>6, <1>7
<1> QED
  BY <1>8 DEF O!hostAtIndex, O!hasHost

\* The invariant is enough.
LEMMA CocoaFiled ==
  ASSUME CocoaInv
  PROVE  O!TrafficFiled
<1>0. /\ ioLoop \in Seq(Notices) /\ mainQueue \in Seq(Notices) /\ filed \in Seq(Notices)
      /\ Len(ioLoop) \in Nat /\ Len(mainQueue) \in Nat /\ Len(filed) \in Nat /\ gathered \in Nat /\ Taken \in Nat
      /\ rows \in Seq(Nat) /\ _traffic \in Seq(Seq(Nat))
  BY DEF CocoaInv, UnderWayTo, RowsShown, Dictionary
<1> DEFINE queued == mainQueue \o ioLoop
<1>1. \A i \in DOMAIN queued : queued[i].id = gathered - Len(queued) + i
  <2>1. /\ DOMAIN queued = 1..(Len(mainQueue) + Len(ioLoop)) /\ Len(queued) = Len(mainQueue) + Len(ioLoop)
        /\ \A i \in DOMAIN queued : queued[i] = IF i <= Len(mainQueue) THEN mainQueue[i] ELSE ioLoop[i - Len(mainQueue)]
    BY <1>0
  <2> SUFFICES ASSUME NEW i \in DOMAIN queued PROVE queued[i].id = gathered - Len(queued) + i
    OBVIOUS
  <2> HIDE DEF queued
  <2>2. CASE i <= Len(mainQueue)
    <3>1. i \in 1..Len(mainQueue) /\ queued[i] = mainQueue[i]
      BY <1>0, <2>1, <2>2
    <3>2. mainQueue[i].id = Taken + i
      BY <3>1 DEF CocoaInv, UnderWayTo
    <3> QED
      BY <1>0, <2>1, <3>1, <3>2 DEF Taken, Handed
  <2>3. CASE ~(i <= Len(mainQueue))
    <3> DEFINE j == i - Len(mainQueue)
    <3>1. j \in 1..Len(ioLoop) /\ queued[i] = ioLoop[j]
      BY <1>0, <2>1, <2>3
    <3>2. ioLoop[j].id = Handed + j
      BY <3>1 DEF CocoaInv, UnderWayTo
    <3> QED
      BY <1>0, <2>1, <3>1, <3>2 DEF Handed
  <2> QED
    BY <2>2, <2>3
<1>2. clears = 0 => Len(filed) + Len(queued) = gathered
  BY <1>0 DEF CocoaInv, UnderWayTo, Taken, Handed
<1>3. ASSUME NEW h \in TrafficHosts
      PROVE  LET of  == {filed[k].id : k \in {k \in DOMAIN filed : filed[k].host = h}}
                 ids == _traffic[_hosts[h]]
             IN  /\ O!hasHost(h) <=> of # {}
                 /\ O!hasHost(h) =>
                      /\ {ids[k] : k \in DOMAIN ids} = of
                      /\ \A j, k \in DOMAIN ids : j < k => ids[j] < ids[k]
                      /\ O!hostAtIndex(O!indexForHost(h)) = _hosts[h]
  <2> DEFINE of  == {filed[k].id : k \in {k \in DOMAIN filed : filed[k].host = h}}
             ids == _traffic[_hosts[h]]
  <2>0. DOMAIN filed = 1..Len(filed)
    BY <1>0
  <2>1. CASE h \notin DOMAIN _hosts
    <3>1. \A k \in 1..Len(filed) : filed[k].host # h
      BY <2>1 DEF CocoaInv, FiledUnder
    <3>2. of = {}
      BY <2>0, <3>1
    <3> QED
      BY <2>1, <3>2 DEF O!hasHost
  <2>2. CASE h \in DOMAIN _hosts
    <3>1. ids \in Seq(Nat) /\ DOMAIN ids = 1..Len(ids) /\ Len(ids) \in Nat
      BY <1>0, <2>2 DEF CocoaInv, Dictionary
    <3>2. Len(ids) > 0 /\ Under(h, ids, filed)
      BY <2>2 DEF CocoaInv, FiledUnder
    <3> HIDE DEF ids
    <3>3. \A k \in DOMAIN ids : ids[k] \in of
      BY <2>0, <3>1, <3>2 DEF Under
    <3>4. ASSUME NEW y \in of PROVE \E k \in DOMAIN ids : ids[k] = y
      <4>1. PICK n \in 1..Len(filed) : filed[n].host = h /\ filed[n].id = y
        BY <2>0
      <4> QED
        BY <3>1, <3>2, <4>1 DEF Under
    <3>5. 1 \in DOMAIN ids
      BY <3>1, <3>2
    <3>6. of # {}
      BY <3>3, <3>5
    <3> HIDE DEF of
    <3>7. {ids[k] : k \in DOMAIN ids} = of
      BY <3>3, <3>4
    <3>8. \A j, k \in DOMAIN ids : j < k => ids[j] < ids[k]
      BY <3>1, <3>2 DEF Under
    <3>9. O!hostAtIndex(O!indexForHost(h)) = _hosts[h]
      BY <2>2, IndexFound
    <3> QED
      BY <2>2, <3>6, <3>7, <3>8, <3>9 DEF O!hasHost, of, ids
  <2> QED
    BY <2>1, <2>2
<1>4. ~dirty => {_hosts[h] : h \in DOMAIN _hosts} \subseteq {rows[i] : i \in DOMAIN rows}
  <2>1. dirty \in BOOLEAN /\ DOMAIN rows = 1..Len(rows)
    BY <1>0 DEF CocoaInv, RowsShown
  <2>2. CASE dirty = FALSE
    <3>1. \A h \in DOMAIN _hosts : \E i \in DOMAIN rows : rows[i] = _hosts[h]
      BY <2>1, <2>2 DEF CocoaInv, RowsShown
    <3> QED
      BY <3>1
  <2> QED
    BY <2>1, <2>2
<1>5. ASSUME clears = 0, NEW i \in DOMAIN rows, NEW j \in DOMAIN rows
      PROVE  rows[i] # 0 /\ (rows[i] = rows[j] => i = j)
  <2>1. /\ i \in 1..Len(rows) /\ j \in 1..Len(rows) /\ Len(rows) \in Nat /\ Len(_hostsArray) \in Nat
        /\ Len(rows) <= Len(_hostsArray)
    BY <1>0 DEF CocoaInv, RowsShown, Dictionary
  <2>2. i \in 1..Len(_hostsArray) /\ j \in 1..Len(_hostsArray)
    BY <2>1
  <2>3. rows[i] = _hosts[_hostsArray[i]] /\ rows[j] = _hosts[_hostsArray[j]]
        /\ _hostsArray[i] \in DOMAIN _hosts /\ _hostsArray[j] \in DOMAIN _hosts
        /\ (_hostsArray[i] = _hostsArray[j] => i = j)
    BY <1>5, <2>1, <2>2 DEF CocoaInv, RowsShown
  <2>4. _hosts[_hostsArray[i]] # 0 /\ (_hosts[_hostsArray[i]] = _hosts[_hostsArray[j]] => _hostsArray[i] = _hostsArray[j])
    BY <2>3 DEF CocoaInv, Dictionary
  <2> QED
    BY <2>3, <2>4
<1>6. ASSUME NEW item \in DOMAIN open_rows
      PROVE  /\ Len(open_rows[item]) <= Len(_traffic[item])
             /\ \A c \in DOMAIN open_rows[item] : open_rows[item][c] = _traffic[item][c]
  <2>1. open_rows[item] \in Seq(Nat) /\ Starts(open_rows[item], _traffic[item])
    BY DEF CocoaInv, OpenRows
  <2> QED
    BY <2>1 DEF Starts
<1> QED
  BY <1>1, <1>2, <1>3, <1>4, <1>5, <1>6 DEF O!TrafficFiled

\* CollectorsKept: of the exchanges of a host the collector keeps the latest, at
\* most one more than it is to keep and none left out between (LatestKept); the
\* double-checked locking of PipeCollector makes one instance (OneInstance); and
\* what ObjcCollector hands to the main thread is filed under its host, once, in
\* order, and shown (TrafficFiled).
THEOREM CollectorsKeptHolds ==
  Spec => []CollectorsKept
<1> DEFINE Inv == /\ part = "capture" => CaptureInv
                  /\ part = "pipe" => PipeInv
                  /\ part = "cocoa" => CocoaInv
<1>1. Init => Inv
  <2>1. L!Init => PipeInv
    BY DEF L!Init, PipeInv, CallerStates, OneInside, InstanceStored, Inside
  <2> QED
    BY <2>1, CaptureStarts, CocoaStarts DEF Init
<1>2. Inv /\ [Next]_vars => Inv'
  <2>1. [Next]_vars /\ part' = "capture" => part = "capture" /\ [L!CaptureNext]_L!collectors
    BY DEF Next, vars, collectors, L!collectors, L!captures, L!display, L!pipe
  <2>2. [Next]_vars /\ part' = "pipe" => part = "pipe" /\ [L!PipeNext]_L!collectors
    BY DEF Next, vars, collectors, L!collectors, L!captures, L!display, L!pipe
  <2>3. [Next]_vars /\ part' = "cocoa" => part = "cocoa" /\ [O!Next]_O!vars
    BY DEF Next, vars, cocoa, O!vars, O!traffic, O!view, O!collector, O!counters
  <2> QED
    BY <2>1, <2>2, <2>3, CaptureStep, PipeStep, CocoaStep
<1>3. Inv => CollectorsKept
  <2>1. PipeInv => L!OneInstance
    BY DEF PipeInv, CallerStates, OneInside, InstanceStored, Inside, L!OneInstance
  <2> QED
    BY <2>1, CaptureLatest, CocoaFiled DEF CollectorsKept
<1> QED
  BY <1>1, <1>2, <1>3, PTL DEF Spec

-----------------------------------------------------------------------------
(* Buffers: the three forms of a chain.                                     *)

\* g[k] is the first k elements of ss, one after the other.
Joined(g, ss, n) == g \in [0..n -> Seq(Nat)] /\ g[0] = <<>> /\ \A k \in 1..n : g[k] = g[k - 1] \o ss[k]

\* Concatenation.
LEMMA CatFacts ==
  ASSUME NEW s \in Seq(Nat), NEW t \in Seq(Nat)
  PROVE  /\ s \o t \in Seq(Nat) /\ Len(s \o t) = Len(s) + Len(t) /\ <<>> \o t = t
         /\ <<>> \in Seq(Nat) /\ Len(s) \in Nat /\ Len(t) \in Nat
OBVIOUS

LEMMA CatAssoc ==
  \A s, t, u \in Seq(Nat) : (s \o t) \o u = s \o (t \o u)
<1> SUFFICES ASSUME NEW s \in Seq(Nat), NEW t \in Seq(Nat), NEW u \in Seq(Nat)
             PROVE  (s \o t) \o u = s \o (t \o u)
  OBVIOUS
<1> DEFINE S == Nat
<1>1. s \in Seq(S) /\ t \in Seq(S) /\ u \in Seq(S)
  OBVIOUS
<1> HIDE DEF S
<1> QED
  BY SMTT(30), <1>1, ConcatAssociative

\* FlattenSeq is what such a function ends with.
LEMMA FlatJoined ==
  ASSUME NEW ss \in Seq(Seq(Nat))
  PROVE  \E g : Joined(g, ss, Len(ss)) /\ B!FlattenSeq(ss) = g[Len(ss)]
<1> DEFINE n == Len(ss)
           V == Seq(Nat)
           turn == [k \in 1..n |-> [s \in V |-> s \o ss[k]]]
           Loop(h) == [i \in 1..n |-> IF i = 1 THEN ss[i] ELSE h[i - 1] \o ss[i]]
           F == CHOOSE h : h = Loop(h)
<1>1. n \in Nat /\ <<>> \in V /\ \A k \in 1..n : ss[k] \in V /\ <<>> \o ss[k] = ss[k] /\ \A s \in V : s \o ss[k] \in V
  BY CatFacts
<1>2. PICK g : IsRun(g, n, V, <<>>, turn)
  <2>1. IsLoop(n, V, <<>>, turn)
    BY <1>1 DEF IsLoop
  <2> HIDE DEF turn, V, n
  <2> QED
    BY <2>1, Turns
<1>3. ASSUME NEW k \in 1..n PROVE k - 1 \in 0..n /\ k \in 0..n /\ g[k - 1] \in V /\ g[k] = g[k - 1] \o ss[k]
  <2>1. k - 1 \in 0..n /\ k \in 0..n
    BY <1>1
  <2>2. g[k] = turn[k][g[k - 1]] /\ g[k - 1] \in V
    BY <1>2, <2>1 DEF IsRun
  <2> QED
    BY <2>1, <2>2
<1>4. Joined(g, ss, n)
  BY <1>2, <1>3 DEF IsRun, Joined
<1>5. CASE n = 0
  <2>1. B!FlattenSeq(ss) = ss /\ ss = <<>>
    BY <1>5 DEF B!FlattenSeq
  <2> QED
    BY <1>4, <1>5, <2>1 DEF Joined
<1>6. CASE n # 0
  <2>1. B!FlattenSeq(ss) = F[n]
    BY <1>6 DEF B!FlattenSeq
  <2>0. 1 \in 1..n /\ g[1] = ss[1]
    <3>1. 1 \in 1..n /\ 1 - 1 = 0
      BY <1>1, <1>6
    <3>2. g[1] = g[0] \o ss[1]
      BY <1>3, <3>1
    <3>3. g[0] = <<>>
      BY <1>2 DEF IsRun
    <3>4. <<>> \o ss[1] = ss[1]
      BY <1>1, <3>1
    <3> QED
      BY <3>1, <3>2, <3>3, <3>4
  <2> DEFINE f == [k \in 1..n |-> g[k]]
  <2>2. f = Loop(f)
    <3>1. ASSUME NEW k \in 1..n PROVE f[k] = IF k = 1 THEN ss[k] ELSE f[k - 1] \o ss[k]
      <4>1. CASE k = 1
        BY <2>0, <4>1
      <4>2. CASE k # 1
        <5>1. k - 1 \in 1..n
          BY <1>1, <4>2
        <5> QED
          BY <1>3, <4>2, <5>1
      <4> QED
        BY <4>1, <4>2
    <3> QED
      BY <3>1
  <2>3. F = Loop(F)
    BY <2>2
  <2> HIDE DEF F
  <2>4. \A k \in 1..n : F[k] = IF k = 1 THEN ss[k] ELSE F[k - 1] \o ss[k]
    BY <2>3
  <2> DEFINE P == {k \in 0..n : k = 0 \/ F[k] = g[k]}
  <2>5. 0 \in P
    BY <1>1
  <2>6. ASSUME NEW k \in 1..n, k - 1 \in P PROVE k \in P
    <3>1. CASE k = 1
      <4>1. F[1] = g[1]
        BY <2>0, <2>4, <3>1
      <4> QED
        BY <1>1, <3>1, <4>1
    <3>2. CASE k # 1
      <4>1. F[k - 1] = g[k - 1]
        BY <1>1, <2>6, <3>2
      <4>2. F[k] = F[k - 1] \o ss[k]
        BY <2>4, <3>2
      <4> QED
        BY <1>3, <4>1, <4>2
    <3> QED
      BY <3>1, <3>2
  <2>7. n \in P
    <3> HIDE DEF P
    <3>1. \A k \in 0..n : k \in P
      BY <1>1, <2>5, <2>6, UpTo
    <3> QED
      BY <1>1, <3>1
  <2>8. F[n] = g[n]
    BY <1>6, <2>7
  <2> QED
    BY <1>4, <2>1, <2>8
<1> QED
  BY <1>5, <1>6

\* It depends on the elements only.
LEMMA JoinedSame ==
  ASSUME NEW n \in Nat, NEW f, NEW g, NEW ss, NEW tt, NEW m, NEW l, m \in Nat, l \in Nat, n <= m, n <= l,
         Joined(f, ss, m), Joined(g, tt, l), \A k \in 1..n : ss[k] = tt[k]
  PROVE  f[n] = g[n]
<1> DEFINE P == {k \in 0..n : f[k] = g[k]}
<1>1. 0 \in P
  BY DEF Joined
<1>2. ASSUME NEW k \in 1..n, k - 1 \in P PROVE k \in P
  <2>1. k \in 1..m /\ k \in 1..l /\ k \in 0..n
    OBVIOUS
  <2>2. f[k] = f[k - 1] \o ss[k] /\ g[k] = g[k - 1] \o tt[k]
    BY <2>1 DEF Joined
  <2> QED
    BY <1>2, <2>1, <2>2
<1> HIDE DEF P
<1>3. \A k \in 0..n : k \in P
  BY <1>1, <1>2, UpTo
<1>4. n \in P
  BY <1>3
<1> QED
  BY <1>4 DEF P

\* What is appended to a sequence of sequences ends what they are together, and
\* so does what the last of them is extended by.
LEMMA FlatMore ==
  ASSUME NEW ss \in Seq(Seq(Nat)), NEW tt \in Seq(Seq(Nat)), NEW x \in Seq(Nat),
         \/ /\ Len(tt) = Len(ss) + 1 /\ tt[Len(ss) + 1] = x
            /\ \A k \in 1..Len(ss) : tt[k] = ss[k]
         \/ /\ Len(tt) = Len(ss) /\ Len(ss) > 0 /\ tt[Len(ss)] = ss[Len(ss)] \o x
            /\ \A k \in 1..(Len(ss) - 1) : tt[k] = ss[k]
  PROVE  B!FlattenSeq(ss) \in Seq(Nat) /\ B!FlattenSeq(tt) = B!FlattenSeq(ss) \o x
<1> DEFINE n == Len(ss)
<1>0. n \in Nat /\ Len(tt) \in Nat
  OBVIOUS
<1>1. PICK f : Joined(f, ss, n) /\ B!FlattenSeq(ss) = f[n]
  BY FlatJoined
<1>2. PICK g : Joined(g, tt, Len(tt)) /\ B!FlattenSeq(tt) = g[Len(tt)]
  BY FlatJoined
<1>3. B!FlattenSeq(ss) \in Seq(Nat)
  BY SMTT(30), <1>0, <1>1 DEF Joined
<1>4. CASE Len(tt) = n + 1 /\ tt[n + 1] = x /\ \A k \in 1..n : tt[k] = ss[k]
  <2>1. f[n] = g[n]
    <3>1. n <= n /\ n <= Len(tt) /\ \A k \in 1..n : ss[k] = tt[k]
      BY <1>0, <1>4
    <3> HIDE DEF n
    <3> QED
      BY <1>0, <1>1, <1>2, <3>1, JoinedSame
  <2>2. n + 1 \in 1..Len(tt) /\ (n + 1) - 1 = n
    BY <1>0, <1>4
  <2>3. g[n + 1] = g[(n + 1) - 1] \o tt[n + 1]
    BY <1>2, <2>2 DEF Joined
  <2> QED
    BY <1>1, <1>2, <1>3, <1>4, <2>1, <2>2, <2>3
<1>5. CASE Len(tt) = n /\ n > 0 /\ tt[n] = ss[n] \o x /\ \A k \in 1..(n - 1) : tt[k] = ss[k]
  <2> DEFINE p == n - 1
  <2>0. p \in Nat /\ p <= n /\ n \in 1..n /\ p \in 0..n
    BY <1>0, <1>5
  <2>1. f[p] = g[p]
    <3>1. \A k \in 1..p : ss[k] = tt[k]
      BY <1>5
    <3> HIDE DEF n, p
    <3> QED
      BY <1>0, <1>1, <1>2, <1>5, <2>0, <3>1, JoinedSame
  <2>2. f[n] = f[p] \o ss[n] /\ g[n] = g[p] \o tt[n] /\ f[p] \in Seq(Nat) /\ ss[n] \in Seq(Nat)
    <3>1. ss[n] \in Seq(Nat) /\ n \in 1..Len(tt)
      BY <1>5, <2>0
    <3>2. f[n] = f[n - 1] \o ss[n] /\ g[n] = g[n - 1] \o tt[n]
      BY <1>1, <1>2, <2>0, <3>1 DEF Joined
    <3>3. f[p] \in Seq(Nat)
      BY <1>1, <2>0 DEF Joined
    <3> QED
      BY <3>1, <3>2, <3>3
  <2> HIDE DEF p, n
  <2>3. (f[p] \o ss[n]) \o x = f[p] \o (ss[n] \o x)
    BY <2>2, CatAssoc
  <2> QED
    BY <1>1, <1>2, <1>3, <1>5, <2>1, <2>2, <2>3
<1> QED
  BY <1>4, <1>5

LEMMA FlatNone ==
  B!FlattenSeq(<<>>) = <<>>
BY DEF B!FlattenSeq

\* A block whose two lengths are those of its bytes, and that fits its memory.
Blocks == [m_length : Nat, m_size : Nat, m_capacity : Nat, bytes : Seq(Nat), mem : Nat]

Whole(b) ==
  /\ b \in Blocks /\ b.m_size = Len(b.bytes) /\ b.m_length = Len(b.bytes)
  /\ b.m_length <= b.m_capacity /\ b.m_capacity <= MaxSize

\* What is read of such a block are its bytes.
LEMMA WholeRead ==
  ASSUME NEW b, Whole(b)
  PROVE  /\ B!toString(b) = b.bytes /\ B!data(b) = b.bytes /\ SubSeq(b.bytes, 1, b.m_length) = b.bytes
         /\ b.bytes \in Seq(Nat) /\ Len(b.bytes) \in Nat /\ Len(b.bytes) <= MaxSize
         /\ b.m_capacity \in Nat /\ b.m_capacity <= MaxSize
<1>1. b.bytes \in Seq(Nat) /\ b.m_size = Len(b.bytes) /\ b.m_length = Len(b.bytes) /\ b.m_capacity \in Nat
      /\ b.m_length <= b.m_capacity /\ b.m_capacity <= MaxSize
  BY DEF Whole, Blocks
<1>2. SubSeq(b.bytes, 1, Len(b.bytes)) = b.bytes
  BY <1>1
<1> QED
  BY <1>1, <1>2, BuffersAssumption DEF B!toString, B!data

\* A block that bytes are appended to, with or without a reallocation.
LEMMA AppendedWhole ==
  ASSUME NEW b, NEW bytes \in Seq(Nat), Whole(b), Len(b.bytes) + Len(bytes) <= MaxSize
  PROVE  Whole(B!Appended(b, bytes)) /\ B!Appended(b, bytes).bytes = b.bytes \o bytes
<1> DEFINE new == b.m_length + Len(bytes)
           grows == B!Reallocates(b, Len(bytes))
           all == SubSeq(b.bytes, 1, b.m_length) \o bytes
           cap == IF grows THEN B!reallocate_size(b.m_capacity, new) ELSE b.m_capacity
           mem == IF grows THEN b.mem + 1 ELSE b.mem
<1>1. /\ b.bytes \in Seq(Nat) /\ b.m_length = Len(b.bytes) /\ b.m_capacity \in Nat /\ b.mem \in Nat
      /\ Len(b.bytes) \in Nat /\ Len(bytes) \in Nat /\ b.m_capacity <= MaxSize
  BY WholeRead DEF Whole, Blocks
<1>2. all = b.bytes \o bytes
  BY WholeRead
<1>3. all \in Seq(Nat) /\ Len(all) = new /\ new \in Nat /\ new <= MaxSize
  BY <1>1, <1>2, CatFacts
<1>4. cap \in Nat /\ new <= cap /\ cap <= MaxSize
  <2>1. CASE grows
    BY <1>1, <1>3, <2>1, BuffersAssumption DEF B!reallocate_size, B!Larger, B!Smaller
  <2>2. CASE ~grows
    BY <1>1, <1>3, <2>2, BuffersAssumption DEF B!Reallocates
  <2> QED
    BY <2>1, <2>2
<1>5. mem \in Nat
  BY <1>1
<1>6. B!Appended(b, bytes) = [m_length |-> new, m_size |-> new, m_capacity |-> cap, bytes |-> all, mem |-> mem]
  BY DEF B!Appended
<1> HIDE DEF new, all, cap, mem
<1> QED
  BY <1>2, <1>3, <1>4, <1>5, <1>6 DEF Whole, Blocks

\* A new block, empty or with bytes.
LEMMA MadeWhole ==
  ASSUME NEW cap \in Nat, NEW bytes \in Seq(Nat), cap <= MaxSize, Len(bytes) <= MaxSize
  PROVE  Whole(B!Made(cap, bytes)) /\ B!Made(cap, bytes).bytes = bytes
<1> DEFINE b == B!Block(cap)
<1>1. b = [m_length |-> 0, m_size |-> 0, m_capacity |-> B!Larger(cap, MinSize), bytes |-> <<>>, mem |-> 0]
  BY DEF B!Block
<1>2. B!Larger(cap, MinSize) \in Nat /\ B!Larger(cap, MinSize) <= MaxSize
  BY BuffersAssumption DEF B!Larger
<1>3. Whole(b) /\ b.bytes = <<>> /\ Len(b.bytes) = 0
  BY <1>1, <1>2 DEF Whole, Blocks
<1>4. Len(b.bytes) + Len(bytes) <= MaxSize /\ <<>> \o bytes = bytes
  BY <1>3, CatFacts
<1> HIDE DEF b
<1>5. Whole(B!Appended(b, bytes)) /\ B!Appended(b, bytes).bytes = b.bytes \o bytes
  BY <1>3, <1>4, AppendedWhole
<1> QED
  BY <1>3, <1>4, <1>5 DEF B!Made, b

\* A chain of such blocks; and one whose size and asio entries are theirs too,
\* with bytes in it.
AsioBuffers == [mem : Nat, size : Nat]
ChainType == [m_chain : Seq(Blocks), m_asio_chain : Seq(AsioBuffers), m_size : Nat]
ChainOf(ch) == ch \in ChainType /\ \A i \in 1..Len(ch.m_chain) : Whole(ch.m_chain[i])

BytesOf(blocks) == [i \in 1..Len(blocks) |-> blocks[i].bytes]

InForm(ch, bytes) ==
  /\ ch.m_size = Len(bytes) /\ B!FlattenSeq(BytesOf(ch.m_chain)) = bytes
  /\ Len(ch.m_asio_chain) = Len(ch.m_chain)
  /\ \A i \in 1..Len(ch.m_chain) : ch.m_asio_chain[i] = B!ConstBuffer(ch.m_chain[i])

LEMMA BytesType ==
  ASSUME NEW blocks \in Seq(Blocks)
  PROVE  /\ BytesOf(blocks) \in Seq(Seq(Nat)) /\ Len(BytesOf(blocks)) = Len(blocks) /\ Len(blocks) \in Nat
         /\ DOMAIN blocks = 1..Len(blocks) /\ \A i \in 1..Len(blocks) : BytesOf(blocks)[i] = blocks[i].bytes
<1>1. \A i \in 1..Len(blocks) : blocks[i].bytes \in Seq(Nat)
  <2> SUFFICES ASSUME NEW i \in 1..Len(blocks) PROVE blocks[i].bytes \in Seq(Nat)
    OBVIOUS
  <2>1. blocks[i] \in Blocks
    OBVIOUS
  <2> QED
    BY <2>1 DEF Blocks
<1>2. Len(blocks) \in Nat
  OBVIOUS
<1> QED
  BY <1>1, <1>2 DEF BytesOf

\* The parts of a chain.
LEMMA ChainParts ==
  ASSUME NEW ch, ChainOf(ch)
  PROVE  /\ ch.m_chain \in Seq(Blocks) /\ ch.m_asio_chain \in Seq(AsioBuffers) /\ ch.m_size \in Nat
         /\ Len(ch.m_chain) \in Nat /\ DOMAIN ch.m_chain = 1..Len(ch.m_chain)
         /\ Len(ch.m_asio_chain) \in Nat /\ DOMAIN ch.m_asio_chain = 1..Len(ch.m_asio_chain)
<1>1. ch.m_chain \in Seq(Blocks) /\ ch.m_asio_chain \in Seq(AsioBuffers) /\ ch.m_size \in Nat
  BY DEF ChainOf, ChainType
<1> QED
  BY <1>1

\* An empty chain is in form.
LEMMA EmptyInForm ==
  ChainOf(B!EmptyChain) /\ InForm(B!EmptyChain, <<>>)
<1> DEFINE e == B!EmptyChain
<1>1. e = [m_chain |-> <<>>, m_asio_chain |-> <<>>, m_size |-> 0]
  BY DEF B!EmptyChain
<1>2. e \in ChainType /\ Len(e.m_chain) = 0 /\ Len(e.m_asio_chain) = 0 /\ e.m_size = 0 /\ e.m_chain = <<>>
  BY <1>1 DEF ChainType
<1>3. BytesOf(<<>>) = <<>>
  BY DEF BytesOf
<1> HIDE DEF e
<1> QED
  BY <1>2, <1>3, FlatNone DEF ChainOf, InForm, e

\* What is read of a chain in form, in each of its forms, are its bytes.
LEMMA FormRead ==
  ASSUME NEW ch, NEW bytes, ChainOf(ch), InForm(ch, bytes)
  PROVE  B!to_string(ch) = bytes /\ B!Amalgamated(ch) = bytes /\ B!asio_buffer_sequence(ch) = bytes
<1>1. /\ DOMAIN ch.m_chain = 1..Len(ch.m_chain) /\ DOMAIN ch.m_asio_chain = 1..Len(ch.m_chain)
      /\ \A i \in 1..Len(ch.m_chain) : Whole(ch.m_chain[i])
  BY ChainParts DEF ChainOf, InForm
<1>2. ASSUME NEW i \in 1..Len(ch.m_chain)
      PROVE  /\ B!toString(ch.m_chain[i]) = ch.m_chain[i].bytes /\ B!data(ch.m_chain[i]) = ch.m_chain[i].bytes
             /\ SubSeq(ch.m_chain[i].bytes, 1, ch.m_asio_chain[i].size) = ch.m_chain[i].bytes
  <2>1. ch.m_asio_chain[i].size = ch.m_chain[i].m_length
    <3>1. ch.m_asio_chain[i] = B!ConstBuffer(ch.m_chain[i])
      BY DEF InForm
    <3>2. B!ConstBuffer(ch.m_chain[i]).size = ch.m_chain[i].m_length
      BY DEF B!ConstBuffer
    <3> QED
      BY <3>1, <3>2
  <2> QED
    BY <1>1, <2>1, WholeRead
<1>3. [i \in DOMAIN ch.m_chain |-> B!toString(ch.m_chain[i])] = BytesOf(ch.m_chain)
  BY <1>1, <1>2 DEF BytesOf
<1>4. [i \in DOMAIN ch.m_chain |-> B!data(ch.m_chain[i])] = BytesOf(ch.m_chain)
  BY <1>1, <1>2 DEF BytesOf
<1>5. [i \in DOMAIN ch.m_asio_chain |-> SubSeq(ch.m_chain[i].bytes, 1, ch.m_asio_chain[i].size)] = BytesOf(ch.m_chain)
  BY <1>1, <1>2 DEF BytesOf
<1> QED
  BY <1>3, <1>4, <1>5 DEF InForm, B!to_string, B!Amalgamated, B!asio_buffer_sequence

\* push_back counts what it adds.
LEMMA CountedRun ==
  ASSUME NEW size \in Nat, NEW blocks \in Seq(Blocks)
  PROVE  \E g \in [0..Len(blocks) -> Nat] :
           /\ g[0] = size /\ \A k \in 1..Len(blocks) : g[k] = g[k - 1] + blocks[k].m_length
           /\ B!Counted(size, blocks) = g[Len(blocks)]
<1> DEFINE n == Len(blocks)
           turn == [k \in 1..n |-> [s \in Nat |-> s + blocks[k].m_length]]
           Loop(h) == [k \in 0..n |-> IF k = 0 THEN size ELSE h[k - 1] + blocks[k].m_length]
           F == CHOOSE h : h = Loop(h)
<1>1. n \in Nat /\ \A k \in 1..n : blocks[k].m_length \in Nat
  <2>1. \A k \in 1..n : blocks[k] \in Blocks
    OBVIOUS
  <2> QED
    BY SMTT(30), <2>1 DEF Blocks
<1>2. PICK g : IsRun(g, n, Nat, size, turn)
  <2>1. IsLoop(n, Nat, size, turn)
    BY <1>1 DEF IsLoop
  <2> HIDE DEF turn, n
  <2> QED
    BY <2>1, Turns
<1>3. ASSUME NEW k \in 1..n PROVE k - 1 \in 0..n /\ k \in 0..n /\ g[k - 1] \in Nat /\ g[k] = g[k - 1] + blocks[k].m_length
  <2>1. k - 1 \in 0..n /\ k \in 0..n
    BY <1>1
  <2>2. g[k] = turn[k][g[k - 1]] /\ g[k - 1] \in Nat
    BY <1>2, <2>1 DEF IsRun
  <2> QED
    BY <2>1, <2>2
<1>4. g \in [0..n -> Nat] /\ g[0] = size
  BY <1>2 DEF IsRun
<1>5. g = Loop(g)
  <2>1. ASSUME NEW k \in 0..n PROVE g[k] = Loop(g)[k]
    BY <1>1, <1>3, <1>4
  <2> QED
    BY <1>4, <2>1
<1>6. F = Loop(F)
  BY <1>5
<1>7. B!Counted(size, blocks) = F[n]
  BY DEF B!Counted
<1> HIDE DEF F
<1>8. \A k \in 0..n : F[k] = IF k = 0 THEN size ELSE F[k - 1] + blocks[k].m_length
  BY <1>6
<1> DEFINE P == {k \in 0..n : F[k] = g[k]}
<1>9. 0 \in P
  BY <1>1, <1>4, <1>8
<1>10. ASSUME NEW k \in 1..n, k - 1 \in P PROVE k \in P
  BY <1>1, <1>3, <1>8, <1>10
<1>11. n \in P
  <2> HIDE DEF P
  <2>1. \A k \in 0..n : k \in P
    BY <1>1, <1>9, <1>10, UpTo
  <2> QED
    BY <1>1, <2>1
<1> QED
  BY <1>3, <1>4, <1>7, <1>11

\* push_back of blocks, to any chain.
LEMMA PushedParts ==
  ASSUME NEW ch, NEW blocks \in Seq(Blocks), ChainOf(ch), \A i \in 1..Len(blocks) : Whole(blocks[i])
  PROVE  LET now == B!PushedBack(ch, blocks)
         IN  /\ ChainOf(now) /\ now.m_chain = ch.m_chain \o blocks /\ now.m_size = B!Counted(ch.m_size, blocks)
             /\ Len(now.m_chain) = Len(ch.m_chain) + Len(blocks)
             /\ Len(now.m_asio_chain) = Len(ch.m_asio_chain) + Len(blocks)
             /\ \A i \in 1..Len(ch.m_chain) : now.m_chain[i] = ch.m_chain[i]
             /\ \A i \in 1..Len(blocks) : now.m_chain[Len(ch.m_chain) + i] = blocks[i]
             /\ \A i \in 1..Len(ch.m_asio_chain) : now.m_asio_chain[i] = ch.m_asio_chain[i]
             /\ \A i \in 1..Len(blocks) : now.m_asio_chain[Len(ch.m_asio_chain) + i] = B!ConstBuffer(blocks[i])
<1> DEFINE now == B!PushedBack(ch, blocks)
           entries == [i \in DOMAIN blocks |-> B!ConstBuffer(blocks[i])]
<1>1. /\ ch.m_chain \in Seq(Blocks) /\ ch.m_asio_chain \in Seq(AsioBuffers) /\ ch.m_size \in Nat
      /\ Len(ch.m_chain) \in Nat /\ Len(ch.m_asio_chain) \in Nat
  BY ChainParts
<1>2. Len(blocks) \in Nat /\ DOMAIN blocks = 1..Len(blocks)
  OBVIOUS
<1>3. \A i \in 1..Len(blocks) : B!ConstBuffer(blocks[i]) \in AsioBuffers
  <2> SUFFICES ASSUME NEW i \in 1..Len(blocks) PROVE B!ConstBuffer(blocks[i]) \in AsioBuffers
    OBVIOUS
  <2>1. blocks[i] \in Blocks
    OBVIOUS
  <2>2. blocks[i].mem \in Nat /\ blocks[i].m_length \in Nat
    BY <2>1 DEF Blocks
  <2> QED
    BY <2>2 DEF AsioBuffers, B!ConstBuffer
<1>4. entries \in Seq(AsioBuffers) /\ Len(entries) = Len(blocks)
      /\ \A i \in 1..Len(blocks) : entries[i] = B!ConstBuffer(blocks[i])
  BY <1>2, <1>3
<1>5. B!Counted(ch.m_size, blocks) \in Nat
  <2>1. PICK g \in [0..Len(blocks) -> Nat] : B!Counted(ch.m_size, blocks) = g[Len(blocks)]
    BY <1>1, CountedRun
  <2> QED
    BY <1>2, <2>1
<1>6. now = [m_chain |-> ch.m_chain \o blocks, m_asio_chain |-> ch.m_asio_chain \o entries,
             m_size |-> B!Counted(ch.m_size, blocks)]
  BY DEF B!PushedBack
<1> HIDE DEF entries, now
<1> DEFINE head == ch.m_asio_chain
<1>7. /\ ch.m_chain \o blocks \in Seq(Blocks) /\ Len(ch.m_chain \o blocks) = Len(ch.m_chain) + Len(blocks)
      /\ \A i \in 1..Len(ch.m_chain) : (ch.m_chain \o blocks)[i] = ch.m_chain[i]
      /\ \A i \in 1..Len(blocks) : (ch.m_chain \o blocks)[Len(ch.m_chain) + i] = blocks[i]
  BY <1>1, <1>2
<1>8. /\ ch.m_asio_chain \o entries \in Seq(AsioBuffers)
      /\ Len(ch.m_asio_chain \o entries) = Len(ch.m_asio_chain) + Len(blocks)
      /\ \A i \in 1..Len(ch.m_asio_chain) : (ch.m_asio_chain \o entries)[i] = ch.m_asio_chain[i]
      /\ \A i \in 1..Len(blocks) : (ch.m_asio_chain \o entries)[Len(ch.m_asio_chain) + i] = B!ConstBuffer(blocks[i])
  <2>1. head \in Seq(AsioBuffers) /\ entries \in Seq(AsioBuffers)
    BY <1>1, <1>4
  <2> HIDE DEF head
  <2>2. /\ head \o entries \in Seq(AsioBuffers) /\ Len(head \o entries) = Len(head) + Len(entries)
        /\ \A i \in 1..Len(head) : (head \o entries)[i] = head[i]
        /\ \A i \in 1..Len(entries) : (head \o entries)[Len(head) + i] = entries[i]
    BY <2>1
  <2>3. \A i \in 1..Len(blocks) : (head \o entries)[Len(head) + i] = B!ConstBuffer(blocks[i])
    BY <1>4, <2>2
  <2> QED
    BY <1>4, <2>2, <2>3 DEF head
<1>9. now \in ChainType /\ now.m_chain = ch.m_chain \o blocks /\ now.m_asio_chain = ch.m_asio_chain \o entries
      /\ now.m_size = B!Counted(ch.m_size, blocks)
  BY <1>5, <1>6, <1>7, <1>8 DEF ChainType
<1>10. \A i \in 1..Len(now.m_chain) : Whole(now.m_chain[i])
  <2> SUFFICES ASSUME NEW i \in 1..Len(now.m_chain) PROVE Whole(now.m_chain[i])
    OBVIOUS
  <2>1. CASE i \in 1..Len(ch.m_chain)
    BY <1>7, <1>9, <2>1 DEF ChainOf
  <2>2. CASE i \notin 1..Len(ch.m_chain)
    <3> DEFINE j == i - Len(ch.m_chain)
    <3>1. j \in 1..Len(blocks) /\ i = Len(ch.m_chain) + j
      BY <1>1, <1>2, <1>7, <1>9, <2>2
    <3> QED
      BY <1>7, <1>9, <3>1
  <2> QED
    BY <2>1, <2>2
<1> QED
  BY <1>7, <1>8, <1>9, <1>10 DEF ChainOf, now

\* One block more.
LEMMA PushOne ==
  ASSUME NEW ch, NEW b, NEW bytes \in Seq(Nat), ChainOf(ch), Whole(b), InForm(ch, bytes)
  PROVE  ChainOf(B!PushedBack(ch, <<b>>)) /\ InForm(B!PushedBack(ch, <<b>>), bytes \o b.bytes)
<1> DEFINE now == B!PushedBack(ch, <<b>>)
           n == Len(ch.m_chain)
<1>1. b \in Blocks /\ b.bytes \in Seq(Nat) /\ Len(b.bytes) \in Nat /\ b.m_length = Len(b.bytes)
  BY WholeRead DEF Whole
<1>2. <<b>> \in Seq(Blocks) /\ Len(<<b>>) = 1 /\ <<b>>[1] = b /\ \A i \in 1..Len(<<b>>) : Whole(<<b>>[i])
  BY <1>1
<1>3. /\ ChainOf(now) /\ now.m_size = B!Counted(ch.m_size, <<b>>)
      /\ Len(now.m_chain) = n + 1 /\ Len(now.m_asio_chain) = Len(ch.m_asio_chain) + 1
      /\ \A i \in 1..n : now.m_chain[i] = ch.m_chain[i]
      /\ now.m_chain[n + 1] = b
      /\ \A i \in 1..Len(ch.m_asio_chain) : now.m_asio_chain[i] = ch.m_asio_chain[i]
      /\ now.m_asio_chain[Len(ch.m_asio_chain) + 1] = B!ConstBuffer(b)
  <2> DEFINE blocks == <<b>>
  <2>1. blocks \in Seq(Blocks) /\ Len(blocks) = 1 /\ blocks[1] = b /\ 1 \in 1..Len(blocks)
        /\ \A i \in 1..Len(blocks) : Whole(blocks[i])
    BY <1>2
  <2> HIDE DEF blocks
  <2>2. LET w == B!PushedBack(ch, blocks)
         IN  /\ ChainOf(w) /\ w.m_chain = ch.m_chain \o blocks /\ w.m_size = B!Counted(ch.m_size, blocks)
             /\ Len(w.m_chain) = Len(ch.m_chain) + Len(blocks)
             /\ Len(w.m_asio_chain) = Len(ch.m_asio_chain) + Len(blocks)
             /\ \A i \in 1..Len(ch.m_chain) : w.m_chain[i] = ch.m_chain[i]
             /\ \A i \in 1..Len(blocks) : w.m_chain[Len(ch.m_chain) + i] = blocks[i]
             /\ \A i \in 1..Len(ch.m_asio_chain) : w.m_asio_chain[i] = ch.m_asio_chain[i]
             /\ \A i \in 1..Len(blocks) : w.m_asio_chain[Len(ch.m_asio_chain) + i] = B!ConstBuffer(blocks[i])
    BY <2>1, PushedParts
  <2>3. now = B!PushedBack(ch, blocks) /\ B!Counted(ch.m_size, blocks) = B!Counted(ch.m_size, <<b>>)
    BY DEF blocks
  <2> HIDE DEF now
  <2> QED
    BY <2>1, <2>2, <2>3
<1>4. /\ ch.m_chain \in Seq(Blocks) /\ ch.m_size \in Nat /\ n \in Nat /\ Len(ch.m_asio_chain) = n
  BY ChainParts DEF InForm
<1>5. now.m_size = Len(bytes \o b.bytes)
  <2> DEFINE blocks == <<b>>
  <2>1. blocks \in Seq(Blocks) /\ Len(blocks) = 1 /\ blocks[1] = b
    BY <1>2
  <2> HIDE DEF blocks
  <2>2. PICK g \in [0..Len(blocks) -> Nat] :
           /\ g[0] = ch.m_size /\ \A k \in 1..Len(blocks) : g[k] = g[k - 1] + blocks[k].m_length
           /\ B!Counted(ch.m_size, blocks) = g[Len(blocks)]
    BY <1>4, <2>1, CountedRun
  <2>3. g[1] = g[0] + b.m_length
    BY <2>1, <2>2
  <2>4. now.m_size = ch.m_size + b.m_length
    BY <1>3, <2>1, <2>2, <2>3 DEF blocks
  <2> HIDE DEF now
  <2> QED
    BY <1>1, <2>4, CatFacts DEF InForm
<1> HIDE DEF now
<1>6. B!FlattenSeq(BytesOf(now.m_chain)) = bytes \o b.bytes
  <2> DEFINE ss == BytesOf(ch.m_chain)
             tt == BytesOf(now.m_chain)
  <2>0. now.m_chain \in Seq(Blocks)
    BY <1>3, ChainParts
  <2>1. ss \in Seq(Seq(Nat)) /\ Len(ss) = n /\ \A i \in 1..n : ss[i] = ch.m_chain[i].bytes
    BY <1>4, BytesType
  <2>2. tt \in Seq(Seq(Nat)) /\ Len(tt) = n + 1 /\ \A i \in 1..(n + 1) : tt[i] = now.m_chain[i].bytes
    BY <1>3, <2>0, BytesType
  <2>3. tt[n + 1] = b.bytes /\ \A k \in 1..n : tt[k] = ss[k]
    <3>1. n + 1 \in 1..(n + 1) /\ \A k \in 1..n : k \in 1..(n + 1)
      BY <1>4
    <3> HIDE DEF tt, ss, n
    <3>2. tt[n + 1] = b.bytes
      BY <1>3, <2>2, <3>1
    <3>3. \A k \in 1..n : tt[k] = ss[k]
      BY ZenonT(60), <1>3, <2>1, <2>2, <3>1
    <3> QED
      BY <3>2, <3>3
  <2> HIDE DEF ss, tt, n
  <2>4. B!FlattenSeq(tt) = B!FlattenSeq(ss) \o b.bytes
    BY <1>1, <2>1, <2>2, <2>3, FlatMore
  <2> QED
    BY <2>4 DEF ss, tt, InForm
<1>7. \A i \in 1..Len(now.m_chain) : now.m_asio_chain[i] = B!ConstBuffer(now.m_chain[i])
  <2> SUFFICES ASSUME NEW i \in 1..Len(now.m_chain) PROVE now.m_asio_chain[i] = B!ConstBuffer(now.m_chain[i])
    OBVIOUS
  <2>1. CASE i = n + 1
    BY <1>3, <1>4, <2>1
  <2>2. CASE i \in 1..n
    BY <1>3, <1>4, <2>2 DEF InForm
  <2> QED
    BY <1>3, <1>4, <2>1, <2>2
<1> QED
  BY <1>3, <1>4, <1>5, <1>6, <1>7 DEF InForm, now

\* A chain made of one new block.
LEMMA MadeInForm ==
  ASSUME NEW cap \in Nat, NEW bytes \in Seq(Nat), cap <= MaxSize, Len(bytes) <= MaxSize
  PROVE  LET now == B!PushedBack(B!EmptyChain, <<B!Made(cap, bytes)>>) IN ChainOf(now) /\ InForm(now, bytes)
<1> DEFINE b == B!Made(cap, bytes)
           e == B!EmptyChain
           none == <<>>
<1>1. Whole(b) /\ b.bytes = bytes
  BY MadeWhole
<1>2. ChainOf(e) /\ InForm(e, none) /\ none \in Seq(Nat) /\ none \o bytes = bytes
  BY EmptyInForm, CatFacts
<1> HIDE DEF b, e, none
<1>3. ChainOf(B!PushedBack(e, <<b>>)) /\ InForm(B!PushedBack(e, <<b>>), none \o b.bytes)
  BY <1>1, <1>2, PushOne
<1> QED
  BY <1>1, <1>2, <1>3 DEF b, e

\* The copies of blocks have their bytes.
LEMMA CopiesWhole ==
  ASSUME NEW ch, ChainOf(ch)
  PROVE  /\ B!Copies(ch) \in Seq(Blocks) /\ Len(B!Copies(ch)) = Len(ch.m_chain)
         /\ \A i \in 1..Len(ch.m_chain) : Whole(B!Copies(ch)[i]) /\ B!Copies(ch)[i].bytes = ch.m_chain[i].bytes
<1> DEFINE copy(i) == B!Made(ch.m_chain[i].m_capacity, B!data(ch.m_chain[i]))
<1>1. Len(ch.m_chain) \in Nat /\ DOMAIN ch.m_chain = 1..Len(ch.m_chain)
  BY ChainParts
<1>2. ASSUME NEW i \in 1..Len(ch.m_chain) PROVE Whole(copy(i)) /\ copy(i).bytes = ch.m_chain[i].bytes /\ copy(i) \in Blocks
  <2> DEFINE b == ch.m_chain[i]
  <2>1. Whole(b)
    BY DEF ChainOf
  <2> HIDE DEF b
  <2>2. /\ B!data(b) = b.bytes /\ b.bytes \in Seq(Nat) /\ Len(b.bytes) <= MaxSize
        /\ b.m_capacity \in Nat /\ b.m_capacity <= MaxSize
    BY <2>1, WholeRead
  <2>3. Whole(B!Made(b.m_capacity, B!data(b))) /\ B!Made(b.m_capacity, B!data(b)).bytes = b.bytes
    BY <2>2, MadeWhole
  <2> QED
    BY <2>3 DEF b, Whole
<1> HIDE DEF copy
<1>3. B!Copies(ch) = [i \in 1..Len(ch.m_chain) |-> copy(i)]
  BY <1>1 DEF B!Copies, copy
<1> QED
  BY <1>1, <1>2, <1>3

\* A copy of a chain in form.
LEMMA CopyInForm ==
  ASSUME NEW ch, NEW bytes \in Seq(Nat), ChainOf(ch), InForm(ch, bytes)
  PROVE  InForm(B!PushedBack(B!EmptyChain, B!Copies(ch)), bytes)
<1> DEFINE blocks == B!Copies(ch)
           e == B!EmptyChain
           now == B!PushedBack(e, blocks)
           n == Len(ch.m_chain)
<1>0. ch.m_chain \in Seq(Blocks) /\ n \in Nat
  BY ChainParts
<1>1. /\ blocks \in Seq(Blocks) /\ Len(blocks) = n
      /\ \A i \in 1..n : Whole(blocks[i]) /\ blocks[i].bytes = ch.m_chain[i].bytes
  BY CopiesWhole
<1>2. ChainOf(e) /\ e.m_chain = <<>> /\ e.m_asio_chain = <<>> /\ e.m_size = 0
      /\ Len(e.m_chain) = 0 /\ Len(e.m_asio_chain) = 0
  BY EmptyInForm DEF B!EmptyChain
<1> HIDE DEF blocks, e
<1>3. /\ ChainOf(now) /\ now.m_size = B!Counted(e.m_size, blocks)
      /\ Len(now.m_chain) = 0 + n /\ Len(now.m_asio_chain) = 0 + n
      /\ \A i \in 1..n : now.m_chain[0 + i] = blocks[i] /\ now.m_asio_chain[0 + i] = B!ConstBuffer(blocks[i])
  <2>1. \A i \in 1..Len(blocks) : Whole(blocks[i])
    BY <1>1
  <2>2. LET w == B!PushedBack(e, blocks)
        IN  /\ ChainOf(w) /\ w.m_chain = e.m_chain \o blocks /\ w.m_size = B!Counted(e.m_size, blocks)
            /\ Len(w.m_chain) = Len(e.m_chain) + Len(blocks)
            /\ Len(w.m_asio_chain) = Len(e.m_asio_chain) + Len(blocks)
            /\ \A i \in 1..Len(e.m_chain) : w.m_chain[i] = e.m_chain[i]
            /\ \A i \in 1..Len(blocks) : w.m_chain[Len(e.m_chain) + i] = blocks[i]
            /\ \A i \in 1..Len(e.m_asio_chain) : w.m_asio_chain[i] = e.m_asio_chain[i]
            /\ \A i \in 1..Len(blocks) : w.m_asio_chain[Len(e.m_asio_chain) + i] = B!ConstBuffer(blocks[i])
    BY <1>1, <1>2, <2>1, PushedParts
  <2>3. /\ ChainOf(now) /\ now.m_size = B!Counted(e.m_size, blocks)
        /\ Len(now.m_chain) = Len(e.m_chain) + Len(blocks)
        /\ Len(now.m_asio_chain) = Len(e.m_asio_chain) + Len(blocks)
        /\ \A i \in 1..Len(blocks) : /\ now.m_chain[Len(e.m_chain) + i] = blocks[i]
                                     /\ now.m_asio_chain[Len(e.m_asio_chain) + i] = B!ConstBuffer(blocks[i])
    BY <2>2
  <2> HIDE DEF now, n
  <2> QED
    BY <1>1, <1>2, <2>3
<1> HIDE DEF now
<1>4. /\ Len(now.m_chain) = n /\ Len(now.m_asio_chain) = n
      /\ \A i \in 1..n : now.m_chain[i] = blocks[i] /\ now.m_asio_chain[i] = B!ConstBuffer(blocks[i])
  BY <1>0, <1>3
<1>5. BytesOf(now.m_chain) = BytesOf(ch.m_chain)
  BY <1>1, <1>4 DEF BytesOf
<1>6. now.m_size = Len(bytes)
  <2> DEFINE ss == BytesOf(ch.m_chain)
  <2>1. ss \in Seq(Seq(Nat)) /\ Len(ss) = n /\ \A i \in 1..n : ss[i] = ch.m_chain[i].bytes
    BY <1>0, BytesType
  <2> HIDE DEF ss
  <2>2. PICK f : Joined(f, ss, n) /\ B!FlattenSeq(ss) = f[n]
    BY <2>1, FlatJoined
  <2>3. PICK g \in [0..n -> Nat] :
           /\ g[0] = 0 /\ \A k \in 1..n : g[k] = g[k - 1] + blocks[k].m_length
           /\ B!Counted(0, blocks) = g[n]
    <3> HIDE DEF n
    <3>1. 0 \in Nat
      OBVIOUS
    <3> QED
      BY <1>1, <3>1, CountedRun
  <2> HIDE DEF n
  <2> DEFINE P == {k \in 0..n : g[k] = Len(f[k])}
  <2>4. 0 \in P
    BY <1>0, <2>2, <2>3 DEF Joined
  <2>5. ASSUME NEW k \in 1..n, k - 1 \in P PROVE k \in P
    <3>1. k \in 0..n /\ k - 1 \in 0..n
      BY <1>0
    <3>2. f[k] = f[k - 1] \o ss[k] /\ f[k - 1] \in Seq(Nat)
      BY <2>2, <3>1 DEF Joined
    <3>5. ss[k] \in Seq(Nat)
      <4>1. k \in 1..Len(ss)
        BY <2>1
      <4> QED
        BY <2>1, <4>1
    <3>3. Len(f[k]) = Len(f[k - 1]) + Len(ss[k])
      BY <3>2, <3>5, CatFacts
    <3>4. blocks[k].m_length = Len(ss[k])
      BY <1>1, <2>1 DEF Whole, n
    <3> QED
      BY <2>3, <2>5, <3>1, <3>3, <3>4
  <2> HIDE DEF P
  <2>6. \A k \in 0..n : k \in P
    BY <1>0, <2>4, <2>5, UpTo
  <2>7. g[n] = Len(f[n])
    BY <1>0, <2>6 DEF P
  <2>8. f[n] = bytes
    BY <2>2 DEF ss, InForm
  <2> QED
    BY <1>2, <1>3, <2>3, <2>7, <2>8
<1> QED
  BY <1>4, <1>5, <1>6 DEF InForm, now, e, blocks

\* Bytes that fit the last block.
LEMMA LastInForm ==
  ASSUME NEW ch, NEW bytes \in Seq(Nat), NEW x \in Seq(Nat), ChainOf(ch), InForm(ch, bytes), B!FitsLast(ch, Len(x))
  PROVE  ChainOf(B!AppendToLast(ch, x)) /\ InForm(B!AppendToLast(ch, x), bytes \o x)
<1> DEFINE n == Len(ch.m_chain)
           old == ch.m_chain[n]
           b == B!Appended(old, x)
           now == B!AppendToLast(ch, x)
           blocks == [ch.m_chain EXCEPT ![n] = b]
           entries == [ch.m_asio_chain EXCEPT ![n] = B!ConstBuffer(b)]
<1>1. /\ ch.m_chain \in Seq(Blocks) /\ ch.m_asio_chain \in Seq(AsioBuffers) /\ ch.m_size \in Nat
      /\ n \in Nat /\ Len(ch.m_asio_chain) = n
  BY ChainParts DEF InForm
<1>2. ch.m_chain # <<>> /\ old.m_capacity - old.m_length >= Len(x)
  BY DEF B!FitsLast, B!Last
<1>3. n > 0 /\ n \in 1..n
  BY <1>1, <1>2
<1>4. Whole(old)
  BY <1>3 DEF ChainOf
<1>5. Len(old.bytes) + Len(x) <= MaxSize
  <2>1. /\ old.m_length = Len(old.bytes) /\ old.m_capacity <= MaxSize /\ old.m_capacity \in Nat /\ Len(old.bytes) \in Nat
    BY <1>4, WholeRead DEF Whole
  <2>2. Len(x) \in Nat
    OBVIOUS
  <2> HIDE DEF old
  <2> QED
    BY <1>2, <2>1, <2>2, BuffersAssumption
<1>6. Whole(b) /\ b.bytes = old.bytes \o x
  <2> HIDE DEF old
  <2> QED
    BY <1>4, <1>5, AppendedWhole
<1>7. now = [m_chain |-> blocks, m_asio_chain |-> entries, m_size |-> ch.m_size + Len(x)]
  <2>1. now = [ch EXCEPT !.m_chain = blocks, !.m_size = ch.m_size + Len(x), !.m_asio_chain = entries]
    BY <1>1, Zenon DEF B!AppendToLast, B!Last
  <2>2. ch = [m_chain |-> ch.m_chain, m_asio_chain |-> ch.m_asio_chain, m_size |-> ch.m_size]
    BY DEF ChainOf, ChainType
  <2> HIDE DEF now, blocks, entries
  <2> QED
    BY <2>1, <2>2
<1>8. b \in Blocks /\ B!ConstBuffer(b) \in AsioBuffers
  <2>1. b \in Blocks
    BY <1>6 DEF Whole
  <2>2. b.mem \in Nat /\ b.m_length \in Nat
    BY <2>1 DEF Blocks
  <2> QED
    BY <2>1, <2>2 DEF AsioBuffers, B!ConstBuffer
<1> HIDE DEF b, old
<1>9. /\ blocks \in Seq(Blocks) /\ Len(blocks) = n /\ blocks[n] = b
      /\ \A i \in 1..n : i # n => blocks[i] = ch.m_chain[i]
  BY <1>1, <1>3, <1>8
<1>10. /\ entries \in Seq(AsioBuffers) /\ Len(entries) = n /\ entries[n] = B!ConstBuffer(b)
       /\ \A i \in 1..n : i # n => entries[i] = ch.m_asio_chain[i]
  BY <1>1, <1>3, <1>8
<1> HIDE DEF now, blocks, entries
<1>11. /\ now \in ChainType /\ now.m_chain = blocks /\ now.m_asio_chain = entries /\ now.m_size = ch.m_size + Len(x)
  BY <1>1, <1>7, <1>9, <1>10 DEF ChainType
<1>12. \A i \in 1..n : Whole(blocks[i])
  BY <1>6, <1>9 DEF ChainOf
<1>13. now.m_size = Len(bytes \o x)
  BY <1>11, CatFacts DEF InForm
<1>14. B!FlattenSeq(BytesOf(blocks)) = bytes \o x
  <2> DEFINE ss == BytesOf(ch.m_chain)
             tt == BytesOf(blocks)
  <2>1. ss \in Seq(Seq(Nat)) /\ Len(ss) = n /\ \A i \in 1..n : ss[i] = ch.m_chain[i].bytes
    BY <1>1, BytesType
  <2>2. tt \in Seq(Seq(Nat)) /\ Len(tt) = n /\ \A i \in 1..n : tt[i] = blocks[i].bytes
    BY <1>9, BytesType
  <2>3. tt[n] = ss[n] \o x
    BY <1>3, <1>6, <1>9, <2>1, <2>2 DEF old
  <2>4. \A k \in 1..(n - 1) : k \in 1..n /\ k # n
    BY <1>1
  <2>5. \A k \in 1..(n - 1) : tt[k] = ss[k]
    BY <1>9, <2>1, <2>2, <2>4
  <2> HIDE DEF ss, tt, n
  <2>6. /\ Len(tt) = Len(ss) /\ Len(ss) > 0 /\ tt[Len(ss)] = ss[Len(ss)] \o x
        /\ \A k \in 1..(Len(ss) - 1) : tt[k] = ss[k]
    BY <1>3, <2>1, <2>2, <2>3, <2>5
  <2>7. B!FlattenSeq(tt) = B!FlattenSeq(ss) \o x
    BY <2>1, <2>2, <2>6, FlatMore
  <2> QED
    BY <2>7 DEF ss, tt, InForm
<1>15. \A i \in 1..n : entries[i] = B!ConstBuffer(blocks[i])
  BY <1>9, <1>10 DEF InForm
<1> QED
  BY <1>9, <1>10, <1>11, <1>12, <1>13, <1>14, <1>15 DEF ChainOf, InForm, now

\* Every chain is made of whole blocks, and one that no assignment operator
\* touched has the bytes it was given in each of its forms.
BufferInv ==
  /\ put \in Nat /\ DOMAIN chain = Chains /\ content \in [Chains -> Seq(Nat)]
  /\ \A c \in Chains : ChainOf(chain[c])
  /\ \A c \in Chains : c \notin assigned => InForm(chain[c], content[c])

\* One chain is changed.
LEMMA OneChanged ==
  ASSUME BufferInv, NEW c \in Chains, NEW ch, NEW bytes \in Seq(Nat), ChainOf(ch), put' \in Nat,
         chain' = [chain EXCEPT ![c] = ch], content' = [content EXCEPT ![c] = bytes],
         \A d \in Chains : d # c /\ d \notin assigned' => d \notin assigned,
         c \notin assigned' => InForm(ch, bytes)
  PROVE  BufferInv'
<1>1. DOMAIN chain' = Chains /\ content' \in [Chains -> Seq(Nat)]
  BY DEF BufferInv
<1>2. chain'[c] = ch /\ content'[c] = bytes
      /\ \A d \in Chains : d # c => chain'[d] = chain[d] /\ content'[d] = content[d]
  BY DEF BufferInv
<1>3. ASSUME NEW d \in Chains PROVE ChainOf(chain'[d]) /\ (d \notin assigned' => InForm(chain'[d], content'[d]))
  <2>1. CASE d = c
    BY <1>2, <2>1
  <2>2. CASE d # c
    BY <1>2, <2>2 DEF BufferInv
  <2> QED
    BY <2>1, <2>2
<1> QED
  BY <1>1, <1>3 DEF BufferInv, ChainOf, InForm

\* The bytes an operation is given.
LEMMA GivenBytes ==
  ASSUME NEW n \in 1..MaxBytes, put \in Nat
  PROVE  B!Given(n) \in Seq(Nat) /\ Len(B!Given(n)) = n /\ n \in Nat
<1>1. n \in Nat /\ \A i \in 1..n : put + i \in Nat
  BY BuffersAssumption
<1> QED
  BY <1>1 DEF B!Given

\* append(), to the last block or in one of its own.
LEMMA AppendKeeps ==
  ASSUME BufferInv, NEW c \in Chains, NEW n \in 1..MaxBytes, B!AppendBytes(c, n)
  PROVE  BufferInv'
<1> DEFINE x == B!Given(n)
           ch == chain[c]
           bytes == content[c]
<1>1. x \in Seq(Nat) /\ Len(x) = n /\ n \in Nat
  BY GivenBytes DEF BufferInv
<1>2. /\ c \notin assigned /\ put' = put + n /\ assigned' = assigned /\ content' = [content EXCEPT ![c] = bytes \o x]
      /\ \/ B!FitsLast(ch, n) /\ chain' = [chain EXCEPT ![c] = B!AppendToLast(ch, x)]
         \/ /\ ~B!Refused(B!Required(n))
            /\ chain' = [chain EXCEPT ![c] = B!PushedBack(ch, <<B!Made(B!Required(n), x)>>)]
  BY DEF B!AppendBytes, B!Usable
<1>3. ChainOf(ch) /\ InForm(ch, bytes) /\ bytes \in Seq(Nat) /\ put' \in Nat /\ bytes \o x \in Seq(Nat)
  BY <1>1, <1>2, CatFacts DEF BufferInv
<1> HIDE DEF x, ch, bytes
<1>4. CASE B!FitsLast(ch, n) /\ chain' = [chain EXCEPT ![c] = B!AppendToLast(ch, x)]
  <2>1. ChainOf(B!AppendToLast(ch, x)) /\ InForm(B!AppendToLast(ch, x), bytes \o x)
    BY <1>1, <1>3, <1>4, LastInForm
  <2> QED
    BY <1>2, <1>3, <1>4, <2>1, OneChanged
<1>5. CASE ~B!Refused(B!Required(n)) /\ chain' = [chain EXCEPT ![c] = B!PushedBack(ch, <<B!Made(B!Required(n), x)>>)]
  <2> DEFINE b == B!Made(B!Required(n), x)
  <2>1. B!Required(n) \in Nat /\ B!Required(n) <= MaxSize /\ n <= B!Required(n)
    BY <1>1, <1>5, BuffersAssumption DEF B!Required, B!Refused
  <2>2. Len(x) <= MaxSize
    BY <1>1, <2>1, BuffersAssumption
  <2>3. Whole(b) /\ b.bytes = x
    BY <1>1, <2>1, <2>2, MadeWhole
  <2> HIDE DEF b
  <2>4. ChainOf(B!PushedBack(ch, <<b>>)) /\ InForm(B!PushedBack(ch, <<b>>), bytes \o x)
    BY <1>3, <2>3, PushOne
  <2>5. chain' = [chain EXCEPT ![c] = B!PushedBack(ch, <<b>>)]
    BY <1>5 DEF b
  <2> QED
    BY <1>2, <1>3, <2>4, <2>5, OneChanged
<1> QED
  BY <1>2, <1>4, <1>5

\* A chain made of a string, and one that is cleared.
LEMMA StringKeeps ==
  ASSUME BufferInv, NEW c \in Chains, NEW n \in 1..MaxBytes, ~B!Refused(n),
         chain' = [chain EXCEPT ![c] = B!PushedBack(B!EmptyChain, <<B!Made(n, B!Given(n))>>)],
         put' = put + n, content' = [content EXCEPT ![c] = B!Given(n)], assigned' = assigned \ {c}
  PROVE  BufferInv'
<1> DEFINE x == B!Given(n)
           now == B!PushedBack(B!EmptyChain, <<B!Made(n, x)>>)
<1>1. x \in Seq(Nat) /\ Len(x) = n /\ n \in Nat
  BY GivenBytes DEF BufferInv
<1>2. n <= MaxSize /\ put' \in Nat
  BY <1>1, BuffersAssumption DEF B!Refused, BufferInv
<1>3. ChainOf(now) /\ InForm(now, x)
  <2> HIDE DEF x
  <2> QED
    BY <1>1, <1>2, MadeInForm
<1> HIDE DEF now, x
<1>4. chain' = [chain EXCEPT ![c] = now] /\ content' = [content EXCEPT ![c] = x]
  BY DEF now, x
<1> QED
  BY <1>1, <1>2, <1>3, <1>4, OneChanged

LEMMA ClearedKeeps ==
  ASSUME BufferInv, NEW c \in Chains, B!clear(c)
  PROVE  BufferInv'
<1> DEFINE e == B!EmptyChain
           none == <<>>
<1>1. /\ chain' = [chain EXCEPT ![c] = e] /\ content' = [content EXCEPT ![c] = none]
      /\ assigned' = assigned \ {c} /\ put' = put
  BY DEF B!clear
<1>2. ChainOf(e) /\ InForm(e, none) /\ none \in Seq(Nat)
  BY EmptyInForm
<1>3. put' \in Nat
  BY <1>1 DEF BufferInv
<1> HIDE DEF e, none
<1> QED
  BY <1>1, <1>2, <1>3, OneChanged

\* amalgamate, and a chain of the block it makes.
LEMMA AmalgamKeeps ==
  ASSUME BufferInv, NEW c \in Chains, NEW d \in Chains, B!amalgamate(c, d), ~B!Ends
  PROVE  BufferInv'
<1> DEFINE bytes == B!Amalgamated(chain[c])
           size == chain[c].m_size
           now == B!PushedBack(B!EmptyChain, <<B!Made(size, bytes)>>)
<1>1. /\ c \notin assigned /\ ~B!Refused(Len(bytes)) /\ chain' = [chain EXCEPT ![d] = now] /\ put' = put
      /\ B!Passes(c, d, TRUE)
  BY DEF B!amalgamate, B!Usable
<1>2. ChainOf(chain[c]) /\ InForm(chain[c], content[c]) /\ content[c] \in Seq(Nat) /\ put' \in Nat
  BY <1>1 DEF BufferInv
<1>3. bytes = content[c]
  BY <1>2, FormRead
<1>4. bytes \in Seq(Nat) /\ size = Len(bytes) /\ size \in Nat /\ Len(bytes) <= MaxSize
  <2> HIDE DEF bytes
  <2>1. bytes \in Seq(Nat) /\ size = Len(bytes)
    BY <1>2, <1>3 DEF InForm
  <2>2. Len(bytes) \in Nat /\ ~(Len(bytes) > MaxSize)
    BY <1>1, <2>1 DEF B!Refused
  <2> QED
    BY <2>1, <2>2, BuffersAssumption
<1> HIDE DEF bytes, size
<1>5. ChainOf(now) /\ InForm(now, bytes)
  BY <1>4, MadeInForm
<1>6. content' = [content EXCEPT ![d] = bytes] /\ assigned' = assigned \ {d}
  BY <1>1, <1>3 DEF B!Passes
<1> HIDE DEF now
<1> QED
  BY <1>1, <1>2, <1>4, <1>5, <1>6, OneChanged

\* A deep copy, into an empty chain or behind what is there.
LEMMA CopyKeeps ==
  ASSUME BufferInv, NEW c \in Chains, NEW d \in Chains, NEW base, ChainOf(base), B!CopyInto(c, d, base), ~B!Ends
  PROVE  BufferInv'
<1> DEFINE blocks == B!Copies(chain[c])
           now == B!PushedBack(base, blocks)
           known == base = B!EmptyChain
           bytes == IF known THEN content[c] ELSE <<>>
<1>1. /\ c \notin assigned /\ chain' = [chain EXCEPT ![d] = now] /\ put' = put /\ B!Passes(c, d, known)
  BY DEF B!CopyInto, B!Usable
<1>2. ChainOf(chain[c]) /\ InForm(chain[c], content[c]) /\ content[c] \in Seq(Nat) /\ put' \in Nat
  BY <1>1 DEF BufferInv
<1>3. blocks \in Seq(Blocks) /\ \A i \in 1..Len(blocks) : Whole(blocks[i])
  BY <1>2, CopiesWhole
<1>4. ChainOf(now)
  <2> HIDE DEF blocks
  <2> QED
    BY <1>3, PushedParts
<1>5. known => InForm(now, content[c])
  BY <1>2, CopyInForm
<1>6. /\ content' = [content EXCEPT ![d] = bytes] /\ bytes \in Seq(Nat)
      /\ assigned' = IF known THEN assigned \ {d} ELSE assigned \cup {d}
  BY <1>1, <1>2 DEF B!Passes
<1>7. d \notin assigned' => InForm(now, bytes)
  BY <1>5, <1>6
<1>8. \A f \in Chains : f # d /\ f \notin assigned' => f \notin assigned
  BY <1>6
<1> HIDE DEF now, bytes
<1> QED
  BY <1>1, <1>2, <1>4, <1>6, <1>7, <1>8, OneChanged

\* The moves.
LEMMA MoveKeeps ==
  ASSUME BufferInv, NEW c \in Chains, NEW d \in Chains, B!MoveConstruct(c, d) \/ B!MoveAssign(c, d)
  PROVE  BufferInv'
<1>0. ChainOf(chain[c]) /\ ChainOf(chain[d]) /\ content[c] \in Seq(Nat) /\ DOMAIN chain = Chains
      /\ content \in [Chains -> Seq(Nat)] /\ put \in Nat
  BY DEF BufferInv
<1>1. CASE B!MoveConstruct(c, d)
  <2> DEFINE e == B!EmptyChain
             none == <<>>
  <2>1. /\ c \notin assigned /\ c # d /\ put' = put /\ assigned' = assigned \ {d}
        /\ chain' = [chain EXCEPT ![d] = chain[c], ![c] = e]
        /\ content' = [content EXCEPT ![d] = content[c], ![c] = none]
    BY <1>1 DEF B!MoveConstruct, B!Usable
  <2>2. ChainOf(e) /\ InForm(e, none) /\ none \in Seq(Nat) /\ InForm(chain[c], content[c])
    BY <2>1, EmptyInForm DEF BufferInv
  <2> HIDE DEF e, none
  <2>3. /\ DOMAIN chain' = Chains /\ content' \in [Chains -> Seq(Nat)]
        /\ chain'[c] = e /\ chain'[d] = chain[c] /\ content'[c] = none /\ content'[d] = content[c]
        /\ \A f \in Chains : f # c /\ f # d => chain'[f] = chain[f] /\ content'[f] = content[f]
    BY <1>0, <2>1, <2>2
  <2>4. ASSUME NEW f \in Chains PROVE ChainOf(chain'[f]) /\ (f \notin assigned' => InForm(chain'[f], content'[f]))
    <3>1. CASE f = c
      BY <2>2, <2>3, <3>1
    <3>2. CASE f = d
      BY <1>0, <2>2, <2>3, <3>2
    <3>3. CASE f # c /\ f # d
      BY <2>1, <2>3, <3>3 DEF BufferInv
    <3> QED
      BY <3>1, <3>2, <3>3
  <2> QED
    BY <1>0, <2>1, <2>3, <2>4 DEF BufferInv, ChainOf, InForm
<1>2. CASE B!MoveAssign(c, d)
  <2> DEFINE x == [chain[c] EXCEPT !.m_chain = chain[d].m_chain, !.m_size = chain[d].m_size]
             y == [chain[d] EXCEPT !.m_chain = chain[c].m_chain, !.m_size = chain[c].m_size]
             none == <<>>
  <2>1. /\ c # d /\ put' = put /\ assigned' = assigned \cup {c, d}
        /\ content' = [content EXCEPT ![c] = none, ![d] = none]
    BY <1>2 DEF B!MoveAssign, B!Usable
  <2>2. chain' = [chain EXCEPT ![c] = x, ![d] = y]
    BY <1>2, <2>1, Zenon DEF B!MoveAssign
  <2>3. ChainOf(x) /\ ChainOf(y)
    <3>1. /\ chain[c] = [m_chain |-> chain[c].m_chain, m_asio_chain |-> chain[c].m_asio_chain, m_size |-> chain[c].m_size]
          /\ chain[d] = [m_chain |-> chain[d].m_chain, m_asio_chain |-> chain[d].m_asio_chain, m_size |-> chain[d].m_size]
      BY <1>0 DEF ChainOf, ChainType
    <3>2. /\ x = [m_chain |-> chain[d].m_chain, m_asio_chain |-> chain[c].m_asio_chain, m_size |-> chain[d].m_size]
          /\ y = [m_chain |-> chain[c].m_chain, m_asio_chain |-> chain[d].m_asio_chain, m_size |-> chain[c].m_size]
      <4> DEFINE a == chain[c]
                 b == chain[d]
      <4>1. /\ x = [a EXCEPT !.m_chain = b.m_chain, !.m_size = b.m_size]
            /\ y = [b EXCEPT !.m_chain = a.m_chain, !.m_size = a.m_size]
            /\ a = [m_chain |-> a.m_chain, m_asio_chain |-> a.m_asio_chain, m_size |-> a.m_size]
            /\ b = [m_chain |-> b.m_chain, m_asio_chain |-> b.m_asio_chain, m_size |-> b.m_size]
        BY <3>1, Zenon
      <4> HIDE DEF a, b, x, y
      <4>2. /\ x = [m_chain |-> b.m_chain, m_asio_chain |-> a.m_asio_chain, m_size |-> b.m_size]
            /\ y = [m_chain |-> a.m_chain, m_asio_chain |-> b.m_asio_chain, m_size |-> a.m_size]
        BY <4>1
      <4> QED
        BY <4>2 DEF a, b
    <3> HIDE DEF x, y
    <3>3. x \in ChainType /\ y \in ChainType
      BY <1>0, <3>2, ChainParts DEF ChainType
    <3> QED
      BY <1>0, <3>2, <3>3 DEF ChainOf
  <2>4. none \in Seq(Nat)
    OBVIOUS
  <2> HIDE DEF x, y, none
  <2>5. /\ DOMAIN chain' = Chains /\ content' \in [Chains -> Seq(Nat)]
        /\ chain'[c] = x /\ chain'[d] = y
        /\ \A f \in Chains : f # c /\ f # d => chain'[f] = chain[f] /\ content'[f] = content[f]
    BY <1>0, <2>1, <2>2, <2>4
  <2>6. ASSUME NEW f \in Chains PROVE ChainOf(chain'[f]) /\ (f \notin assigned' => InForm(chain'[f], content'[f]))
    <3>1. CASE f = c \/ f = d
      BY <2>1, <2>3, <2>5, <3>1
    <3>2. CASE f # c /\ f # d
      BY <2>1, <2>5, <3>2 DEF BufferInv
    <3> QED
      BY <3>1, <3>2
  <2> QED
    BY <1>0, <2>1, <2>5, <2>6 DEF BufferInv, ChainOf, InForm
<1> QED
  BY <1>1, <1>2

\* Every operation on chains keeps the invariant.
LEMMA BufferStep ==
  ASSUME BufferInv, [B!Next]_B!buffers
  PROVE  BufferInv'
<1>1. ASSUME UNCHANGED <<chain, put, content, assigned>> PROVE BufferInv'
  BY <1>1 DEF BufferInv, ChainOf, InForm
<1>2. B!Ends => BufferInv'
  BY <1>1 DEF B!Ends
<1>3. ASSUME NEW c \in Chains, NEW n \in 1..MaxBytes, B!AppendEnds(c, n) PROVE BufferInv'
  BY <1>2, <1>3 DEF B!AppendEnds
<1>4. ASSUME NEW c \in Chains, NEW n \in 1..MaxBytes, B!FromString(c, n) PROVE BufferInv'
  BY <1>2, <1>4, StringKeeps DEF B!FromString
<1>5. ASSUME NEW c \in Chains, NEW d \in Chains, B!CopyAssign(c, d) PROVE BufferInv'
  <2> DEFINE base == [chain[d] EXCEPT !.m_size = 0]
  <2>1. B!CopyInto(c, d, base)
    BY <1>5 DEF B!CopyAssign
  <2>2. ChainOf(base)
    <3>0. ChainOf(chain[d])
      BY DEF BufferInv
    <3>1. chain[d] = [m_chain |-> chain[d].m_chain, m_asio_chain |-> chain[d].m_asio_chain, m_size |-> chain[d].m_size]
      BY <3>0 DEF ChainOf, ChainType
    <3>2. base = [m_chain |-> chain[d].m_chain, m_asio_chain |-> chain[d].m_asio_chain, m_size |-> 0]
      BY <3>1
    <3> HIDE DEF base
    <3>3. base \in ChainType
      BY <3>0, <3>2, ChainParts DEF ChainType
    <3> QED
      BY <3>0, <3>2, <3>3 DEF ChainOf
  <2> HIDE DEF base
  <2> QED
    BY <1>2, <2>1, <2>2, CopyKeeps
<1>6. ASSUME NEW c \in Chains, NEW d \in Chains, B!CopyConstruct(c, d) PROVE BufferInv'
  BY <1>2, <1>6, EmptyInForm, CopyKeeps DEF B!CopyConstruct
<1>7. ASSUME NEW c \in Chains, NEW d \in Chains, B!amalgamate(c, d) PROVE BufferInv'
  BY <1>2, <1>7, AmalgamKeeps
<1>8. UNCHANGED B!buffers => BufferInv'
  BY <1>1 DEF B!buffers
<1> QED
  BY <1>3, <1>4, <1>5, <1>6, <1>7, <1>8, AppendKeeps, ClearedKeeps, MoveKeeps DEF B!Next

LEMMA BufferStarts ==
  ASSUME B!Init
  PROVE  BufferInv
<1>1. chain = [c \in Chains |-> B!EmptyChain] /\ content = [c \in Chains |-> <<>>] /\ put = 0
  BY DEF B!Init
<1>2. \A c \in Chains : ChainOf(chain[c]) /\ InForm(chain[c], content[c])
  BY <1>1, EmptyInForm
<1>3. content \in [Chains -> Seq(Nat)] /\ DOMAIN chain = Chains
  BY <1>1
<1> QED
  BY <1>1, <1>2, <1>3 DEF BufferInv

\* The invariant is enough.
LEMMA BufferHolds ==
  ASSUME BufferInv
  PROVE  B!ChainHolds
<1> SUFFICES ASSUME NEW c \in Chains
             PROVE  /\ \A i \in DOMAIN chain[c].m_chain :
                         /\ chain[c].m_chain[i].m_length <= chain[c].m_chain[i].m_capacity
                         /\ ~B!Refused(chain[c].m_chain[i].m_capacity)
                    /\ c \notin assigned =>
                         /\ chain[c].m_size = Len(content[c])
                         /\ B!to_string(chain[c]) = content[c] /\ B!Amalgamated(chain[c]) = content[c]
                         /\ Len(chain[c].m_asio_chain) = Len(chain[c].m_chain)
                         /\ \A i \in DOMAIN chain[c].m_chain :
                              chain[c].m_asio_chain[i].mem = chain[c].m_chain[i].mem
                         /\ B!asio_buffer_sequence(chain[c]) = content[c]
  BY DEF B!ChainHolds
<1> DEFINE ch == chain[c]
<1>1. ChainOf(ch) /\ (c \notin assigned => InForm(ch, content[c]))
  BY DEF BufferInv
<1> HIDE DEF ch
<1>2. DOMAIN ch.m_chain = 1..Len(ch.m_chain)
  BY <1>1, ChainParts
<1>3. ASSUME NEW i \in 1..Len(ch.m_chain)
      PROVE  ch.m_chain[i].m_length <= ch.m_chain[i].m_capacity /\ ~B!Refused(ch.m_chain[i].m_capacity)
  <2>1. Whole(ch.m_chain[i])
    BY <1>1 DEF ChainOf
  <2>2. ch.m_chain[i].m_capacity \in Nat /\ ch.m_chain[i].m_capacity <= MaxSize
    BY <2>1, WholeRead
  <2> QED
    BY <2>1, <2>2, BuffersAssumption DEF Whole, B!Refused
<1>4. ASSUME c \notin assigned
      PROVE  /\ ch.m_size = Len(content[c])
             /\ B!to_string(ch) = content[c] /\ B!Amalgamated(ch) = content[c]
             /\ Len(ch.m_asio_chain) = Len(ch.m_chain)
             /\ \A i \in 1..Len(ch.m_chain) : ch.m_asio_chain[i].mem = ch.m_chain[i].mem
             /\ B!asio_buffer_sequence(ch) = content[c]
  <2>1. InForm(ch, content[c])
    BY <1>1, <1>4
  <2>2. ASSUME NEW i \in 1..Len(ch.m_chain) PROVE ch.m_asio_chain[i].mem = ch.m_chain[i].mem
    <3>1. ch.m_asio_chain[i] = B!ConstBuffer(ch.m_chain[i])
      BY <2>1 DEF InForm
    <3>2. B!ConstBuffer(ch.m_chain[i]).mem = ch.m_chain[i].mem
      BY DEF B!ConstBuffer
    <3> QED
      BY <3>1, <3>2
  <2>3. B!to_string(ch) = content[c] /\ B!Amalgamated(ch) = content[c] /\ B!asio_buffer_sequence(ch) = content[c]
    BY <1>1, <2>1, FormRead
  <2> QED
    BY <2>1, <2>2, <2>3 DEF InForm
<1> QED
  BY <1>2, <1>3, <1>4 DEF ch

\* ChainHolds: a chain that the constructors, append, push_back and amalgamate
\* made holds the bytes it was given, in order and once, as a string, as an
\* amalgam, as a size and as the sequence of asio buffers a Connection writes,
\* whose entries are in the memory of the blocks; for any sizes of blocks.
THEOREM ChainHoldsAlways ==
  Spec => []ChainHolds
<1> DEFINE Inv == part = "buffers" => BufferInv
<1>1. Init => Inv
  BY BufferStarts DEF Init
<1>2. Inv /\ [Next]_vars => Inv'
  <2>1. [Next]_vars /\ part' = "buffers" => part = "buffers" /\ [B!Next]_B!buffers
    BY DEF Next, vars, buffers, B!buffers
  <2> QED
    BY <2>1, BufferStep
<1>3. Inv => ChainHolds
  BY BufferHolds DEF ChainHolds
<1> QED
  BY <1>1, <1>2, <1>3, PTL DEF Spec

-----------------------------------------------------------------------------
(* Messages.                                                                *)

\* The strings a message is made of: those of the code, and the parts of the uris.
CodeStr ==
  M!Texts \cup M!Methods \cup M!Statuses \cup M!Names
    \cup {"size", "host", "unset", "-", "<unknown>", "?", "", "OK", "Forbidden", "BAD GATEWAY",
          "HOST", "CONTENT-LENGTH", "443", "80", "/"}
UriStr == UNION {{us.protocol, us.host, us.port, us.path, us.search} : us \in Urls}
Str == CodeStr \cup UriStr

FieldValue == [kind : Str, of : Seq(Str \cup Nat)]

\* A field with the name may have the value: that of Content-Length is none of
\* the texts an application sets.
Fits(name, v) ==
  name \in Str /\ v \in FieldValue /\ (name = "CONTENT-LENGTH" => v.kind \notin M!Texts)

HeaderField ==
  {f \in [key : [name : Str, upper : {TRUE}], value : FieldValue] : Fits(f.key.name, f.value)}
FieldList == Seq(HeaderField)

Message ==
  [m_is_request : BOOLEAN, m_method : Str, m_target : Seq(Str), m_status_code : Str,
   m_reason : Str, m_http_minor : {0, 1}, m_headers : FieldList, body : Nat]

WireHead ==
  [request : BOOLEAN, target : Seq(Str), reason : Str, method : Str, status : Str,
   minor : {0, 1}, fields : FieldList]

\* The strings of the code, one by one.
LEMMA StrFacts ==
  /\ \A s \in {"size", "host", "unset", "-", "<unknown>", "?", "", "OK", "Forbidden", "BAD GATEWAY",
              "HOST", "CONTENT-LENGTH", "443", "80", "/"} : s \in Str
  /\ M!Texts \subseteq Str /\ M!Methods \subseteq Str /\ M!Statuses \subseteq Str
  /\ M!Names \subseteq Str
  /\ \A us \in Urls : /\ us.protocol \in Str /\ us.host \in Str /\ us.port \in Str
                      /\ us.path \in Str /\ us.search \in Str
<1>1. CodeStr \subseteq Str /\ UriStr \subseteq Str
  BY DEF Str
<1>2. /\ \A s \in {"size", "host", "unset", "-", "<unknown>", "?", "", "OK", "Forbidden", "BAD GATEWAY",
              "HOST", "CONTENT-LENGTH", "443", "80", "/"} : s \in CodeStr
      /\ M!Texts \subseteq CodeStr /\ M!Methods \subseteq CodeStr /\ M!Statuses \subseteq CodeStr
      /\ M!Names \subseteq CodeStr
  BY DEF CodeStr
<1>3. \A us \in Urls : /\ us.protocol \in UriStr /\ us.host \in UriStr /\ us.port \in UriStr
                      /\ us.path \in UriStr /\ us.search \in UriStr
  BY DEF UriStr
<1> QED
  BY <1>1, <1>2, <1>3

\* A key is its name in upper case.
LEMMA KeyFacts ==
  /\ \A f \in HeaderField : f.key = M!Up(f.key.name) /\ Fits(f.key.name, f.value)
  /\ \A n, m : M!Up(n) = M!Up(m) => n = m
  /\ \A n, v : Fits(n, v) => M!Field(M!Up(n), v) \in HeaderField
  /\ \A n, v : M!Field(M!Up(n), v).key = M!Up(n) /\ M!Field(M!Up(n), v).value = v /\ M!Up(n).name = n
  /\ \A f \in HeaderField : M!Field(M!Up(f.key.name), f.value) = f
<1>1. \A f \in HeaderField : f.key = M!Up(f.key.name) /\ Fits(f.key.name, f.value)
  BY DEF HeaderField, M!Up, M!Spelled
<1>2. ASSUME NEW n, NEW m, M!Up(n) = M!Up(m) PROVE n = m
  <2>1. M!Up(n).name = n /\ M!Up(m).name = m
    BY DEF M!Up, M!Spelled
  <2> QED
    BY <1>2, <2>1
<1>3. ASSUME NEW n, NEW v, Fits(n, v) PROVE M!Field(M!Up(n), v) \in HeaderField
  <2>1. n \in Str /\ v \in FieldValue
    BY <1>3 DEF Fits
  <2>2. M!Field(M!Up(n), v) \in [key : [name : Str, upper : {TRUE}], value : FieldValue]
    BY <2>1 DEF M!Field, M!Up, M!Spelled
  <2>3. M!Field(M!Up(n), v).key.name = n /\ M!Field(M!Up(n), v).value = v
    BY DEF M!Field, M!Up, M!Spelled
  <2> QED
    BY <1>3, <2>2, <2>3 DEF HeaderField
<1>4. \A n, v : M!Field(M!Up(n), v).key = M!Up(n) /\ M!Field(M!Up(n), v).value = v /\ M!Up(n).name = n
  BY DEF M!Field, M!Up, M!Spelled
<1>5. ASSUME NEW f \in HeaderField PROVE M!Field(M!Up(f.key.name), f.value) = f
  <2>1. f \in [key : [name : Str, upper : {TRUE}], value : FieldValue]
    BY DEF HeaderField
  <2>2. f = [key |-> f.key, value |-> f.value]
    BY <2>1
  <2>3. M!Field(f.key, f.value) = f
    BY <2>2 DEF M!Field
  <2> QED
    BY <1>1, <2>3
<1> QED
  BY <1>1, <1>2, <1>3, <1>4, <1>5

\* Trimming changes neither the text of a value nor a size.
LEMMA TrimFacts ==
  ASSUME NEW n, NEW v, Fits(n, v)
  PROVE  Fits(n, M!Trimmed(v)) /\ M!Trimmed(v).kind = v.kind
         /\ (n = "CONTENT-LENGTH" => M!Trimmed(v) = v)
<1>1. n \in Str /\ v \in FieldValue /\ (n = "CONTENT-LENGTH" => v.kind \notin M!Texts)
  BY DEF Fits
<1>2. v.kind \in Str
  BY <1>1 DEF FieldValue
<1>3. <<0>> \in Seq(Str \cup Nat)
  OBVIOUS
<1>4. M!Value(v.kind, 0) \in FieldValue /\ M!Value(v.kind, 0).kind = v.kind
  BY <1>2, <1>3 DEF M!Value, FieldValue
<1> QED
  BY <1>1, <1>4 DEF M!Trimmed, Fits

\* find_at_index finds the first field with the key, and 0 when there is none.
LEMMA FindFirst ==
  ASSUME NEW fs \in FieldList, NEW n
  PROVE  /\ M!FindAtIndex(fs, n) \in 0..Len(fs)
         /\ M!FindAtIndex(fs, n) = 0 <=> \A i \in 1..Len(fs) : fs[i].key # M!Up(n)
         /\ M!FindAtIndex(fs, n) # 0 => fs[M!FindAtIndex(fs, n)].key = M!Up(n)
         /\ \A i \in 1..Len(fs) : fs[i].key = M!Up(n) => M!FindAtIndex(fs, n) <= i
<1> DEFINE I == {i \in 1..Len(fs) : fs[i].key = M!Up(n)}
<1>1. M!FindAtIndex(fs, n) = IF I # {} THEN M!Min(I) ELSE 0
  BY DEF M!FindAtIndex, M!SelectInSeq
<1>2. Len(fs) \in Nat
  BY DEF FieldList
<1>3. CASE I = {}
  BY <1>1, <1>2, <1>3
<1>4. CASE I # {}
  <2>1. I \in SUBSET Nat
    BY <1>2
  <2>2. \E x \in I : \A y \in I : x <= y
    BY <1>4, <2>1, LeastNumber
  <2>3. M!Min(I) \in I /\ \A y \in I : M!Min(I) <= y
    BY <2>2 DEF M!Min
  <2> QED
    BY <1>1, <1>2, <1>4, <2>3
<1> QED
  BY <1>3, <1>4

\* The same, from a field that is the first one with the key.
LEMMA FindIs ==
  ASSUME NEW fs \in FieldList, NEW n, NEW p \in 1..Len(fs), fs[p].key = M!Up(n),
         \A i \in 1..Len(fs) : fs[i].key = M!Up(n) => p <= i
  PROVE  M!FindAtIndex(fs, n) = p
<1> DEFINE q == M!FindAtIndex(fs, n)
<1>1. /\ q \in 0..Len(fs) /\ (q = 0 <=> \A i \in 1..Len(fs) : fs[i].key # M!Up(n))
      /\ (q # 0 => fs[q].key = M!Up(n)) /\ q <= p
  BY FindFirst
<1>2. Len(fs) \in Nat
  BY DEF FieldList
<1> HIDE DEF q
<1>3. q # 0
  BY <1>1
<1>4. q \in 1..Len(fs)
  BY <1>1, <1>2, <1>3
<1>5. p <= q
  BY <1>1, <1>3, <1>4
<1>6. q = p
  BY <1>1, <1>2, <1>4, <1>5
<1> QED
  BY <1>6 DEF q

\* set_at_key puts its field where the first one with the key is, or behind all.
LEMMA SetFacts ==
  ASSUME NEW fs \in FieldList, NEW n, NEW v, Fits(n, v)
  PROVE  /\ M!SetAtKey(fs, n, v) \in FieldList
         /\ M!FindAtIndex(fs, n) = 0 => M!SetAtKey(fs, n, v) = Append(fs, M!Field(M!Up(n), v))
         /\ M!FindAtIndex(fs, n) # 0 =>
              M!SetAtKey(fs, n, v) = [fs EXCEPT ![M!FindAtIndex(fs, n)] = M!Field(M!Up(n), v)]
<1> DEFINE x == M!Field(M!Up(n), v)
           p == M!FindAtIndex(fs, n)
<1>1. x \in HeaderField
  BY KeyFacts
<1>2. p \in 0..Len(fs) /\ Len(fs) \in Nat
  BY FindFirst DEF FieldList
<1>3. p = 0 => M!SetAtKey(fs, n, v) = Append(fs, x)
  BY DEF M!SetAtKey, M!Has
<1>4. p # 0 => M!SetAtKey(fs, n, v) = [fs EXCEPT ![p] = x]
  BY DEF M!SetAtKey, M!Has, M!ReplaceAt
<1> HIDE DEF x, p
<1>5. Append(fs, x) \in FieldList
  BY <1>1 DEF FieldList
<1>6. p # 0 => [fs EXCEPT ![p] = x] \in FieldList
  BY <1>1, <1>2 DEF FieldList
<1>7. M!SetAtKey(fs, n, v) \in FieldList
  BY <1>3, <1>4, <1>5, <1>6
<1> QED
  BY <1>3, <1>4, <1>7 DEF x, p

\* remove_at_key leaves a vector of fields.
LEMMA RemoveFacts ==
  ASSUME NEW fs \in FieldList, NEW n
  PROVE  M!RemoveAtKey(fs, n) \in FieldList
<1> DEFINE p == M!FindAtIndex(fs, n)
<1>1. p \in 0..Len(fs) /\ Len(fs) \in Nat
  BY FindFirst DEF FieldList
<1>2. p # 0 => M!RemoveAtKey(fs, n) = SubSeq(fs, 1, p - 1) \o SubSeq(fs, p + 1, Len(fs))
  BY DEF M!RemoveAtKey, M!Has, M!RemoveAt
<1>3. p = 0 => M!RemoveAtKey(fs, n) = fs
  BY DEF M!RemoveAtKey, M!Has
<1> HIDE DEF p
<1>4. p # 0 => SubSeq(fs, 1, p - 1) \in FieldList /\ SubSeq(fs, p + 1, Len(fs)) \in FieldList
  BY <1>1 DEF FieldList
<1>5. \A a, b \in FieldList : a \o b \in FieldList
  BY DEF FieldList
<1> QED
  BY <1>2, <1>3, <1>4, <1>5

-----------------------------------------------------------------------------
(* The loops.                                                               *)

\* A loop over the fields visits them in order.
LEMMA VisitedAll ==
  ASSUME NEW fs \in FieldList
  PROVE  M!Visited(fs) = fs
<1> DEFINE n == Len(fs)
           Loop(h) == [i \in 0..n |-> IF i = n THEN <<>> ELSE <<fs[i + 1]>> \o h[i + 1]]
           F == CHOOSE h : h = Loop(h)
           g == [i \in 0..n |-> SubSeq(fs, i + 1, n)]
<1>1. n \in Nat /\ fs \in Seq(HeaderField)
  BY DEF FieldList
<1>2. ASSUME NEW i \in 0..n, i # n
      PROVE  i + 1 \in 0..n /\ SubSeq(fs, i + 1, n) = <<fs[i + 1]>> \o SubSeq(fs, (i + 1) + 1, n)
  <2>1. i + 1 \in 0..n /\ i + 1 \in 1..n /\ n \in i + 1..Len(fs)
    BY <1>1, <1>2
  <2> HIDE DEF n
  <2> QED
    BY <1>1, <2>1, SubSeqRecursiveFirst
<1>3. SubSeq(fs, n + 1, n) = <<>>
  BY <1>1
<1>4. g = Loop(g)
  <2>1. ASSUME NEW i \in 0..n PROVE g[i] = Loop(g)[i]
    <3>1. CASE i = n
      BY <1>3, <3>1
    <3>2. CASE i # n
      <4>1. i + 1 \in 0..n /\ SubSeq(fs, i + 1, n) = <<fs[i + 1]>> \o SubSeq(fs, (i + 1) + 1, n)
        BY <1>2, <3>2
      <4>2. g[i] = SubSeq(fs, i + 1, n) /\ g[i + 1] = SubSeq(fs, (i + 1) + 1, n)
        BY <4>1
      <4>3. Loop(g)[i] = <<fs[i + 1]>> \o g[i + 1]
        BY <3>2
      <4> QED
        BY <4>1, <4>2, <4>3
    <3> QED
      BY <3>1, <3>2
  <2> QED
    BY <2>1
<1>5. F = Loop(F)
  BY <1>4
<1>6. M!Visited(fs) = F[0]
  BY DEF M!Visited, M!begin, M!end
<1> HIDE DEF F, g
<1>7. \A i \in 0..n : F[i] = IF i = n THEN <<>> ELSE <<fs[i + 1]>> \o F[i + 1]
  BY <1>5
<1> DEFINE P == {k \in 0..n : F[n - k] = SubSeq(fs, n - k + 1, n)}
<1>8. 0 \in P
  <2>1. 0 \in 0..n /\ n \in 0..n /\ n - 0 = n
    BY <1>1
  <2>2. F[n] = SubSeq(fs, n + 1, n)
    BY <1>3, <1>7, <2>1
  <2> QED
    BY <2>1, <2>2
<1>9. ASSUME NEW k \in 1..n, k - 1 \in P PROVE k \in P
  <2>1. n - k \in 0..n /\ n - k # n /\ n - (k - 1) = n - k + 1 /\ k \in 0..n
    BY <1>1
  <2>2. F[n - k + 1] = SubSeq(fs, (n - k + 1) + 1, n)
    BY <1>9, <2>1
  <2>3. F[n - k] = <<fs[n - k + 1]>> \o F[n - k + 1]
    BY <1>7, <2>1
  <2>4. F[n - k] = SubSeq(fs, n - k + 1, n)
    BY <1>2, <2>1, <2>2, <2>3
  <2> QED
    BY <2>1, <2>4
<1>10. n \in P
  <2> HIDE DEF P
  <2>1. \A k \in 0..n : k \in P
    BY <1>1, <1>8, <1>9, UpTo
  <2> QED
    BY <1>1, <2>1
<1>11. F[0] = SubSeq(fs, 1, n)
  <2>1. n - n = 0 /\ n - n + 1 = 1
    BY <1>1
  <2> QED
    BY <1>10, <2>1
<1> QED
  BY <1>1, <1>6, <1>11, SubSeqFull

\* p_on_header_field_data appends the lines in order to an object without fields.
LEMMA LinesAppended ==
  ASSUME NEW m \in Message, m.m_headers = <<>>, NEW fs \in FieldList
  PROVE  M!AppendedLines(m, fs) = [m EXCEPT !.m_headers = fs]
<1> DEFINE n == Len(fs)
           Line(x, k) == M!append_header(x, fs[k].key.name, fs[k].value)
           Loop(h) == [k \in 0..n |-> IF k = 0 THEN m ELSE Line(h[k - 1], k)]
           F == CHOOSE h : h = Loop(h)
           With(list) == [m EXCEPT !.m_headers = list]
           g == [k \in 0..n |-> With(SubSeq(fs, 1, k))]
<1>1. n \in Nat /\ fs \in Seq(HeaderField) /\ \A k \in 1..n : fs[k] \in HeaderField
  BY DEF FieldList
<1>2. \A list : /\ With(list).m_headers = list
                /\ \A other : [With(list) EXCEPT !.m_headers = other] = With(other)
  BY DEF Message
<1>3. With(<<>>) = m
  BY DEF Message
<1> HIDE DEF With
<1>4. SubSeq(fs, 1, 0) = <<>>
  BY <1>1
<1>5. ASSUME NEW k \in 1..n
      PROVE  Line(With(SubSeq(fs, 1, k - 1)), k) = With(SubSeq(fs, 1, k))
  <2>1. M!Field(M!Up(fs[k].key.name), fs[k].value) = fs[k]
    BY <1>1, KeyFacts
  <2>2. SubSeq(fs, 1, k) = SubSeq(fs, 1, k - 1) \o <<fs[k]>>
    <3>1. 1 \in 1..Len(fs) /\ k \in 1..Len(fs)
      BY <1>1
    <3> HIDE DEF n
    <3> QED
      BY <1>1, <3>1, SubSeqRecursiveSecond
  <2>3. SubSeq(fs, 1, k - 1) \in Seq(HeaderField)
    BY <1>1
  <2>4. Append(SubSeq(fs, 1, k - 1), fs[k]) = SubSeq(fs, 1, k)
    BY <1>1, <2>2, <2>3, AppendIsConcat
  <2>5. Line(With(SubSeq(fs, 1, k - 1)), k)
          = [With(SubSeq(fs, 1, k - 1)) EXCEPT !.m_headers =
               Append(With(SubSeq(fs, 1, k - 1)).m_headers, M!Field(M!Up(fs[k].key.name), fs[k].value))]
    BY DEF M!append_header
  <2> QED
    BY <1>2, <2>1, <2>4, <2>5
<1> HIDE DEF Line
<1>6. g = Loop(g)
  <2>1. ASSUME NEW k \in 0..n PROVE g[k] = Loop(g)[k]
    <3>1. CASE k = 0
      BY <1>3, <1>4, <3>1
    <3>2. CASE k # 0
      <4>1. k \in 1..n /\ k - 1 \in 0..n
        BY <1>1, <3>2
      <4>2. g[k - 1] = With(SubSeq(fs, 1, k - 1)) /\ g[k] = With(SubSeq(fs, 1, k))
        BY <4>1
      <4>3. Loop(g)[k] = Line(g[k - 1], k)
        BY <3>2
      <4> QED
        BY <1>5, <4>1, <4>2, <4>3
    <3> QED
      BY <3>1, <3>2
  <2> QED
    BY <2>1
<1>7. F = Loop(F)
  BY <1>6
<1>8. M!AppendedLines(m, fs) = F[n]
  BY DEF M!AppendedLines, Line
<1> HIDE DEF F, g
<1>9. \A k \in 0..n : F[k] = IF k = 0 THEN m ELSE Line(F[k - 1], k)
  BY <1>7
<1> DEFINE P == {k \in 0..n : F[k] = With(SubSeq(fs, 1, k))}
<1>10. 0 \in P
  <2>1. 0 \in 0..n
    BY <1>1
  <2>2. F[0] = m
    BY <1>9, <2>1
  <2> QED
    BY <1>3, <1>4, <2>1, <2>2
<1>11. ASSUME NEW k \in 1..n, k - 1 \in P PROVE k \in P
  <2>1. k \in 0..n /\ k # 0
    BY <1>1
  <2>2. F[k - 1] = With(SubSeq(fs, 1, k - 1)) /\ F[k] = Line(F[k - 1], k)
    BY <1>9, <1>11, <2>1
  <2> QED
    BY <1>5, <2>1, <2>2
<1>12. n \in P
  <2> HIDE DEF P
  <2>1. \A k \in 0..n : k \in P
    BY <1>1, <1>10, <1>11, UpTo
  <2> QED
    BY <1>1, <2>1
<1>13. SubSeq(fs, 1, n) = fs
  BY <1>1, SubSeqFull
<1> QED
  BY <1>8, <1>12, <1>13 DEF With

\* A HeaderFields made from pairs.
LEMMA FromPairsFacts ==
  ASSUME NEW pairs \in FieldList
  PROVE  M!FromPairs(pairs) \in FieldList
<1> DEFINE n == Len(pairs)
           turn == [k \in 1..n |-> [fs \in FieldList |-> M!SetAtKey(fs, pairs[k].key.name, pairs[k].value)]]
           Loop(h) == [k \in 0..n |-> IF k = 0 THEN <<>> ELSE M!SetAtKey(h[k - 1], pairs[k].key.name, pairs[k].value)]
           F == CHOOSE h : h = Loop(h)
<1>1. n \in Nat /\ <<>> \in FieldList /\ \A k \in 1..n : pairs[k] \in HeaderField
  BY DEF FieldList
<1>2. \A k \in 1..n : \A fs \in FieldList : M!SetAtKey(fs, pairs[k].key.name, pairs[k].value) \in FieldList
  BY <1>1, KeyFacts, SetFacts
<1>3. PICK g : IsRun(g, n, FieldList, <<>>, turn)
  <2>1. IsLoop(n, FieldList, <<>>, turn)
    BY <1>1, <1>2 DEF IsLoop
  <2> HIDE DEF turn, n
  <2> QED
    BY <2>1, Turns
<1>4. g \in [0..n -> FieldList] /\ g[0] = <<>>
  BY <1>3 DEF IsRun
<1>5. ASSUME NEW k \in 1..n
      PROVE  /\ k - 1 \in 0..n /\ k \in 0..n
             /\ g[k] = M!SetAtKey(g[k - 1], pairs[k].key.name, pairs[k].value)
  <2>1. k - 1 \in 0..n /\ k \in 0..n
    BY <1>1
  <2>2. g[k] = turn[k][g[k - 1]] /\ g[k - 1] \in FieldList
    BY <1>3, <2>1 DEF IsRun
  <2> QED
    BY <2>1, <2>2
<1>6. g = Loop(g)
  <2>1. ASSUME NEW k \in 0..n PROVE g[k] = Loop(g)[k]
    BY <1>1, <1>4, <1>5
  <2> QED
    BY <1>4, <2>1
<1>7. F = Loop(F)
  BY <1>6
<1>8. M!FromPairs(pairs) = F[n]
  BY DEF M!FromPairs
<1> HIDE DEF F, turn
<1>9. \A k \in 0..n : F[k] = IF k = 0 THEN <<>> ELSE M!SetAtKey(F[k - 1], pairs[k].key.name, pairs[k].value)
  BY <1>7
<1> DEFINE P == {k \in 0..n : F[k] \in FieldList}
<1>10. 0 \in P
  BY <1>1, <1>9
<1>11. ASSUME NEW k \in 1..n, k - 1 \in P PROVE k \in P
  <2>1. k \in 0..n /\ k # 0
    BY <1>1
  <2>2. F[k - 1] \in FieldList /\ F[k] = M!SetAtKey(F[k - 1], pairs[k].key.name, pairs[k].value)
    BY <1>9, <1>11, <2>1
  <2> QED
    BY <1>2, <2>1, <2>2
<1>12. n \in P
  <2> HIDE DEF P
  <2>1. \A k \in 0..n : k \in P
    BY <1>1, <1>10, <1>11, UpTo
  <2> QED
    BY <1>1, <2>1
<1> QED
  BY <1>8, <1>12

-----------------------------------------------------------------------------
(* The setters and the factory.                                             *)

\* Assignments to the members of an object, each of its type.
LEMMA SettersTyped ==
  ASSUME NEW m \in Message
  PROVE  /\ \A x \in Str : M!method(m, x) \in Message
         /\ \A s \in Str : M!status_code(m, s) \in Message
         /\ \A r \in Str : M!reason(m, r) \in Message
         /\ \A t \in Seq(Str) : M!target(m, t) \in Message
         /\ \A n \in {0, 1} : M!version_minor(m, n) \in Message
         /\ \A n \in Nat : M!set_body_buffer_chain(m, n) \in Message
         /\ \A fs \in FieldList : [m EXCEPT !.m_headers = fs] \in Message
         /\ \A n \in Nat : \A fs \in FieldList : [m EXCEPT !.body = n, !.m_headers = fs] \in Message
         /\ m.m_headers \in FieldList
<1>1. \A x \in Str : M!method(m, x) \in Message
  BY DEF Message, M!method
<1>2. \A s \in Str : M!status_code(m, s) \in Message
  BY DEF Message, M!status_code
<1>3. \A r \in Str : M!reason(m, r) \in Message
  BY DEF Message, M!reason
<1>4. \A t \in Seq(Str) : M!target(m, t) \in Message
  BY DEF Message, M!target
<1>5. \A n \in {0, 1} : M!version_minor(m, n) \in Message
  BY DEF Message, M!version_minor
<1>6. \A n \in Nat : M!set_body_buffer_chain(m, n) \in Message
  BY DEF Message, M!set_body_buffer_chain
<1>7. \A fs \in FieldList : [m EXCEPT !.m_headers = fs] \in Message
  BY DEF Message
<1>8. \A n \in Nat : \A fs \in FieldList : [m EXCEPT !.body = n, !.m_headers = fs] \in Message
  BY DEF Message
<1>9. m.m_headers \in FieldList
  BY DEF Message
<1> QED
  BY <1>1, <1>2, <1>3, <1>4, <1>5, <1>6, <1>7, <1>8, <1>9

\* header() and set_body.
LEMMA HeadersTyped ==
  ASSUME NEW m \in Message
  PROVE  /\ \A n, v : Fits(n, v) => M!header(m, n, v) \in Message
         /\ \A n : M!remove_header(m, n) \in Message
         /\ \A n \in Nat : M!set_body(m, n) \in Message
<1>1. ASSUME NEW n, NEW v, Fits(n, v) PROVE M!header(m, n, v) \in Message
  <2>1. Fits(n, M!Trimmed(v))
    BY <1>1, TrimFacts
  <2>2. M!SetAtKey(m.m_headers, n, M!Trimmed(v)) \in FieldList
    BY <2>1, SetFacts, SettersTyped
  <2> QED
    BY <2>2, SettersTyped DEF M!header
<1>2. \A n : M!remove_header(m, n) \in Message
  BY RemoveFacts, SettersTyped DEF M!remove_header
<1>3. ASSUME NEW n \in Nat PROVE M!set_body(m, n) \in Message
  <2>1. Fits("CONTENT-LENGTH", M!Size(n))
    <3>1. <<n>> \in Seq(Str \cup Nat)
      OBVIOUS
    <3>2. M!Size(n) \in FieldValue /\ M!Size(n).kind = "size"
      BY <3>1, StrFacts DEF FieldValue, M!Size
    <3>3. "CONTENT-LENGTH" \in Str
      BY StrFacts
    <3>4. "size" \notin M!Texts
      BY DEF M!Texts
    <3> QED
      BY <3>2, <3>3, <3>4 DEF Fits
  <2>2. M!RemoveAtKey(m.m_headers, "TRANSFER-ENCODING") \in FieldList
    BY RemoveFacts, SettersTyped
  <2>3. M!SetBody(m.m_headers, n) \in FieldList
    BY <2>1, <2>2, SetFacts DEF M!SetBody
  <2> QED
    BY <2>3, SettersTyped DEF M!set_body
<1> QED
  BY <1>1, <1>2, <1>3

\* The targets and the Host of the requests message_factory.cpp makes.
LEMMA UriTyped ==
  ASSUME NEW us \in Urls
  PROVE  /\ M!relativePath(us) \in Seq(Str)
         /\ M!absolutePath(us) \in Seq(Str)
         /\ M!host_and_port(us) \in Seq(Str)
         /\ Fits("HOST", [kind |-> "host", of |-> M!host_and_port(us)])
<1>1. /\ us.protocol \in Str /\ us.host \in Str /\ us.port \in Str
      /\ us.path \in Str /\ us.search \in Str
  BY StrFacts
<1>2. M!Port(us) \in Str
  BY <1>1, StrFacts DEF M!Port
<1>3. M!relativePath(us) \in Seq(Str)
  <2> DEFINE path == IF us.path = "" THEN "/" ELSE us.path
  <2>1. path \in Str
    BY <1>1, StrFacts
  <2>2. M!relativePath(us) = <<path, us.search>>
    BY DEF M!relativePath
  <2> HIDE DEF path
  <2> QED
    BY <1>1, <2>1, <2>2
<1>4. M!host_and_port(us) \in Seq(Str) /\ M!host_and_port(us) \in Seq(Str \cup Nat)
  BY <1>1, <1>2 DEF M!host_and_port
<1>5. M!absolutePath(us) \in Seq(Str)
  <2>1. <<us.protocol>> \in Seq(Str)
    BY <1>1
  <2>2. \A s, t \in Seq(Str) : s \o t \in Seq(Str)
    OBVIOUS
  <2> QED
    BY <1>3, <1>4, <2>1, <2>2 DEF M!absolutePath
<1>6. Fits("HOST", [kind |-> "host", of |-> M!host_and_port(us)])
  <2>1. [kind |-> "host", of |-> M!host_and_port(us)] \in FieldValue
    BY <1>4, StrFacts DEF FieldValue
  <2>2. "HOST" \in Str
    BY StrFacts
  <2> QED
    BY <2>1, <2>2 DEF Fits
<1> QED
  BY <1>3, <1>4, <1>5, <1>6

-----------------------------------------------------------------------------
(* The fields of a message that was written and read again.                 *)

\* find gives a position of a key that is there.
LEMMA FindThere ==
  ASSUME NEW fs \in FieldList, NEW n, NEW q \in 1..Len(fs), fs[q].key = M!Up(n)
  PROVE  M!find(fs, n) # M!end(fs)
<1> DEFINE there == {i \in 0..(Len(fs) - 1) : fs[i + 1].key = M!Up(n)}
<1>1. Len(fs) \in Nat
  BY DEF FieldList
<1>2. q - 1 \in there
  <2>1. q - 1 \in 0..(Len(fs) - 1) /\ (q - 1) + 1 = q
    BY <1>1
  <2> QED
    BY <2>1
<1>3. there \in SUBSET Nat
  BY <1>1
<1>4. \E x \in there : \A y \in there : x <= y
  BY <1>2, <1>3, LeastNumber
<1>5. (CHOOSE i \in there : \A j \in there : i <= j) \in there
  BY <1>4
<1>6. M!find(fs, n) = CHOOSE i \in there : \A j \in there : i <= j
  BY <1>2 DEF M!find, M!begin, M!end
<1>7. M!find(fs, n) \in there
  BY <1>5, <1>6
<1>8. \A i \in there : i # Len(fs)
  BY <1>1
<1> HIDE DEF there
<1> QED
  BY <1>7, <1>8 DEF M!end

\* What the parser makes of the fields was: the last one is stored by header().
Reread(was) == M!SetAtKey(M!Front(was), M!Last(was).key.name, M!Trimmed(M!Last(was).value))

\* The fields of is are those of was in order, but for the first one with the
\* name of the last, which has its value.
AllBut(was, is) ==
  LET name == M!Last(was).key.name IN
    /\ is \in FieldList
    /\ Len(is) = IF M!Repeated(was) THEN Len(was) - 1 ELSE Len(was)
    /\ \A i \in 1..Len(is) :
         /\ is[i].key = was[i].key
         /\ is[i].value = was[i].value \/ i = M!FindAtIndex(was, name)
    /\ M!find(is, name) # M!end(is)
    /\ M!AtKey(is, name) = M!Trimmed(M!Last(was).value)

\* As long, with the same keys, and values that at most lost their spaces.
Alike(was, is) ==
  /\ is \in FieldList /\ Len(is) = Len(was)
  /\ \A i \in 1..Len(was) :
       is[i].key = was[i].key /\ is[i].value \in {was[i].value, M!Trimmed(was[i].value)}

LEMMA RereadFacts ==
  ASSUME NEW was \in FieldList, was # <<>>
  PROVE  AllBut(was, Reread(was)) /\ (~M!Repeated(was) => Alike(was, Reread(was)))
<1> DEFINE n == Len(was)
           front == SubSeq(was, 1, n - 1)
           name == was[n].key.name
           v == M!Trimmed(was[n].value)
           x == M!Field(M!Up(name), v)
           is == M!SetAtKey(front, name, v)
           p == M!FindAtIndex(front, name)
<1>1. n \in Nat \ {0} /\ n \in 1..n /\ was \in Seq(HeaderField) /\ \A i \in 1..n : was[i] \in HeaderField
  BY DEF FieldList
<1>2. Reread(was) = is /\ M!Last(was) = was[n]
  BY DEF Reread, M!Front, M!Last
<1>3. was[n].key = M!Up(name) /\ Fits(name, was[n].value)
  BY <1>1, KeyFacts
<1>4. Fits(name, v)
  BY <1>3, TrimFacts
<1>5. x.key = M!Up(name) /\ x.value = v /\ x \in HeaderField
  BY <1>4, KeyFacts
<1>6. front \in FieldList /\ Len(front) = n - 1 /\ \A i \in 1..n - 1 : front[i] = was[i]
  <2>1. n = Len(was)
    OBVIOUS
  <2> HIDE DEF n
  <2>2. front \in Seq(HeaderField) /\ Len(front) = n - 1
    BY <1>1, <2>1
  <2>3. \A i \in 1..n - 1 : front[i] = was[i]
    BY <1>1, <2>1
  <2> QED
    BY <2>2, <2>3 DEF FieldList
<1>7. /\ is \in FieldList /\ (p = 0 => is = Append(front, x))
      /\ (p # 0 => is = [front EXCEPT ![p] = x])
  <2> HIDE DEF front, name, v
  <2> QED
    BY <1>4, <1>6, SetFacts
<1>8. /\ p \in 0..n - 1 /\ (p = 0 <=> \A i \in 1..n - 1 : was[i].key # M!Up(name))
      /\ (p # 0 => was[p].key = M!Up(name))
      /\ \A i \in 1..n - 1 : was[i].key = M!Up(name) => p <= i
  <2>1. /\ p \in 0..Len(front) /\ (p = 0 <=> \A i \in 1..Len(front) : front[i].key # M!Up(name))
        /\ (p # 0 => front[p].key = M!Up(name))
        /\ \A i \in 1..Len(front) : front[i].key = M!Up(name) => p <= i
    BY <1>6, FindFirst
  <2> HIDE DEF p, front
  <2>2. p # 0 => p \in 1..n - 1
    BY <1>1, <1>6, <2>1
  <2> QED
    BY <1>6, <2>1, <2>2
<1>9. M!Repeated(was) <=> p # 0
  <2>1. M!Repeated(was) <=> \E i \in 1..n - 1 : was[i].key = was[n].key
    BY DEF M!Repeated, M!Last
  <2> QED
    BY <1>3, <1>8, <2>1
<1> HIDE DEF x, v, p, front, name, is, n
<1>10. CASE p = 0
  <2>1. is \in FieldList /\ Len(is) = n /\ is[n] = x /\ \A i \in 1..n - 1 : is[i] = was[i]
    <3>1. is = Append(front, x)
      BY <1>7, <1>10
    <3>2. /\ Len(Append(front, x)) = Len(front) + 1 /\ Append(front, x)[Len(front) + 1] = x
          /\ \A j \in 1..Len(front) : Append(front, x)[j] = front[j]
      BY <1>5, <1>6, AppendFacts DEF FieldList
    <3>3. Len(front) + 1 = n
      BY <1>1, <1>6
    <3> QED
      BY <1>6, <1>7, <3>1, <3>2, <3>3
  <2>2. \A i \in 1..n : i = n \/ i \in 1..n - 1
    BY <1>1
  <2>3. \A i \in 1..n : is[i].key = was[i].key /\ is[i].value \in {was[i].value, M!Trimmed(was[i].value)}
                        /\ (i # n => is[i].value = was[i].value)
    BY <1>3, <1>5, <2>1, <2>2 DEF v
  <2>4. M!FindAtIndex(was, name) = n
    <3>1. \A i \in 1..n : was[i].key = M!Up(name) => n <= i
      BY <1>1, <1>8, <1>10, <2>2
    <3> QED
      BY <1>1, <1>3, <3>1, FindIs DEF n
  <2>5. M!FindAtIndex(is, name) = n
    <3>1. \A i \in 1..n : is[i].key = M!Up(name) => n <= i
      BY <1>1, <1>8, <1>10, <2>2, <2>3
    <3>2. n \in 1..Len(is) /\ is[n].key = M!Up(name)
      BY <1>1, <1>5, <2>1
    <3> QED
      BY <2>1, <3>1, <3>2, FindIs
  <2>6. M!AtKey(is, name) = v
    BY <1>5, <2>1, <2>5 DEF M!AtKey
  <2>7. M!find(is, name) # M!end(is)
    <3>1. n \in 1..Len(is) /\ is[n].key = M!Up(name)
      BY <1>1, <1>5, <2>1
    <3> QED
      BY <2>1, <3>1, FindThere
  <2>8. AllBut(was, is)
    BY <1>2, <1>9, <1>10, <2>1, <2>3, <2>4, <2>6, <2>7 DEF AllBut, n, name, v
  <2>9. Alike(was, is)
    BY <2>1, <2>3 DEF Alike, n
  <2> QED
    BY <1>2, <2>8, <2>9
<1>11. CASE p # 0
  <2>0. p \in 1..n - 1
    BY <1>1, <1>8, <1>11
  <2>1. is \in FieldList /\ Len(is) = n - 1 /\ is[p] = x /\ \A i \in 1..n - 1 : i # p => is[i] = was[i]
    <3>1. is = [front EXCEPT ![p] = x]
      BY <1>7, <1>11
    <3>2. front \in Seq(HeaderField) /\ DOMAIN front = 1..n - 1
      BY <1>6 DEF FieldList
    <3>3. Len(is) = n - 1
      BY <1>5, <1>6, <2>0, <3>1, <3>2
    <3> QED
      BY <1>6, <1>7, <2>0, <3>1, <3>2, <3>3
  <2>2. \A i \in 1..n - 1 : is[i].key = was[i].key /\ (i # p => is[i].value = was[i].value)
    BY <1>5, <1>8, <1>11, <2>1
  <2>3. p \in 1..Len(was) /\ \A i \in 1..n : i = n \/ i \in 1..n - 1
    BY <1>1, <2>0 DEF n
  <2>4. M!FindAtIndex(was, name) = p
    <3>1. \A i \in 1..Len(was) : was[i].key = M!Up(name) => p <= i
      <4>1. p <= n
        BY <1>1, <2>0
      <4> QED
        BY <1>8, <2>3, <4>1 DEF n
    <3> QED
      BY <1>8, <1>11, <2>3, <3>1, FindIs
  <2>5. p \in 1..Len(is) /\ is[p].key = M!Up(name)
    BY <1>5, <2>0, <2>1
  <2>6. M!FindAtIndex(is, name) = p
    <3>1. \A i \in 1..Len(is) : is[i].key = M!Up(name) => p <= i
      BY <1>8, <2>1, <2>2
    <3> QED
      BY <2>1, <2>5, <3>1, FindIs
  <2>7. M!AtKey(is, name) = v
    BY <1>5, <2>1, <2>6 DEF M!AtKey
  <2>8. M!find(is, name) # M!end(is)
    BY <2>1, <2>5, FindThere
  <2>9. AllBut(was, is)
    BY <1>2, <1>9, <1>11, <2>1, <2>2, <2>4, <2>7, <2>8 DEF AllBut, n, name, v
  <2> QED
    BY <1>2, <1>9, <1>11, <2>9
<1> QED
  BY <1>10, <1>11

\* Of fields that are alike, the same ones are found, with the same text.
LEMMA AlikeFound ==
  ASSUME NEW was \in FieldList, NEW is, Alike(was, is), NEW n
  PROVE  /\ M!FindAtIndex(is, n) = M!FindAtIndex(was, n)
         /\ M!Has(is, n) = M!Has(was, n)
         /\ M!Has(was, n) => /\ M!AtKey(is, n).kind = M!AtKey(was, n).kind
                             /\ n = "CONTENT-LENGTH" => M!AtKey(is, n) = M!AtKey(was, n)
<1> DEFINE p == M!FindAtIndex(was, n)
           q == M!FindAtIndex(is, n)
<1>1. /\ is \in FieldList /\ Len(is) = Len(was) /\ Len(was) \in Nat
      /\ \A i \in 1..Len(was) :
           /\ is[i].key = was[i].key /\ was[i] \in HeaderField
           /\ is[i].value \in {was[i].value, M!Trimmed(was[i].value)}
  BY DEF Alike, FieldList
<1>2. /\ p \in 0..Len(was) /\ (p = 0 <=> \A i \in 1..Len(was) : was[i].key # M!Up(n))
      /\ (p # 0 => was[p].key = M!Up(n))
      /\ \A i \in 1..Len(was) : was[i].key = M!Up(n) => p <= i
  BY FindFirst
<1>3. /\ q \in 0..Len(was) /\ (q = 0 <=> \A i \in 1..Len(was) : is[i].key # M!Up(n))
  BY <1>1, FindFirst
<1>4. p # 0 => p \in 1..Len(was)
  BY <1>1, <1>2
<1>5. q = p
  <2>1. CASE p = 0
    BY <1>1, <1>2, <1>3, <2>1
  <2>2. CASE p # 0
    <3>1. p \in 1..Len(is) /\ is[p].key = M!Up(n) /\ \A i \in 1..Len(is) : is[i].key = M!Up(n) => p <= i
      BY <1>1, <1>2, <1>4, <2>2
    <3> HIDE DEF p
    <3> QED
      BY <1>1, <3>1, FindIs
  <2> QED
    BY <2>1, <2>2
<1>6. M!Has(is, n) = M!Has(was, n) /\ (M!Has(was, n) <=> p # 0)
  BY <1>5 DEF M!Has
<1>7. M!AtKey(is, n) = is[p].value /\ M!AtKey(was, n) = was[p].value
  BY <1>5 DEF M!AtKey
<1>8. ASSUME p # 0
      PROVE  /\ M!AtKey(is, n).kind = M!AtKey(was, n).kind
             /\ n = "CONTENT-LENGTH" => M!AtKey(is, n) = M!AtKey(was, n)
  <2> HIDE DEF p
  <2>1. was[p] \in HeaderField /\ was[p].key = M!Up(n) /\ is[p].value \in {was[p].value, M!Trimmed(was[p].value)}
    BY <1>1, <1>2, <1>4, <1>8
  <2>2. was[p].key.name = n
    BY <2>1, KeyFacts
  <2>3. Fits(n, was[p].value)
    BY <2>1, <2>2, KeyFacts
  <2>4. M!Trimmed(was[p].value).kind = was[p].value.kind
        /\ (n = "CONTENT-LENGTH" => M!Trimmed(was[p].value) = was[p].value)
    BY <2>3, TrimFacts
  <2> QED
    BY <1>7, <2>1, <2>4
<1> QED
  BY <1>5, <1>6, <1>8

\* The same answers about fields that are alike.
LEMMA AlikeAnswers ==
  ASSUME NEW was \in FieldList, NEW is, Alike(was, is)
  PROVE  /\ M!same_values(was, is)
         /\ M!is_connection_close(is) = M!is_connection_close(was)
         /\ M!headers_keep_alive(is) = M!headers_keep_alive(was)
         /\ (\A i \in DOMAIN was : was[i].value = M!Trimmed(was[i].value)) => M!same_order_and_values(was, is)
<1>1. /\ is \in FieldList /\ Len(is) = Len(was) /\ Len(was) \in Nat /\ DOMAIN was = 1..Len(was)
      /\ \A i \in 1..Len(was) :
           /\ is[i].key = was[i].key /\ was[i] \in HeaderField /\ is[i] \in HeaderField
           /\ is[i].value \in {was[i].value, M!Trimmed(was[i].value)}
  BY DEF Alike, FieldList
<1>2. M!same_values(was, is)
  <2>1. ASSUME NEW i \in 1..Len(was) PROVE M!Has(is, was[i].key.name)
    <3>1. is[i].key = M!Up(was[i].key.name) /\ i \in 1..Len(is)
      BY <1>1, KeyFacts
    <3>2. M!FindAtIndex(is, was[i].key.name) # 0
      BY <1>1, <3>1, FindFirst
    <3> QED
      BY <3>2 DEF M!Has
  <2> QED
    BY <1>1, <2>1 DEF M!same_values
<1>3. /\ M!Has(is, "CONNECTION") = M!Has(was, "CONNECTION")
      /\ M!Has(was, "CONNECTION") => M!AtKey(is, "CONNECTION").kind = M!AtKey(was, "CONNECTION").kind
  BY AlikeFound
<1>4. M!is_connection_close(is) = M!is_connection_close(was)
  BY <1>3 DEF M!is_connection_close, M!value_close
<1>5. M!headers_keep_alive(is) = M!headers_keep_alive(was)
  BY <1>3 DEF M!headers_keep_alive, M!value_keep_alive
<1>6. ASSUME \A i \in DOMAIN was : was[i].value = M!Trimmed(was[i].value)
      PROVE  M!same_order_and_values(was, is)
  <2>1. ASSUME NEW i \in 1..Len(was) PROVE was[i] = is[i]
    <3>1. is[i].value = was[i].value /\ is[i].key = was[i].key
      BY <1>1, <1>6
    <3>2. M!Field(M!Up(was[i].key.name), was[i].value) = was[i]
      BY <1>1, KeyFacts
    <3>3. M!Field(M!Up(is[i].key.name), is[i].value) = is[i]
      BY <1>1, KeyFacts
    <3> QED
      BY <3>1, <3>2, <3>3
  <2> QED
    BY <1>1, <2>1 DEF M!same_order_and_values
<1> QED
  BY <1>2, <1>4, <1>5, <1>6

-----------------------------------------------------------------------------
(* serialize_headers() and the parser.                                      *)

\* The new object the parser fills.
LEMMA NewMessage ==
  /\ M!MessageBase \in Message /\ M!MessageBase.m_headers = <<>> /\ M!MessageBase.m_reason = ""
  /\ M!MessageBase.m_is_request = TRUE
<1>1. <<>> \in FieldList /\ <<>> \in Seq(Str)
  BY DEF FieldList
<1>2. "unset" \in Str /\ "" \in Str
  BY StrFacts
<1> QED
  BY <1>1, <1>2 DEF Message, M!MessageBase

\* The fields of a message that was parsed.
FieldsRead(fs) == IF fs = <<>> THEN <<>> ELSE Reread(fs)

LEMMA ParsedFieldsAre ==
  ASSUME NEW m \in Message, m.m_headers = <<>>, NEW fs \in FieldList
  PROVE  /\ M!ParsedFields(m, fs) = [m EXCEPT !.m_headers = FieldsRead(fs)]
         /\ FieldsRead(fs) \in FieldList
<1>1. CASE fs = <<>>
  <2>1. [m EXCEPT !.m_headers = <<>>] = m
    BY DEF Message
  <2> QED
    BY <1>1, <2>1 DEF M!ParsedFields, FieldsRead
<1>2. CASE fs # <<>>
  <2> DEFINE front == M!Front(fs)
             a == M!AppendedLines(m, front)
             name == M!Last(fs).key.name
             v == M!Last(fs).value
  <2>1. front \in FieldList
    BY <1>2 DEF FieldList, M!Front
  <2>2. a = [m EXCEPT !.m_headers = front]
    BY <2>1, LinesAppended
  <2>3. M!ParsedFields(m, fs) = M!header(a, name, v)
    BY <1>2 DEF M!ParsedFields
  <2>4. FieldsRead(fs) = M!SetAtKey(front, name, M!Trimmed(v))
    BY <1>2 DEF FieldsRead, Reread
  <2>5. FieldsRead(fs) \in FieldList
    <3>1. AllBut(fs, Reread(fs))
      BY <1>2, RereadFacts
    <3> QED
      BY <1>2, <3>1 DEF AllBut, FieldsRead
  <2> HIDE DEF a, front, name, v
  <2>6. a.m_headers = front
    BY <2>2 DEF Message
  <2>7. M!header(a, name, v) = [a EXCEPT !.m_headers = FieldsRead(fs)]
    BY <2>4, <2>6 DEF M!header
  <2>8. \A list : [a EXCEPT !.m_headers = list] = [m EXCEPT !.m_headers = list]
    BY <2>2 DEF Message
  <2> QED
    BY <2>3, <2>5, <2>7, <2>8
<1> QED
  BY <1>1, <1>2

\* What the parser makes of a head.
IsRead(b, w, on_status) ==
  /\ b \in Message /\ b.m_headers = FieldsRead(w.fields) /\ b.m_http_minor = w.minor
  /\ w.request => b.m_is_request = TRUE /\ b.m_method = w.method /\ b.m_target = w.target
  /\ ~w.request /\ on_status =>
       b.m_is_request = FALSE /\ b.m_status_code = w.status /\ b.m_reason = w.reason

LEMMA ParsedIsRead ==
  ASSUME NEW w \in WireHead, NEW on_status \in BOOLEAN
  PROVE  IsRead(M!Parsed(w, on_status), w, on_status)
<1> DEFINE new == M!version_minor(M!MessageBase, w.minor)
           m == M!ParsedFields(new, w.fields)
<1>1. /\ w.request \in BOOLEAN /\ w.target \in Seq(Str) /\ w.reason \in Str /\ w.method \in Str
      /\ w.status \in Str /\ w.minor \in {0, 1} /\ w.fields \in FieldList
  BY DEF WireHead
<1>2. new \in Message
  BY <1>1, NewMessage, SettersTyped
<1>3. new.m_headers = <<>> /\ new.m_reason = "" /\ new.m_http_minor = w.minor
  BY NewMessage DEF M!version_minor, Message
<1> HIDE DEF new
<1>4. m = [new EXCEPT !.m_headers = FieldsRead(w.fields)] /\ FieldsRead(w.fields) \in FieldList
  BY <1>1, <1>2, <1>3, ParsedFieldsAre
<1>5. m \in Message /\ m.m_headers = FieldsRead(w.fields) /\ m.m_reason = "" /\ m.m_http_minor = w.minor
  <2> HIDE DEF m
  <2>1. m \in Message
    BY <1>2, <1>4, SettersTyped
  <2> QED
    BY <1>2, <1>3, <1>4, <2>1 DEF Message
<1>6. M!Parsed(w, on_status) =
        IF w.request THEN M!target(M!method(m, w.method), w.target)
        ELSE IF ~on_status THEN m
        ELSE IF w.reason = "" THEN M!status_code(m, w.status)
        ELSE M!reason(M!status_code(m, w.status), w.reason)
  BY DEF M!Parsed, new
<1> HIDE DEF m
<1>7. CASE w.request
  <2> DEFINE a == M!method(m, w.method)
             b == M!target(a, w.target)
  <2>1. /\ a \in Message /\ a.m_headers = m.m_headers /\ a.m_http_minor = m.m_http_minor
        /\ a.m_is_request = TRUE /\ a.m_method = w.method
    <3>1. a \in Message
      BY <1>1, <1>5, SettersTyped
    <3> QED
      BY <1>5, <3>1 DEF M!method, Message
  <2> HIDE DEF a
  <2>2. /\ b \in Message /\ b.m_headers = m.m_headers /\ b.m_http_minor = m.m_http_minor
        /\ b.m_is_request = TRUE /\ b.m_method = w.method /\ b.m_target = w.target
    <3>1. b \in Message
      BY <1>1, <2>1, SettersTyped
    <3> QED
      BY <2>1, <3>1 DEF M!target, Message
  <2>3. M!Parsed(w, on_status) = b
    BY <1>6, <1>7 DEF a
  <2> HIDE DEF b
  <2> QED
    BY <1>5, <1>7, <2>2, <2>3 DEF IsRead
<1>8. CASE ~w.request /\ ~on_status
  BY <1>5, <1>6, <1>8 DEF IsRead
<1>9. CASE ~w.request /\ on_status
  <2> DEFINE a == M!status_code(m, w.status)
             b == M!reason(a, w.reason)
  <2>1. /\ a \in Message /\ a.m_headers = m.m_headers /\ a.m_http_minor = m.m_http_minor
        /\ a.m_is_request = FALSE /\ a.m_status_code = w.status /\ a.m_reason = ""
    <3>1. a \in Message
      BY <1>1, <1>5, SettersTyped
    <3> QED
      BY <1>5, <3>1 DEF M!status_code, Message
  <2> HIDE DEF a
  <2>2. /\ b \in Message /\ b.m_headers = m.m_headers /\ b.m_http_minor = m.m_http_minor
        /\ b.m_is_request = FALSE /\ b.m_status_code = w.status /\ b.m_reason = w.reason
    <3>1. b \in Message
      BY <1>1, <2>1, SettersTyped
    <3> QED
      BY <2>1, <3>1 DEF M!reason, Message
  <2>3. M!Parsed(w, on_status) = IF w.reason = "" THEN a ELSE b
    BY <1>6, <1>9 DEF a
  <2> HIDE DEF b
  <2> QED
    BY <1>5, <1>9, <2>1, <2>2, <2>3 DEF IsRead
<1> QED
  BY <1>1, <1>7, <1>8, <1>9

\* What serialize_headers() writes.
LEMMA SerializedFacts ==
  ASSUME NEW m \in Message, NEW w \in M!Serialized(m)
  PROVE  /\ w \in WireHead /\ w # <<>>
         /\ w.request = m.m_is_request /\ w.target = m.m_target /\ w.reason = m.m_reason
         /\ w.minor = m.m_http_minor /\ w.fields = m.m_headers
         /\ w.request => m.m_method \in {w.method, "unset"}
         /\ ~w.request => m.m_status_code \in {w.status, "unset"}
<1> DEFINE methods == IF ~m.m_is_request THEN {"-"}
                      ELSE IF m.m_method = "unset" THEN M!Methods \cup {"<unknown>"} ELSE {m.m_method}
           statuses == IF m.m_is_request THEN {"-"}
                       ELSE IF m.m_status_code = "unset" THEN M!Statuses \cup {"?"} ELSE {m.m_status_code}
<1>1. /\ m.m_is_request \in BOOLEAN /\ m.m_target \in Seq(Str) /\ m.m_reason \in Str
      /\ m.m_method \in Str /\ m.m_status_code \in Str /\ m.m_http_minor \in {0, 1}
      /\ m.m_headers \in FieldList
  BY DEF Message
<1>2. M!Visited(m.m_headers) = m.m_headers /\ (IF m.m_http_minor = 0 THEN 0 ELSE 1) = m.m_http_minor
  BY <1>1, VisitedAll
<1>3. methods \subseteq Str /\ statuses \subseteq Str
  BY <1>1, StrFacts
<1>4. M!Serialized(m) = [request : {m.m_is_request}, target : {m.m_target}, reason : {m.m_reason},
        method : methods, status : statuses, minor : {m.m_http_minor}, fields : {m.m_headers}]
  BY <1>2 DEF M!Serialized
<1>5. (w.request => m.m_method \in {w.method, "unset"}) /\ (~w.request => m.m_status_code \in {w.status, "unset"})
  <2>1. w.request = m.m_is_request /\ w.method \in methods /\ w.status \in statuses
    <3> HIDE DEF methods, statuses
    <3> QED
      BY <1>4
  <2> QED
    BY <1>1, <2>1
<1> HIDE DEF methods, statuses
<1>6. /\ w.request = m.m_is_request /\ w.target = m.m_target /\ w.reason = m.m_reason
      /\ w.minor = m.m_http_minor /\ w.fields = m.m_headers /\ w.method \in methods /\ w.status \in statuses
      /\ w = [request |-> w.request, target |-> w.target, reason |-> w.reason, method |-> w.method,
              status |-> w.status, minor |-> w.minor, fields |-> w.fields]
  BY <1>4
<1>7. w \in WireHead
  BY <1>1, <1>3, <1>6 DEF WireHead
<1>8. w # <<>>
  <2>1. "request" \in DOMAIN w
    BY <1>6
  <2>2. DOMAIN <<>> = {}
    OBVIOUS
  <2> QED
    BY <2>1, <2>2
<1> QED
  BY <1>5, <1>6, <1>7, <1>8

\* The message b says what the message m said.
Says(m, b) ==
  /\ b.m_is_request = m.m_is_request
  /\ m.m_is_request => b.m_target = m.m_target /\ m.m_method \in {b.m_method, "unset"}
  /\ ~m.m_is_request => b.m_reason = m.m_reason /\ m.m_status_code \in {b.m_status_code, "unset"}
  /\ b.m_http_minor = m.m_http_minor
  /\ m.m_headers # <<>> => AllBut(m.m_headers, b.m_headers)
  /\ ~M!Repeated(m.m_headers) => Alike(m.m_headers, b.m_headers)

\* A message written and read again says what it said, unless it is a response
\* without a reason, which the parser may take for a request.
LEMMA ReadBack ==
  ASSUME NEW m \in Message, NEW w \in M!Serialized(m), NEW on_status \in BOOLEAN,
         w.reason # "" => on_status, m.m_is_request \/ m.m_reason # ""
  PROVE  Says(m, M!Parsed(w, on_status))
<1> DEFINE b == M!Parsed(w, on_status)
<1>1. /\ w \in WireHead
      /\ w.request = m.m_is_request /\ w.target = m.m_target /\ w.reason = m.m_reason
      /\ w.minor = m.m_http_minor /\ w.fields = m.m_headers
      /\ (w.request => m.m_method \in {w.method, "unset"})
      /\ (~w.request => m.m_status_code \in {w.status, "unset"})
  BY SerializedFacts
<1>2. IsRead(b, w, on_status)
  BY <1>1, ParsedIsRead
<1> HIDE DEF b
<1>3. m.m_is_request \in BOOLEAN /\ m.m_headers \in FieldList
  BY DEF Message
<1>4. b.m_headers = FieldsRead(m.m_headers)
  BY <1>1, <1>2 DEF IsRead
<1>5. m.m_headers # <<>> =>
        AllBut(m.m_headers, b.m_headers) /\ (~M!Repeated(m.m_headers) => Alike(m.m_headers, b.m_headers))
  BY <1>3, <1>4, RereadFacts DEF FieldsRead
<1>6. m.m_headers = <<>> => Alike(m.m_headers, b.m_headers)
  <2>1. ASSUME m.m_headers = <<>> PROVE b.m_headers = <<>> /\ <<>> \in FieldList /\ Len(<<>>) = 0
    <3>1. b.m_headers = <<>>
      BY <1>4, <2>1 DEF FieldsRead
    <3>2. <<>> \in Seq(HeaderField) /\ Len(<<>>) = 0
      BY EmptySeq, Zenon
    <3> QED
      BY <3>1, <3>2 DEF FieldList
  <2> QED
    BY <2>1 DEF Alike
<1>7. /\ b.m_http_minor = m.m_http_minor /\ b.m_is_request = m.m_is_request
      /\ (m.m_is_request => b.m_target = m.m_target /\ m.m_method \in {b.m_method, "unset"})
      /\ (~m.m_is_request => b.m_reason = m.m_reason /\ m.m_status_code \in {b.m_status_code, "unset"})
  <2>1. CASE m.m_is_request
    BY <1>1, <1>2, <1>3, <2>1 DEF IsRead
  <2>2. CASE ~m.m_is_request
    <3>1. on_status /\ ~w.request
      BY <1>1, <2>2
    <3> QED
      BY <1>1, <1>2, <1>3, <2>2, <3>1 DEF IsRead
  <2> QED
    BY <2>1, <2>2
<1>8. Says(m, b)
  BY <1>5, <1>6, <1>7 DEF Says
<1> QED
  BY <1>8 DEF b

\* What RoundTrip asks of the message b that was read, when m was written.
Told(m, b) ==
  /\ b.m_is_request = m.m_is_request
  /\ IF m.m_is_request
     THEN b.m_target = m.m_target /\ m.m_method \in {b.m_method, "unset"}
     ELSE b.m_reason = m.m_reason /\ m.m_status_code \in {b.m_status_code, "unset"}
  /\ b.m_http_minor = m.m_http_minor
  /\ LET was == m.m_headers  is == b.m_headers IN
     was # <<>> =>
       /\ Len(is) = IF M!Repeated(was) THEN Len(was) - 1 ELSE Len(was)
       /\ \A i \in DOMAIN is :
            /\ is[i].key = was[i].key
            /\ is[i].value = was[i].value \/ i = M!FindAtIndex(was, M!Last(was).key.name)
       /\ M!find(is, M!Last(was).key.name) # M!end(is)
       /\ M!AtKey(is, M!Last(was).key.name) = M!Trimmed(M!Last(was).value)
  /\ ~M!Repeated(m.m_headers) =>
       /\ M!same_values(m.m_headers, b.m_headers)
       /\ M!content_length(b) = M!content_length(m)
       /\ M!is_connection_keep_alive(b) = M!is_connection_keep_alive(m)
       /\ M!is_connection_close(b.m_headers) = M!is_connection_close(m.m_headers)
       /\ M!headers_keep_alive(b.m_headers) = M!headers_keep_alive(m.m_headers)
       /\ (\A i \in DOMAIN m.m_headers : m.m_headers[i].value = M!Trimmed(m.m_headers[i].value))
            => M!same_order_and_values(m.m_headers, b.m_headers)

LEMMA SaysTold ==
  ASSUME NEW m \in Message, NEW b, Says(m, b)
  PROVE  Told(m, b)
<1> DEFINE was == m.m_headers
           is == b.m_headers
<1>1. Says(m, b) /\ m.m_headers \in FieldList /\ m.m_is_request \in BOOLEAN
  BY DEF Message
<1>2. /\ b.m_is_request = m.m_is_request
      /\ IF m.m_is_request
         THEN b.m_target = m.m_target /\ m.m_method \in {b.m_method, "unset"}
         ELSE b.m_reason = m.m_reason /\ m.m_status_code \in {b.m_status_code, "unset"}
      /\ b.m_http_minor = m.m_http_minor
  BY <1>1 DEF Says
<1> HIDE DEF was, is
<1>3. was # <<>> =>
        /\ Len(is) = IF M!Repeated(was) THEN Len(was) - 1 ELSE Len(was)
        /\ \A i \in DOMAIN is :
             /\ is[i].key = was[i].key
             /\ is[i].value = was[i].value \/ i = M!FindAtIndex(was, M!Last(was).key.name)
        /\ M!find(is, M!Last(was).key.name) # M!end(is)
        /\ M!AtKey(is, M!Last(was).key.name) = M!Trimmed(M!Last(was).value)
  <2> SUFFICES ASSUME was # <<>>
               PROVE  /\ Len(is) = IF M!Repeated(was) THEN Len(was) - 1 ELSE Len(was)
                      /\ \A i \in DOMAIN is :
                           /\ is[i].key = was[i].key
                           /\ is[i].value = was[i].value \/ i = M!FindAtIndex(was, M!Last(was).key.name)
                      /\ M!find(is, M!Last(was).key.name) # M!end(is)
                      /\ M!AtKey(is, M!Last(was).key.name) = M!Trimmed(M!Last(was).value)
    OBVIOUS
  <2>1. AllBut(was, is)
    BY <1>1 DEF Says, was, is
  <2>2. DOMAIN is = 1..Len(is)
    <3>1. is \in Seq(HeaderField)
      BY <2>1 DEF AllBut, FieldList
    <3> QED
      BY <3>1
  <2> QED
    BY <2>1, <2>2 DEF AllBut
<1>4. ~M!Repeated(was) =>
        /\ M!same_values(was, is)
        /\ M!content_length(b) = M!content_length(m)
        /\ M!is_connection_keep_alive(b) = M!is_connection_keep_alive(m)
        /\ M!is_connection_close(is) = M!is_connection_close(was)
        /\ M!headers_keep_alive(is) = M!headers_keep_alive(was)
        /\ (\A i \in DOMAIN was : was[i].value = M!Trimmed(was[i].value)) => M!same_order_and_values(was, is)
  <2> SUFFICES ASSUME ~M!Repeated(was)
               PROVE  /\ M!same_values(was, is)
                      /\ M!content_length(b) = M!content_length(m)
                      /\ M!is_connection_keep_alive(b) = M!is_connection_keep_alive(m)
                      /\ M!is_connection_close(is) = M!is_connection_close(was)
                      /\ M!headers_keep_alive(is) = M!headers_keep_alive(was)
                      /\ (\A i \in DOMAIN was : was[i].value = M!Trimmed(was[i].value)) => M!same_order_and_values(was, is)
    OBVIOUS
  <2>1. Alike(was, is) /\ was \in FieldList
    BY <1>1 DEF Says, was, is
  <2>2. /\ M!same_values(was, is)
        /\ M!is_connection_close(is) = M!is_connection_close(was)
        /\ M!headers_keep_alive(is) = M!headers_keep_alive(was)
        /\ ((\A i \in DOMAIN was : was[i].value = M!Trimmed(was[i].value)) => M!same_order_and_values(was, is))
    BY <2>1, AlikeAnswers
  <2>3. M!content_length(b) = M!content_length(m)
    <3>1. /\ M!Has(is, "CONTENT-LENGTH") = M!Has(was, "CONTENT-LENGTH")
          /\ M!Has(was, "CONTENT-LENGTH") => M!AtKey(is, "CONTENT-LENGTH") = M!AtKey(was, "CONTENT-LENGTH")
      BY <2>1, AlikeFound
    <3> QED
      BY <3>1 DEF M!content_length, was, is
  <2>4. M!is_connection_keep_alive(b) = M!is_connection_keep_alive(m)
    <3>1. /\ M!Has(is, "CONNECTION") = M!Has(was, "CONNECTION")
          /\ M!Has(was, "CONNECTION") => M!AtKey(is, "CONNECTION").kind = M!AtKey(was, "CONNECTION").kind
      BY <2>1, AlikeFound
    <3> QED
      BY <1>2, <3>1 DEF M!is_connection_keep_alive, M!value_keep_alive, M!value_close, was, is
  <2> QED
    BY <2>2, <2>3, <2>4
<1> QED
  BY <1>2, <1>3, <1>4 DEF Told, was, is

-----------------------------------------------------------------------------
(* The steps.                                                               *)

\* The objects are well formed; the head under way is one of the object that
\* was written last; and what was read of it says the same.
MessagesInv ==
  /\ msg \in [M!Objects -> Message]
  /\ sent # <<>> => sent \in Message
  /\ wire # <<>> => wire \in WireHead
  /\ wire # <<>> /\ sent # <<>> => wire \in M!Serialized(sent)
  /\ wire = <<>> /\ sent # <<>> /\ back # <<>> /\ (sent.m_is_request \/ sent.m_reason # "")
       => Told(sent, back)

\* A change ends the comparison of what was written and read.
LEMMA ChangeKeeps ==
  ASSUME MessagesInv, M!Changes, wire' = <<>> \/ wire' \in WireHead, msg' \in [M!Objects -> Message]
  PROVE  MessagesInv'
<1>1. sent' = <<>>
  BY DEF M!Changes
<1> QED
  BY <1>1 DEF MessagesInv

LEMMA SetsKeeps ==
  ASSUME MessagesInv, NEW o \in M!Objects, NEW m \in Message, M!Sets(o, m)
  PROVE  MessagesInv'
<1>1. M!Changes /\ msg' = [msg EXCEPT ![o] = m] /\ wire' = wire /\ wire = <<>>
  BY DEF M!Sets, M!Changes
<1>2. msg' \in [M!Objects -> Message]
  BY <1>1 DEF MessagesInv
<1> QED
  BY <1>1, <1>2, ChangeKeeps

\* The values an application sets.
LEMMA ValuesFit ==
  /\ \A text \in M!Texts : \A name \in M!Names : \A n \in Nat : Fits(name, M!Value(text, n))
  /\ \A name \in M!Names : \A v \in M!Values(name) : Fits(name, v)
  /\ M!Pairs \subseteq FieldList
<1>1. ASSUME NEW text \in M!Texts, NEW name \in M!Names, NEW n \in Nat
      PROVE  Fits(name, M!Value(text, n))
  <2>1. <<n>> \in Seq(Str \cup Nat)
    OBVIOUS
  <2>4. text \in Str /\ name \in Str
    BY StrFacts
  <2>2. M!Value(text, n) \in FieldValue
    BY <2>1, <2>4 DEF M!Value, FieldValue
  <2>3. name # "CONTENT-LENGTH"
    BY DEF M!Names
  <2> QED
    BY <2>2, <2>3, <2>4 DEF Fits
<1>2. ASSUME NEW name \in M!Names, NEW v \in M!Values(name) PROVE Fits(name, v)
  <2>1. PICK text \in M!Texts, n \in {0, 1} : v = M!Value(text, n)
    <3>1. "x" \in M!Texts
      BY DEF M!Texts
    <3> QED
      BY <3>1 DEF M!Values
  <2> QED
    BY <1>1, <2>1
<1>3. M!Pairs \subseteq FieldList
  <2> DEFINE a == M!Field(M!Up("X"), M!Value("x", 0))
             b == M!Field(M!Up("X"), M!Value("x", 1))
             c == M!Field(M!Up("CONNECTION"), M!Value("close", 0))
  <2>1. "X" \in M!Names /\ "CONNECTION" \in M!Names /\ "x" \in M!Texts /\ "close" \in M!Texts
    BY DEF M!Names, M!Texts
  <2>2. a \in HeaderField /\ b \in HeaderField /\ c \in HeaderField
    BY <1>1, <2>1, KeyFacts
  <2>3. M!Pairs = {<<a, b, c>>}
    BY DEF M!Pairs
  <2> HIDE DEF a, b, c
  <2>4. <<a, b, c>> \in FieldList
    BY <2>2 DEF FieldList
  <2> QED
    BY <2>3, <2>4
<1> QED
  BY <1>1, <1>2, <1>3

\* The setters.
LEMMA ByHandKeeps ==
  ASSUME MessagesInv, NEW o \in M!Objects, M!ByHand(o)
  PROVE  MessagesInv'
<1> DEFINE m == msg[o]
<1>1. m \in Message
  BY DEF MessagesInv
<1> HIDE DEF m
<1>2. /\ \A x \in Str : M!method(m, x) \in Message
      /\ \A s \in Str : M!status_code(m, s) \in Message
      /\ \A r \in Str : M!reason(m, r) \in Message
      /\ \A t \in Seq(Str) : M!target(m, t) \in Message
      /\ M!version_minor(m, 0) \in Message
      /\ M!set_body_buffer_chain(m, 1) \in Message
      /\ \A fs \in FieldList : [m EXCEPT !.m_headers = fs] \in Message
  BY <1>1, SettersTyped
<1>3. CASE \E x \in M!Methods : M!Sets(o, M!method(m, x))
  BY <1>2, <1>3, StrFacts, SetsKeeps
<1>4. CASE \E s \in {"200"} : M!Sets(o, M!status_code(m, s))
  <2>1. "200" \in Str
    BY StrFacts DEF M!Statuses
  <2> QED
    BY <1>2, <1>4, <2>1, SetsKeeps
<1>5. CASE \E r \in {"", "OK"} : M!Sets(o, M!reason(m, r))
  BY <1>2, <1>5, StrFacts, SetsKeeps
<1>6. CASE \E us \in Urls : M!Sets(o, M!target(m, M!relativePath(us)))
  BY <1>2, <1>6, UriTyped, SetsKeeps
<1>7. CASE M!Sets(o, M!version_minor(m, 0))
  BY <1>2, <1>7, SetsKeeps
<1>8. CASE \E name \in M!Names : \E v \in M!Values(name) : M!Sets(o, M!header(m, name, v))
  BY <1>1, <1>8, ValuesFit, HeadersTyped, SetsKeeps
<1>9. CASE \E name \in M!Names : M!Sets(o, M!remove_header(m, name))
  BY <1>1, <1>9, HeadersTyped, SetsKeeps
<1>10. CASE \E fs \in M!Pairs : M!Sets(o, [m EXCEPT !.m_headers = M!FromPairs(fs)])
  <2>1. PICK fs \in M!Pairs : M!Sets(o, [m EXCEPT !.m_headers = M!FromPairs(fs)])
    BY <1>10
  <2>2. M!FromPairs(fs) \in FieldList
    BY FromPairsFacts, ValuesFit
  <2>3. [m EXCEPT !.m_headers = M!FromPairs(fs)] \in Message
    BY <1>2, <2>2
  <2> QED
    BY <2>1, <2>3, SetsKeeps
<1>11. CASE M!Sets(o, M!set_body_buffer_chain(m, 1))
  BY <1>2, <1>11, SetsKeeps
<1>12. CASE M!Sets(o, M!set_body(m, 1))
  BY <1>1, <1>12, HeadersTyped, SetsKeeps
<1> QED
  BY <1>3, <1>4, <1>5, <1>6, <1>7, <1>8, <1>9, <1>10, <1>11, <1>12 DEF M!ByHand, m

\* message_factory.cpp and the rules for Connection.
LEMMA ByFactoryKeeps ==
  ASSUME MessagesInv, NEW o \in M!Objects, M!ByFactory(o)
  PROVE  MessagesInv'
<1> DEFINE m == msg[o]
<1>1. m \in Message
  BY DEF MessagesInv
<1> HIDE DEF m
<1>2. ASSUME NEW a \in Message, NEW us \in Urls PROVE M!Host(a, M!host_and_port(us)) \in Message
  BY UriTyped, HeadersTyped DEF M!Host
<1>3. ASSUME NEW x \in M!Methods, NEW us \in Urls
      PROVE  /\ M!make_request(m, x, us) \in Message
             /\ M!make_proxy_request(m, x, us) \in Message
             /\ M!make_proxy_connect_request(m, us) \in Message
  <2>1. M!method(m, x) \in Message /\ M!method(m, "CONNECT") \in Message
    <3>1. x \in Str /\ "CONNECT" \in Str
      BY StrFacts DEF M!Methods
    <3> QED
      BY <1>1, <3>1, SettersTyped
  <2>2. /\ M!target(M!method(m, x), M!relativePath(us)) \in Message
        /\ M!target(M!method(m, x), M!absolutePath(us)) \in Message
        /\ M!target(M!method(m, "CONNECT"), M!host_and_port(us)) \in Message
    BY <2>1, UriTyped, SettersTyped
  <2>3. 0 \in Nat
    OBVIOUS
  <2> QED
    BY <1>2, <2>2, <2>3, HeadersTyped DEF M!make_request, M!make_proxy_request, M!make_proxy_connect_request
<1>4. ASSUME NEW s \in M!Statuses PROVE M!make_response(m, s) \in Message
  <2> DEFINE text == IF s = "200" THEN "OK" ELSE IF s = "403" THEN "Forbidden" ELSE "BAD GATEWAY"
  <2>1. text \in Str /\ s \in Str
    BY StrFacts
  <2>2. M!make_response(m, s) = M!set_body(M!status_code(M!reason(m, text), s), 0)
    BY DEF M!make_response
  <2> HIDE DEF text
  <2>3. M!reason(m, text) \in Message
    BY <1>1, <2>1, SettersTyped
  <2>4. M!status_code(M!reason(m, text), s) \in Message
    BY <2>1, <2>3, SettersTyped
  <2> QED
    BY <2>2, <2>4, HeadersTyped
<1>5. \A q : M!apply_keepalive_rules(q, m) \in Message
  <2>1. Fits("CONNECTION", M!Value("KEEP-ALIVE", 0)) /\ Fits("CONNECTION", M!Value("CLOSE", 0))
    BY ValuesFit DEF M!Names, M!Texts
  <2>2. /\ M!header(m, "CONNECTION", M!Value("KEEP-ALIVE", 0)) \in Message
        /\ M!header(m, "CONNECTION", M!Value("CLOSE", 0)) \in Message
    BY <1>1, <2>1, HeadersTyped
  <2> QED
    BY <2>2 DEF M!apply_keepalive_rules, M!apply_connection_close
<1>6. CASE \E x \in M!Methods, us \in Urls : M!Sets(o, M!make_request(m, x, us))
  BY <1>3, <1>6, SetsKeeps
<1>7. CASE \E x \in M!Methods, us \in Urls : M!Sets(o, M!make_proxy_request(m, x, us))
  BY <1>3, <1>7, SetsKeeps
<1>8. CASE \E us \in Urls : M!Sets(o, M!make_proxy_connect_request(m, us))
  <2>1. "GET" \in M!Methods
    BY DEF M!Methods
  <2> QED
    BY <1>3, <1>8, <2>1, SetsKeeps
<1>9. CASE \E s \in M!Statuses : M!Sets(o, M!make_response(m, s))
  BY <1>4, <1>9, SetsKeeps
<1>10. CASE \E p \in M!Objects \ {o} : M!Sets(o, M!apply_keepalive_rules(msg[p], m))
  BY <1>5, <1>10, SetsKeeps
<1> QED
  BY <1>6, <1>7, <1>8, <1>9, <1>10 DEF M!ByFactory, m

\* Copies and moves.
LEMMA CopiesKeep ==
  ASSUME MessagesInv, NEW o \in M!Objects, NEW p \in M!Objects, M!Copies(o, p) \/ M!Moves(o, p)
  PROVE  MessagesInv'
<1>1. msg[p] \in Message /\ msg \in [M!Objects -> Message]
  BY DEF MessagesInv
<1>2. CASE M!Copies(o, p)
  BY <1>1, <1>2, SetsKeeps DEF M!Copies
<1>3. CASE M!Moves(o, p)
  <2> DEFINE a == msg[p]
             b == M!moved_from(a)
  <2>1. b \in Message
    <3>1. a \in Message
      BY <1>1
    <3>2. <<>> \in FieldList /\ <<>> \in Seq(Str)
      BY DEF FieldList
    <3> HIDE DEF a
    <3> QED
      BY <3>1, <3>2 DEF M!moved_from, M!MovedFrom, Message
  <2>2. msg' = [msg EXCEPT ![o] = a, ![p] = b] /\ M!Changes /\ wire' = wire /\ wire = <<>>
    BY <1>3 DEF M!Moves, M!Changes
  <2>3. a \in Message
    BY <1>1
  <2> HIDE DEF a, b
  <2>4. msg' \in [M!Objects -> Message]
    BY <1>1, <2>1, <2>2, <2>3
  <2> QED
    BY <2>2, <2>4, ChangeKeeps
<1> QED
  BY <1>2, <1>3

\* Another program writes.
LEMMA PeerKeeps ==
  ASSUME MessagesInv, M!PeerWrites
  PROVE  MessagesInv'
<1>1. PICK fs \in M!SeqOf(M!PeerFields, MaxFields) :
        wire' = [request |-> TRUE, target |-> <<"/", "">>, reason |-> "", method |-> "GET",
                 status |-> "-", minor |-> 1, fields |-> fs]
  BY DEF M!PeerWrites
<1>2. M!PeerFields \subseteq HeaderField
  <2>1. "close" \in M!Texts /\ "x" \in M!Texts
    BY DEF M!Texts
  <2>2. ASSUME NEW name \in M!Names, NEW text \in {"close", "x"}
        PROVE  M!Field(M!Up(name), M!Value(text, 0)) \in HeaderField
    BY <2>1, ValuesFit, KeyFacts
  <2> QED
    BY <2>2 DEF M!PeerFields
<1>3. fs \in FieldList
  <2>1. PICK n \in 0..MaxFields : fs \in [1..n -> M!PeerFields]
    BY DEF M!SeqOf
  <2>2. n \in Nat
    BY <2>1, LibraryAssumption
  <2> QED
    BY <1>2, <2>1, <2>2 DEF FieldList
<1>4. wire' \in WireHead
  <2>1. "/" \in Str /\ "" \in Str /\ "GET" \in Str /\ "-" \in Str
    BY StrFacts DEF M!Methods
  <2>2. \A s, t \in Str : <<s, t>> \in Seq(Str)
    OBVIOUS
  <2>3. <<"/", "">> \in Seq(Str)
    BY <2>1, <2>2, Zenon
  <2> QED
    BY <1>1, <1>3, <2>1, <2>3 DEF WireHead
<1>5. M!Changes /\ msg' = msg
  BY DEF M!PeerWrites
<1> QED
  BY <1>4, <1>5, ChangeKeeps DEF MessagesInv

LEMMA WritesKeeps ==
  ASSUME MessagesInv, NEW o \in M!Objects, M!Writes(o)
  PROVE  MessagesInv'
<1>1. msg[o] \in Message /\ msg' = msg /\ wire' \in M!Serialized(msg[o]) /\ sent' = msg[o]
  BY DEF MessagesInv, M!Writes
<1>2. wire' \in WireHead /\ wire' # <<>>
  BY <1>1, SerializedFacts
<1> QED
  BY <1>1, <1>2 DEF MessagesInv

LEMMA ParsesKeeps ==
  ASSUME MessagesInv, NEW o \in M!Objects, M!Parses(o)
  PROVE  MessagesInv'
<1>1. PICK on_status \in BOOLEAN :
        /\ wire.reason # "" => on_status
        /\ IF M!Accepted(wire)
           THEN back' = M!Parsed(wire, on_status) /\ msg' = [msg EXCEPT ![o] = M!Parsed(wire, on_status)]
           ELSE back' = <<>> /\ UNCHANGED msg
  BY DEF M!Parses
<1>2. wire # <<>> /\ wire' = <<>> /\ sent' = sent
  BY DEF M!Parses
<1>3. wire \in WireHead
  BY <1>2 DEF MessagesInv
<1>4. M!Parsed(wire, on_status) \in Message
  BY <1>3, ParsedIsRead DEF IsRead
<1>5. msg' \in [M!Objects -> Message]
  <2> DEFINE b == M!Parsed(wire, on_status)
  <2> HIDE DEF b
  <2>1. msg' = [msg EXCEPT ![o] = b] \/ msg' = msg
    BY <1>1 DEF b
  <2>2. b \in Message /\ msg \in [M!Objects -> Message]
    BY <1>4 DEF b, MessagesInv
  <2> QED
    BY <2>1, <2>2
<1>6. ASSUME sent # <<>>, back' # <<>>, sent.m_is_request \/ sent.m_reason # ""
      PROVE  Told(sent, back')
  <2>1. sent \in Message /\ wire \in M!Serialized(sent) /\ back' = M!Parsed(wire, on_status)
    BY <1>1, <1>2, <1>6 DEF MessagesInv
  <2>2. Says(sent, M!Parsed(wire, on_status))
    BY <1>1, <1>6, <2>1, ReadBack
  <2> QED
    BY <2>1, <2>2, SaysTold
<1> QED
  BY <1>2, <1>5, <1>6 DEF MessagesInv

LEMMA MessagesStep ==
  ASSUME MessagesInv, [M!Next]_M!messages
  PROVE  MessagesInv'
<1>1. "a" \in M!Objects
  BY DEF M!Objects
<1>2. CASE M!ByHand("a")
  BY <1>1, <1>2, ByHandKeeps
<1>3. CASE M!ByFactory("a")
  BY <1>1, <1>3, ByFactoryKeeps
<1>4. CASE M!Writes("a")
  BY <1>1, <1>4, WritesKeeps
<1>5. CASE M!Parses("a")
  BY <1>1, <1>5, ParsesKeeps
<1>6. CASE \E o, p \in M!Objects : M!Copies(o, p) \/ M!Moves(o, p)
  BY <1>6, CopiesKeep
<1>7. CASE M!PeerWrites
  BY <1>7, PeerKeeps
<1>8. CASE UNCHANGED M!messages
  BY <1>8 DEF MessagesInv, M!messages
<1> QED
  BY <1>2, <1>3, <1>4, <1>5, <1>6, <1>7, <1>8 DEF M!Next

LEMMA MessagesStart ==
  ASSUME M!Init
  PROVE  MessagesInv
<1>1. msg \in [M!Objects -> Message]
  BY NewMessage DEF M!Init
<1> QED
  BY <1>1 DEF M!Init, MessagesInv

\* RoundTrip: whatever an application or a peer made of a message, by any
\* number of setters, copies, moves and readings, what serialize_headers()
\* writes and the Parser reads says the same: every field, the first one with
\* the name of the last excepted, is in its place, and the answers about the
\* connection and the length do not change.
THEOREM RoundTripHolds ==
  Spec => []RoundTrip
<1> DEFINE Inv == part = "messages" => MessagesInv
<1>1. Init => Inv
  BY MessagesStart DEF Init
<1>2. Inv /\ [Next]_vars => Inv'
  <2>1. [Next]_vars /\ part' = "messages" => part = "messages" /\ [M!Next]_M!messages
    BY DEF Next, vars, messages, M!messages
  <2> QED
    BY <2>1, MessagesStep
<1>3. Inv => RoundTrip
  <2>1. MessagesInv => M!RoundTrip
    BY DEF MessagesInv, M!RoundTrip, Told
  <2> QED
    BY <2>1 DEF RoundTrip
<1> QED
  BY <1>1, <1>2, <1>3, PTL DEF Spec

=============================================================================
