------------------------------ MODULE Buffers ------------------------------
(***************************************************************************)
(* marvin/buffer: ContigBuffer, its allocation strategies, its factory and *)
(* BufferChain.                                                            *)
(*                                                                         *)
(* A chain keeps the same bytes three times: as shared pointers to blocks  *)
(* (m_chain), as a count (m_size), and as a vector of asio const_buffers   *)
(* (m_asio_chain) that is what a Connection writes and that nothing        *)
(* rebuilds: it is right only if every operation keeps it right.           *)
(*                                                                         *)
(* BufferMallocator::reallocate() has no return statement: its caller gets *)
(* the new address where the build leaves it in the return register, and   *)
(* anything where it does not.  An exception of a strategy that refuses a  *)
(* size is caught nowhere.  Both end the process here.                     *)
(*                                                                         *)
(* No block is in two chains: no code appends to one it shares.  A chain   *)
(* that an assignment operator left inconsistent is not used until it is   *)
(* cleared or made again: the program uses the constructors only.          *)
(***************************************************************************)
EXTENDS Integers, Sequences, SequencesExt

CONSTANTS
  Chains,     \* names of chains
  MinSize,    \* 256: least capacity of the default strategy
  MaxSize,    \* 1024*1024: its largest
  BlockSize,  \* 8192: capacity of a block added by append
  Slack,      \* 100: what a block for more than BlockSize bytes has over
  MaxBytes,   \* bound: bytes put into chains
  MaxBlocks   \* bound: blocks of a chain

VARIABLES
  chain,      \* [Chains -> [m_chain, m_asio_chain, m_size]]
  put,        \* bytes put into chains so far
  ended,      \* the process was ended
  content,    \* ghost: the bytes each chain was given
  assigned    \* ghost: chains an assignment operator wrote over or took from

buffers == <<chain, put, ended, content, assigned>>

Larger(m, n) == IF m > n THEN m ELSE n
Smaller(m, n) == IF m < n THEN m ELSE n

EmptyChain == [m_chain |-> <<>>, m_asio_chain |-> <<>>, m_size |-> 0]

Init ==
  /\ put = 0 /\ ended = FALSE
  /\ chain = [c \in Chains |-> EmptyChain]
  /\ content = [c \in Chains |-> <<>>] /\ assigned = {}

-----------------------------------------------------------------------------
(* ContigBuffer and BufferStrategyInterface.                                *)

\* The constructor that is given a capacity.  bytes are the ones at m_memPtr,
\* mem tells one m_memPtr of the block from the next.
Block(cap) ==
  [m_length |-> 0, m_size |-> 0, m_capacity |-> Larger(cap, MinSize), bytes |-> <<>>, mem |-> 0]

\* allocate() and reallocate_size() refuse more than the limit.
Refused(size) == size > MaxSize

reallocate_size(original, new) == Larger(new, Smaller(MaxSize, 2 * original))

\* append() reallocates when the block would be full, not only when the
\* bytes do not fit.
Reallocates(b, len) == b.m_length + len >= b.m_capacity

Appended(b, bytes) ==
  LET new == b.m_length + Len(bytes)
      grows == Reallocates(b, Len(bytes))
  IN  [m_length |-> new, m_size |-> new,
       m_capacity |-> IF grows THEN reallocate_size(b.m_capacity, new) ELSE b.m_capacity,
       bytes |-> SubSeq(b.bytes, 1, b.m_length) \o bytes,
       mem |-> IF grows THEN b.mem + 1 ELSE b.mem]

toString(b) == SubSeq(b.bytes, 1, b.m_size)
data(b) == SubSeq(b.bytes, 1, b.m_length)

\* const_buffer(data(), size()).
ConstBuffer(b) == [mem |-> b.mem, size |-> b.m_length]

\* makeSPtr(mem, size), makeSPtr(string), makeSPtr(ContigBuffer&): a block of
\* the given capacity that holds the bytes.
Made(cap, bytes) == Appended(Block(cap), bytes)

-----------------------------------------------------------------------------
(* BufferChain.                                                             *)

\* What is read back: to_string(), the blocks' data in amalgamate(), and the
\* asio sequence, whose entries are in the memory of the blocks.
to_string(ch) == FlattenSeq([i \in DOMAIN ch.m_chain |-> toString(ch.m_chain[i])])
Amalgamated(ch) == FlattenSeq([i \in DOMAIN ch.m_chain |-> data(ch.m_chain[i])])
asio_buffer_sequence(ch) ==
  FlattenSeq([i \in DOMAIN ch.m_asio_chain |->
    SubSeq(ch.m_chain[i].bytes, 1, ch.m_asio_chain[i].size)])

\* What m_size is after push_back of each of the blocks.
Counted(size, blocks) ==
  LET total[n \in 0..Len(blocks)] == IF n = 0 THEN size ELSE total[n - 1] + blocks[n].m_length
  IN  total[Len(blocks)]

\* push_back of each of the blocks.
PushedBack(ch, blocks) ==
  [m_chain |-> ch.m_chain \o blocks,
   m_asio_chain |-> ch.m_asio_chain \o [i \in DOMAIN blocks |-> ConstBuffer(blocks[i])],
   m_size |-> Counted(ch.m_size, blocks)]

\* Something throws or goes through the missing return: it may end the process.
Ends == ended' = TRUE /\ UNCHANGED <<chain, put, content, assigned>>

Room(ch, n) == Len(ch.m_chain) + n <= MaxBlocks

Usable(c) == ~ended /\ c \notin assigned

\* Fresh bytes for an operation that is given some.
Given(n) == [i \in 1..n |-> put + i]

\* Mutation: the asio entry of the last block keeps its size and address.
AppendToLast_Stale(ch, bytes) ==
  [ch EXCEPT !.m_chain[Len(ch.m_chain)] = Appended(@, bytes), !.m_size = @ + Len(bytes)]

\* append() to the last block, whose asio entry is made again.
AppendToLast(ch, bytes) ==
  LET b == Appended(Last(ch.m_chain), bytes)
  IN  [ch EXCEPT !.m_chain[Len(ch.m_chain)] = b, !.m_size = @ + Len(bytes),
                 !.m_asio_chain[Len(ch.m_asio_chain)] = ConstBuffer(b)]

\* append() in a block of its own: required_len.
Required(n) == IF n > BlockSize THEN n + Slack ELSE BlockSize

\* Whether the last block takes n more bytes.
FitsLast(ch, n) ==
  ch.m_chain # <<>> /\ Last(ch.m_chain).m_capacity - Last(ch.m_chain).m_length >= n

\* BufferChain::append, as Parser::p_on_body_data calls it.
AppendBytes(c, n) ==
  LET ch == chain[c]
  IN  /\ Usable(c) /\ put + n <= MaxBytes
      /\ put' = put + n
      /\ \/ /\ FitsLast(ch, n)
            /\ chain' = [chain EXCEPT ![c] = AppendToLast(ch, Given(n))]
         \/ /\ ~FitsLast(ch, n) /\ ~Refused(Required(n)) /\ Room(ch, 1)
            /\ chain' = [chain EXCEPT ![c] = PushedBack(ch, <<Made(Required(n), Given(n))>>)]
      /\ content' = [content EXCEPT ![c] = @ \o Given(n)]
      /\ UNCHANGED <<ended, assigned>>

\* An append that reallocates, or that the strategy refuses.
AppendEnds(c, n) ==
  LET ch == chain[c]
  IN  /\ Usable(c) /\ put + n <= MaxBytes
      /\ IF FitsLast(ch, n) THEN Reallocates(Last(ch.m_chain), n)
                            ELSE Refused(Required(n)) \/ Reallocates(Block(Required(n)), n)
      /\ Ends

\* makeBufferChainSPtr(string): a new chain with one block, as set_body and
\* MessageWriter make it.
FromString(c, n) ==
  /\ ~ended /\ put + n <= MaxBytes
  /\ \/ /\ ~Refused(n)
        /\ chain' = [chain EXCEPT ![c] = PushedBack(EmptyChain, <<Made(n, Given(n))>>)]
        /\ put' = put + n
        /\ content' = [content EXCEPT ![c] = Given(n)]
        /\ assigned' = assigned \ {c}
        /\ UNCHANGED ended
     \/ /\ Refused(n) \/ Reallocates(Block(n), n)
        /\ Ends

clear(c) ==
  /\ ~ended
  /\ chain' = [chain EXCEPT ![c] = EmptyChain]
  /\ content' = [content EXCEPT ![c] = <<>>]
  /\ assigned' = assigned \ {c}
  /\ UNCHANGED <<put, ended>>

\* Ghosts: d now has what c has, as far as that is known.
Passes(c, d, known) ==
  /\ content' = [content EXCEPT ![d] = IF known THEN content[c] ELSE <<>>]
  /\ assigned' = IF known THEN assigned \ {d} ELSE assigned \cup {d}

\* amalgamate(), and a chain made of the block: what becomes of a request's
\* body between Client::async_write and MessageWriter.
amalgamate(c, d) ==
  LET bytes == Amalgamated(chain[c])
      size  == chain[c].m_size
  IN  /\ Usable(c)
      /\ \/ /\ ~Refused(Len(bytes))
            /\ chain' = [chain EXCEPT ![d] = PushedBack(EmptyChain, <<Made(size, bytes)>>)]
            /\ Passes(c, d, TRUE)
            /\ UNCHANGED <<put, ended>>
         \/ /\ Refused(Len(bytes)) \/ Reallocates(Block(size), Len(bytes))
            /\ Ends

\* The blocks of a deep copy: each has the capacity of its original.
Copies(ch) == [i \in DOMAIN ch.m_chain |-> Made(ch.m_chain[i].m_capacity, data(ch.m_chain[i]))]

\* The copy constructor pushes copies into an empty chain, the copy
\* assignment into what is there, after it set m_size to 0.  A copy of a full
\* block reallocates.
CopyInto(c, d, base) ==
  /\ Usable(c) /\ c # d /\ Room(base, Len(chain[c].m_chain))
  /\ \/ /\ chain' = [chain EXCEPT ![d] = PushedBack(base, Copies(chain[c]))]
        /\ Passes(c, d, base = EmptyChain)
        /\ UNCHANGED <<put, ended>>
     \/ /\ \E i \in DOMAIN chain[c].m_chain : Copies(chain[c])[i].mem > 0
        /\ Ends

CopyConstruct(c, d) == CopyInto(c, d, EmptyChain)

CopyAssign(c, d) == Usable(d) /\ CopyInto(c, d, [chain[d] EXCEPT !.m_size = 0])

\* The move constructor leaves an empty chain behind.
MoveConstruct(c, d) ==
  /\ Usable(c) /\ c # d
  /\ chain' = [chain EXCEPT ![d] = chain[c], ![c] = EmptyChain]
  /\ content' = [content EXCEPT ![d] = content[c], ![c] = <<>>]
  /\ assigned' = assigned \ {d}
  /\ UNCHANGED <<put, ended>>

\* The move assignment swaps m_chain and m_size, and not m_asio_chain.
MoveAssign(c, d) ==
  /\ Usable(c) /\ c # d
  /\ Usable(d)
  /\ chain' = [chain EXCEPT ![c] = [@ EXCEPT !.m_chain = chain[d].m_chain, !.m_size = chain[d].m_size],
                            ![d] = [@ EXCEPT !.m_chain = chain[c].m_chain, !.m_size = chain[c].m_size]]
  /\ content' = [content EXCEPT ![c] = <<>>, ![d] = <<>>]
  /\ assigned' = assigned \cup {c, d}
  /\ UNCHANGED <<put, ended>>

Next ==
  \/ \E c \in Chains :
       \/ clear(c)
       \/ \E n \in 1..MaxBytes : AppendBytes(c, n) \/ AppendEnds(c, n) \/ FromString(c, n)
       \/ \E d \in Chains :
            \/ amalgamate(c, d) \/ CopyConstruct(c, d) \/ CopyAssign(c, d)
            \/ MoveConstruct(c, d) \/ MoveAssign(c, d)

-----------------------------------------------------------------------------
\* A chain that the constructors, append, push_back and amalgamate made holds
\* the bytes it was given, in order and once, in all of its forms: its size, its
\* string, its amalgam and the sequence a Connection writes, which points at
\* memory that still is the block's.  No block has more bytes than memory.
ChainHolds ==
  \A c \in Chains :
    LET ch == chain[c]
    IN  /\ \A i \in DOMAIN ch.m_chain :
             ch.m_chain[i].m_length <= ch.m_chain[i].m_capacity /\ ~Refused(ch.m_chain[i].m_capacity)
        /\ c \notin assigned =>
             /\ ch.m_size = Len(content[c])
             /\ to_string(ch) = content[c] /\ Amalgamated(ch) = content[c]
             /\ Len(ch.m_asio_chain) = Len(ch.m_chain)
             /\ \A i \in DOMAIN ch.m_chain : ch.m_asio_chain[i].mem = ch.m_chain[i].mem
             /\ asio_buffer_sequence(ch) = content[c]
=============================================================================
