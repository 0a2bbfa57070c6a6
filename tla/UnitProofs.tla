------------------------------ MODULE UnitProofs -----------------------------
(****************************************************************************)
(* The heap, the scheduler, the disk log, the log, the keyboard and the     *)
(* screen, each for any sizes.                                              *)
(*                                                                          *)
(* HeapSound is inductive as it stands: a new block is disjoint from the    *)
(* others because theirs are marked (BlocksMarked), a block given back      *)
(* leaves the others marked because they are apart from it (BlocksApart).   *)
(*                                                                          *)
(* PrioritiesKept holds for any number of processes, forks and dumps: what  *)
(* dump_fd_graph takes from a process it gives back before it is done,      *)
(* although those it has come to already run, fork and end meanwhile.       *)
(*                                                                          *)
(* DiskLogSound: the position in the log is behind all that was written     *)
(* (InStep), so that the next piece comes to no character's place (Found).  *)
(*                                                                          *)
(* LogSound: the slot i before log_cnt holds the i-th latest entry          *)
(* (RingIsLog), and the loop of GET_PID_LOG ends and comes by every slot.   *)
(*                                                                          *)
(* KeyboardSound: what is due to the terminal is what the bytes that are    *)
(* still to be read tell, read from where keyboard_read is (KbInv).         *)
(*                                                                          *)
(* ScreenSound: the lines printed last are in memory as far back as the     *)
(* console reaches, in sight or not (ScrInv); so a window anywhere shows    *)
(* them, and the restarted console keeps those it had in sight.             *)
(****************************************************************************)
EXTENDS Heap, Sched, DiskLog, Log, Keyboard, Screen, FiniteSetTheorems, SequenceTheorems,
        WellFoundedInduction, TLAPS

-----------------------------------------------------------------------------
(* Numbers                                                                 *)

\* Every set of numbers that is not empty has a least one.
LEMMA LeastOf ==
    ASSUME NEW T \in SUBSET Nat, T # {}
    PROVE  \E n \in T : \A m \in T : n <= m
<1>1. \E n \in T : \A m \in T : <<m, n>> \notin OpToRel(<, Nat)
  BY NatLessThanWellFounded, WFMin, Zenon
<1>2. PICK n \in T : \A m \in T : <<m, n>> \notin {s \in Nat \X Nat : s[1] < s[2]}
  BY <1>1, Zenon DEF OpToRel
<1>3. \A m \in T : ~(m < n)
  BY <1>2
<1>. QED  BY <1>3

\* Division with a remainder.
LEMMA Division ==
    ASSUME NEW n \in Nat, NEW d \in Nat \ {0}
    PROVE  /\ n \div d \in Nat /\ n % d \in 0..d - 1
           /\ n = d * (n \div d) + (n % d)
OBVIOUS

\* A number in the row q of length d is where the division says.
LEMMA Place ==
    ASSUME NEW d \in Nat \ {0}, NEW q \in Nat, NEW r \in 0..d - 1
    PROVE  (d * q + r) \div d = q /\ (d * q + r) % d = r
<1>1. d * q + r \in Nat
  OBVIOUS
<1> DEFINE n == d * q + r
<1>2. n \in Nat /\ n \div d \in Nat /\ n % d \in 0..d - 1 /\ n = d * (n \div d) + (n % d)
  BY <1>1, Division
<1>3. CASE n \div d < q
  BY <1>2, <1>3
<1>4. CASE n \div d > q
  BY <1>2, <1>4
<1>5. CASE n \div d = q
  BY <1>2, <1>5
<1>. QED  BY <1>2, <1>3, <1>4, <1>5

-----------------------------------------------------------------------------
(* The heap (memory management)                                            *)

\* A number of blocks is a natural number.
LEMMA NrBlocksNat == \A size \in HeapSizes : NrBlocks(size) \in Nat
<1>1. SUFFICES ASSUME NEW size \in HeapSizes PROVE NrBlocks(size) \in Nat
  OBVIOUS
<1>2. size \in Nat \ {0} /\ MALLOC_BLOCK_SIZE \in Nat \ {0}
  BY HeapAssumption
<1>3. size + MALLOC_BLOCK_SIZE - 1 \in Nat
  BY <1>2
<1>4. \A k \in Nat, d \in Nat \ {0} : k \div d \in Nat
  OBVIOUS
<1>. QED  BY <1>2, <1>3, <1>4 DEF NrBlocks

\* The bits of a run are numbers.
LEMMA RunNat ==
    ASSUME NEW pid \in HeapPids, NEW s \in Nat, NEW n \in Nat
    PROVE  Run(pid, s, n) \subseteq Nat
<1>1. pid \in Nat /\ RowBits \in Nat
  BY HeapAssumption
<1>2. pid * RowBits \in Nat
  BY <1>1
<1>. QED  BY <1>2 DEF Run

\* The starts that are tried are numbers, and leave room for a request that
\* a heap can take.
LEMMA StartsBounded ==
    ASSUME NEW pid \in HeapPids, NEW n \in Nat, NEW s \in Starts(pid, n)
    PROVE  s \in Nat /\ (n <= total_blocks => s + n <= total_blocks)
<1>1. pid \in Nat /\ RowBits \in Nat /\ total_blocks \in Nat /\ NrRows \in Nat
  BY HeapAssumption
<1>2. (NrRows - pid) * RowBits - n \in Int
  BY <1>1
<1>3. CASE n <= total_blocks
  BY <1>1, <1>3 DEF Starts
<1>4. CASE ~ (n <= total_blocks)
  BY <1>2, <1>4 DEF Starts
<1>. QED  BY <1>3, <1>4

LEMMA HeapSoundInit == HeapInit => HeapSound
BY DEF HeapInit, HeapSound, HeapTypeOK, BlocksApart, BlocksMarked, BlocksInHeap,
       NothingLost, HeldBits

\* The bits of a block that somebody has are marked.
LEMMA BlockMarked ==
    ASSUME BlocksMarked, NEW p \in HeapPids, NEW b \in blocks[p]
    PROVE  BitsOf(p, b) \subseteq bitmap
BY DEF BlocksMarked, HeldBits

\* malloc keeps what is sound: the new block's bits were free.
LEMMA MallocKeeps ==
    ASSUME HeapSound, NEW pid \in HeapPids, NEW size \in HeapSizes, Malloc(pid, size)
    PROVE  HeapSound'
<1> DEFINE n == NrBlocks(size)
<1>1. n \in Nat
  BY NrBlocksNat
<1>2. PICK s \in Fits(pid, n) :
         /\ bitmap' = bitmap \cup Run(pid, s, n)
         /\ blocks' = [blocks EXCEPT ![pid] = @ \cup {[start |-> s, size |-> size]}]
         /\ leaked' = leaked
  BY DEF Malloc
<1>3. s \in Starts(pid, n) /\ Run(pid, s, n) \cap bitmap = {}
  BY <1>2 DEF Fits
<1>4. s \in Nat /\ (n <= total_blocks => s + n <= total_blocks)
  BY <1>1, <1>3, StartsBounded
<1> DEFINE new == [start |-> s, size |-> size]
<1>5. /\ blocks \in [HeapPids -> SUBSET [start : Nat, size : HeapSizes]]
      /\ bitmap \subseteq Nat /\ leaked \subseteq Nat
  BY DEF HeapSound, HeapTypeOK
<1>6. new \in [start : Nat, size : HeapSizes] /\ new.start = s /\ new.size = size
  BY <1>4
<1>7. BitsOf(pid, new) = Run(pid, s, n)
  BY <1>6 DEF BitsOf
<1>8. /\ blocks'[pid] = blocks[pid] \cup {new}
      /\ \A p \in HeapPids \ {pid} : blocks'[p] = blocks[p]
      /\ \A p \in HeapPids : \A b \in blocks'[p] : b \in blocks[p] \/ (p = pid /\ b = new)
      /\ \A p \in HeapPids : blocks[p] \subseteq blocks'[p]
  BY <1>2, <1>5
<1> HIDE DEF n, new
<1>9. HeapTypeOK'
  <2>1. bitmap' \subseteq Nat
    BY <1>1, <1>2, <1>4, <1>5, RunNat
  <2>2. blocks' \in [HeapPids -> SUBSET [start : Nat, size : HeapSizes]]
    BY <1>2, <1>5, <1>6 DEF new
  <2>. QED  BY <1>2, <1>5, <2>1, <2>2 DEF HeapTypeOK
<1>10. \A p \in HeapPids : \A b \in blocks[p] :
          BitsOf(p, b) \subseteq bitmap /\ BitsOf(p, b) \cap BitsOf(pid, new) = {}
  BY <1>3, <1>7, BlockMarked DEF HeapSound
<1>11. BlocksApart'
  <2>1. SUFFICES ASSUME NEW p \in HeapPids, NEW q \in HeapPids,
                        NEW b \in blocks'[p], NEW c \in blocks'[q], <<p, b>> # <<q, c>>
                 PROVE  BitsOf(p, b) \cap BitsOf(q, c) = {}
    BY DEF BlocksApart, BitsOf, Run
  <2>2. CASE b \in blocks[p] /\ c \in blocks[q]
    BY <2>1, <2>2 DEF HeapSound, BlocksApart
  <2>3. CASE b \in blocks[p] /\ q = pid /\ c = new
    BY <1>10, <2>3
  <2>4. CASE p = pid /\ b = new /\ c \in blocks[q]
    BY <1>10, <2>4
  <2>5. CASE p = pid /\ b = new /\ q = pid /\ c = new
    BY <2>1, <2>5
  <2>. QED  BY <1>8, <2>2, <2>3, <2>4, <2>5
<1>12. BlocksMarked'
  <2>1. \A p \in HeapPids : \A b \in blocks'[p] : BitsOf(p, b) \subseteq bitmap'
    BY <1>2, <1>7, <1>8, <1>10
  <2>. QED  BY <2>1 DEF BlocksMarked, HeldBits, BitsOf, Run
<1>13. BlocksInHeap'
  <2>1. \A p \in HeapPids : \A b \in blocks'[p] :
           NrBlocks(b.size) <= total_blocks => b.start + NrBlocks(b.size) <= total_blocks
    <3>1. NrBlocks(new.size) <= total_blocks => new.start + NrBlocks(new.size) <= total_blocks
      BY <1>4, <1>6 DEF n
    <3>. QED  BY <1>8, <3>1 DEF HeapSound, BlocksInHeap
  <2>. QED  BY <2>1 DEF BlocksInHeap, NrBlocks
<1>14. NothingLost'
  <2>1. \A x \in bitmap' : x \in leaked' \/ \E p \in HeapPids : \E b \in blocks'[p] : x \in BitsOf(p, b)
    <3>1. SUFFICES ASSUME NEW x \in bitmap'
                   PROVE  x \in leaked' \/ \E p \in HeapPids : \E b \in blocks'[p] : x \in BitsOf(p, b)
      OBVIOUS
    <3>2. CASE x \in bitmap
      BY <1>2, <1>8, <3>2 DEF HeapSound, NothingLost, HeldBits
    <3>3. CASE x \in Run(pid, s, n)
      BY <1>7, <1>8, <3>3
    <3>. QED  BY <1>2, <3>2, <3>3
  <2>. QED  BY <2>1 DEF NothingLost, HeldBits, BitsOf, Run
<1>. QED  BY <1>9, <1>11, <1>12, <1>13, <1>14 DEF HeapSound

\* free keeps what is sound: other blocks have none of the bits it clears.
LEMMA GiveBackKeeps ==
    ASSUME HeapSound, NEW pid \in HeapPids, NEW b \in blocks[pid], GiveBack(pid, b)
    PROVE  HeapSound'
<1>1. /\ blocks \in [HeapPids -> SUBSET [start : Nat, size : HeapSizes]]
      /\ bitmap \subseteq Nat /\ leaked \subseteq Nat
  BY DEF HeapSound, HeapTypeOK
<1>2. blocks' = [blocks EXCEPT ![pid] = @ \ {b}]
  BY DEF GiveBack
<1>3. /\ \A p \in HeapPids : blocks'[p] \subseteq blocks[p]
      /\ blocks'[pid] = blocks[pid] \ {b}
      /\ \A p \in HeapPids \ {pid} : blocks'[p] = blocks[p]
  BY <1>1, <1>2
<1>4. \/ leaked' = leaked \cup BitsOf(pid, b) /\ bitmap' = bitmap
      \/ leaked' = leaked /\ bitmap' = bitmap \ BitsOf(pid, b)
  BY DEF GiveBack, BitsOf
<1>5. \A p \in HeapPids : \A c \in blocks'[p] :
         BitsOf(p, c) \subseteq bitmap /\ BitsOf(p, c) \cap BitsOf(pid, b) = {}
  <2>1. SUFFICES ASSUME NEW p \in HeapPids, NEW c \in blocks'[p]
                 PROVE  BitsOf(p, c) \subseteq bitmap /\ BitsOf(p, c) \cap BitsOf(pid, b) = {}
    OBVIOUS
  <2>2. c \in blocks[p] /\ <<p, c>> # <<pid, b>>
    BY <1>3
  <2>. QED  BY <2>2, BlockMarked DEF HeapSound, BlocksApart
<1>6. HeapTypeOK'
  <2>1. bitmap' \subseteq Nat /\ leaked' \subseteq Nat
    BY <1>1, <1>4, BlockMarked DEF HeapSound
  <2>2. blocks' \in [HeapPids -> SUBSET [start : Nat, size : HeapSizes]]
    BY <1>1, <1>2
  <2>. QED  BY <2>1, <2>2 DEF HeapTypeOK
<1>7. BlocksApart'
  <2>1. SUFFICES ASSUME NEW p \in HeapPids, NEW q \in HeapPids,
                        NEW b1 \in blocks'[p], NEW b2 \in blocks'[q], <<p, b1>> # <<q, b2>>
                 PROVE  BitsOf(p, b1) \cap BitsOf(q, b2) = {}
    BY DEF BlocksApart, BitsOf, Run
  <2>2. b1 \in blocks[p] /\ b2 \in blocks[q]
    BY <1>3
  <2>3. BlocksApart
    BY DEF HeapSound
  <2>. QED  BY <2>1, <2>2, <2>3 DEF BlocksApart
<1>8. BlocksMarked'
  <2>1. \A p \in HeapPids : \A c \in blocks'[p] : BitsOf(p, c) \subseteq bitmap'
    BY <1>4, <1>5
  <2>. QED  BY <2>1 DEF BlocksMarked, HeldBits, BitsOf, Run
<1>9. BlocksInHeap'
  BY <1>3 DEF HeapSound, BlocksInHeap, NrBlocks
<1>10. NothingLost'
  <2>1. SUFFICES ASSUME NEW x \in bitmap'
                 PROVE  x \in leaked' \/ \E p \in HeapPids : \E c \in blocks'[p] : x \in BitsOf(p, c)
    BY DEF NothingLost, HeldBits, BitsOf, Run
  <2>2. x \in bitmap /\ (x \in leaked \/ \E p \in HeapPids : \E c \in blocks[p] : x \in BitsOf(p, c))
    BY <1>4 DEF HeapSound, NothingLost, HeldBits
  <2>3. CASE x \in leaked
    BY <1>4, <2>3
  <2>4. CASE \E p \in HeapPids : \E c \in blocks[p] : x \in BitsOf(p, c)
    <3>0. PICK p \in HeapPids : \E c \in blocks[p] : x \in BitsOf(p, c)
      BY <2>4
    <3>1. PICK c \in blocks[p] : x \in BitsOf(p, c)
      BY <3>0
    <3>2. CASE p = pid /\ c = b
      BY <1>4, <3>1, <3>2
    <3>3. CASE ~ (p = pid /\ c = b)
      BY <1>3, <3>1, <3>3
    <3>. QED  BY <3>2, <3>3
  <2>. QED  BY <2>2, <2>3, <2>4
<1>. QED  BY <1>6, <1>7, <1>8, <1>9, <1>10 DEF HeapSound

\* The death of a process keeps what is sound: its bits stay set, for nobody.
LEMMA DiesKeeps ==
    ASSUME HeapSound, NEW pid \in HeapPids, Dies(pid)
    PROVE  HeapSound'
<1>1. /\ blocks \in [HeapPids -> SUBSET [start : Nat, size : HeapSizes]]
      /\ bitmap \subseteq Nat /\ leaked \subseteq Nat
  BY DEF HeapSound, HeapTypeOK
<1>2. /\ blocks' = [blocks EXCEPT ![pid] = {}]
      /\ leaked' = leaked \cup HeldBits(pid) /\ bitmap' = bitmap
  BY DEF Dies
<1>3. /\ blocks'[pid] = {}
      /\ \A p \in HeapPids : blocks'[p] \subseteq blocks[p]
      /\ \A p \in HeapPids \ {pid} : blocks'[p] = blocks[p]
  BY <1>1, <1>2
<1>4. HeapTypeOK'
  BY <1>1, <1>2 DEF HeapTypeOK, HeapSound, BlocksMarked
<1>5. BlocksApart'
  <2>1. SUFFICES ASSUME NEW p \in HeapPids, NEW q \in HeapPids,
                        NEW b1 \in blocks'[p], NEW b2 \in blocks'[q], <<p, b1>> # <<q, b2>>
                 PROVE  BitsOf(p, b1) \cap BitsOf(q, b2) = {}
    BY DEF BlocksApart, BitsOf, Run
  <2>2. b1 \in blocks[p] /\ b2 \in blocks[q]
    BY <1>3
  <2>3. BlocksApart
    BY DEF HeapSound
  <2>. QED  BY <2>1, <2>2, <2>3 DEF BlocksApart
<1>6. BlocksMarked'
  <2>1. \A p \in HeapPids : \A c \in blocks'[p] : BitsOf(p, c) \subseteq bitmap'
    BY <1>2, <1>3, BlockMarked DEF HeapSound
  <2>. QED  BY <2>1 DEF BlocksMarked, HeldBits, BitsOf, Run
<1>7. BlocksInHeap'
  BY <1>3 DEF HeapSound, BlocksInHeap, NrBlocks
<1>8. NothingLost'
  <2>1. SUFFICES ASSUME NEW x \in bitmap'
                 PROVE  x \in leaked' \/ \E p \in HeapPids : \E c \in blocks'[p] : x \in BitsOf(p, c)
    BY DEF NothingLost, HeldBits, BitsOf, Run
  <2>2. x \in leaked \/ \E p \in HeapPids : \E c \in blocks[p] : x \in BitsOf(p, c)
    BY <1>2 DEF HeapSound, NothingLost, HeldBits
  <2>. QED  BY <1>2, <1>3, <2>2 DEF HeldBits
<1>. QED  BY <1>4, <1>5, <1>6, <1>7, <1>8 DEF HeapSound

\* HeapSound: in heaps of any size, whatever programs ask for, give back, or
\* die with, no two share a word, blocks in use stay marked, and nothing is
\* lost but what a death or a refused free leaves (do_mallocfree).
THEOREM HeapAlwaysSound == HeapSpec => []HeapSound
<1>1. HeapInit => HeapSound
  BY HeapSoundInit
<1>2. HeapSound /\ [HeapNext]_heapVars => HeapSound'
  <2>1. SUFFICES ASSUME HeapSound, [HeapNext]_heapVars PROVE HeapSound'
    OBVIOUS
  <2>2. CASE UNCHANGED heapVars
    <3>1. bitmap' = bitmap /\ blocks' = blocks /\ leaked' = leaked
      BY <2>2 DEF heapVars
    <3>2. HeapTypeOK' /\ BlocksMarked' /\ NothingLost'
      BY <2>1, <3>1 DEF HeapSound, HeapTypeOK, BlocksMarked, NothingLost, HeldBits, BitsOf, Run
    <3>3. BlocksApart'
      <4>1. SUFFICES ASSUME NEW p \in HeapPids, NEW q \in HeapPids,
                            NEW b1 \in blocks'[p], NEW b2 \in blocks'[q], <<p, b1>> # <<q, b2>>
                     PROVE  BitsOf(p, b1) \cap BitsOf(q, b2) = {}
        BY DEF BlocksApart, BitsOf, Run
      <4>2. b1 \in blocks[p] /\ b2 \in blocks[q]
        BY <3>1
      <4>3. BlocksApart
        BY <2>1 DEF HeapSound
      <4>. QED  BY <4>1, <4>2, <4>3 DEF BlocksApart
    <3>4. BlocksInHeap'
      BY <2>1, <3>1 DEF HeapSound, BlocksInHeap, NrBlocks
    <3>. QED  BY <3>2, <3>3, <3>4 DEF HeapSound
  <2>3. CASE \E pid \in HeapPids, size \in HeapSizes : Malloc(pid, size)
    BY <2>1, <2>3, MallocKeeps
  <2>4. CASE \E pid \in HeapPids : \E b \in blocks[pid] : GiveBack(pid, b)
    <3>1. PICK pid \in HeapPids : \E b \in blocks[pid] : GiveBack(pid, b)
      BY <2>4
    <3>2. PICK b \in blocks[pid] : GiveBack(pid, b)
      BY <3>1
    <3>. QED  BY <2>1, <3>2, GiveBackKeeps
  <2>5. CASE \E pid \in HeapPids : Dies(pid)
    BY <2>1, <2>5, DiesKeeps
  <2>. QED  BY <2>1, <2>2, <2>3, <2>4, <2>5 DEF HeapNext
<1>. QED  BY <1>1, <1>2, PTL DEF HeapSpec

-----------------------------------------------------------------------------
(* The scheduler                                                           *)

Slot  == [flags : {"ready", "blocked", "free"}, ticks : Nat, prio : Nat]
Table == [SchedProcs -> Slot]

\* A process waits for its priority: it is saved, and the loop has not come
\* to it, or comes to it next.
ToCome(p, d) == p \in DOMAIN d.saved /\ (d.slot = NoProc \/ d.slot <= p)

\* Without a dump, everybody has his priority; during one, everybody has it
\* or will get it, and nobody else's was saved for him.
KeptIn(t, o, d) ==
    /\ d.phase = "none" =>
          \A p \in SchedProcs \ o : t[p].flags # "free" => t[p].prio = PrioOf(p)
    /\ d.phase # "none" =>
          /\ DOMAIN d.saved \subseteq SchedProcs \ Spared
          /\ d.slot \in (SchedProcs \ Helpers) \cup {NoProc}
          /\ \A p \in DOMAIN d.saved : d.saved[p] \in [ticks : Nat, prio : Nat]
          /\ \A p \in SchedProcs \ o : t[p].flags # "free" =>
                /\ t[p].prio = PrioOf(p) \/ ToCome(p, d)
                /\ p \in Spared \/ p \in DOMAIN d.saved
                /\ p \in DOMAIN d.saved => d.saved[p].prio = PrioOf(p)

\* The tasks are there for ever, and so is, for now, who runs or ran last.
TasksThere(t)  == \A p \in Tasks : t[p].flags # "free"
There(t, r)    == r \in SchedProcs /\ t[r].flags # "free"
IsDump(d)      == d = [phase |-> d.phase, waits |-> d.waits, slot |-> d.slot, saved |-> d.saved]

SchedInv ==
    /\ pt \in Table /\ IsDump(dump)
    /\ TasksThere(pt) /\ There(pt, p_proc_ready)
    /\ KeptIn(pt, odd, dump)

-----------------------------------------------------------------------------
\* A set of slots that is not empty has a first one.
LEMMA MinExists ==
    ASSUME NEW S \in SUBSET SchedProcs, S # {}
    PROVE  Min(S) \in S /\ \A y \in S : Min(S) <= y
<1>1. S \in SUBSET Nat
  BY SchedAssumption
<1>2. \E k \in S : \A y \in S : k <= y
  BY <1>1, LeastOf
<1>. QED  BY <1>2 DEF Min

\* Two tables in which the same slots are free and priorities are the same.
Alike(t, u) ==
    \A p \in SchedProcs : u[p].prio = t[p].prio /\ (u[p].flags = "free" <=> t[p].flags = "free")

LEMMA AlikeKept ==
    ASSUME NEW t, NEW u, NEW o, NEW d, Alike(t, u), KeptIn(t, o, d)
    PROVE  KeptIn(u, o, d)
BY DEF Alike, KeptIn

LEMMA AlikeThere ==
    ASSUME NEW t, NEW u, Alike(t, u), TasksThere(t)
    PROVE  TasksThere(u) /\ \A r : There(t, r) => There(u, r)
BY SchedAssumption DEF Alike, TasksThere, There, Tasks

LEMMA AlikeTrans ==
    ASSUME NEW t, NEW u, NEW v, Alike(t, u), Alike(u, v)
    PROVE  Alike(t, v)
BY DEF Alike

\* schedule() hands out ticks and picks somebody who is ready.
LEMMA RefillAlike ==
    ASSUME NEW t \in Table
    PROVE  Refill(t) \in Table /\ Alike(t, Refill(t))
BY DEF Table, Slot, Refill, ReadyIn, Alike

LEMMA ChoosesKeeps ==
    ASSUME NEW t \in Table, There(t, p_proc_ready), Chooses(t)
    PROVE  pt' = t /\ There(t, p_proc_ready')
<1>1. PICK best \in {Greatest(t)} :
         /\ pt' = t
         /\ p_proc_ready' = IF best = {} THEN p_proc_ready ELSE Min(best)
  BY DEF Chooses
<1>2. CASE best = {}
  BY <1>1, <1>2
<1>3. CASE best # {}
  <2>1. best \in SUBSET SchedProcs /\ \A p \in best : t[p].flags = "ready"
    BY <1>1 DEF Greatest, ReadyIn
  <2>2. Min(best) \in best
    BY <1>3, <2>1, MinExists
  <2>. QED  BY <1>1, <1>3, <2>1, <2>2 DEF There
<1>. QED  BY <1>2, <1>3

LEMMA ScheduleKeeps ==
    ASSUME NEW t \in Table, There(t, p_proc_ready), TasksThere(t), schedule(t)
    PROVE  pt' \in Table /\ Alike(t, pt') /\ There(pt', p_proc_ready')
<1>1. PICK full \in {t, Refill(t)} : Chooses(full)
  BY DEF schedule
<1>2. full \in Table /\ Alike(t, full)
  BY RefillAlike DEF Alike
<1>3. There(full, p_proc_ready)
  BY <1>2, AlikeThere
<1>. QED  BY <1>1, <1>2, <1>3, ChoosesKeeps

\* What schedule(t) does, when t differs from pt in nothing SchedInv tells.
LEMMA ScheduleStep ==
    ASSUME SchedInv, NEW t \in Table, Alike(pt, t), schedule(t)
    PROVE  pt' \in Table /\ Alike(pt, pt') /\ There(pt', p_proc_ready')
<1>1. TasksThere(t) /\ There(t, p_proc_ready)
  BY AlikeThere DEF SchedInv
<1>2. pt' \in Table /\ Alike(t, pt') /\ There(pt', p_proc_ready')
  BY <1>1, ScheduleKeeps
<1>. QED  BY <1>2, AlikeTrans

\* A step that leaves the dump and every priority alone.
LEMMA AlikeStep ==
    ASSUME SchedInv, UNCHANGED <<dump, odd>>,
           pt' \in Table, Alike(pt, pt'), There(pt', p_proc_ready')
    PROVE  SchedInv'
<1>1. TasksThere(pt')
  BY AlikeThere DEF SchedInv
<1>2. KeptIn(pt', odd, dump)
  BY AlikeKept DEF SchedInv
<1>. QED  BY <1>1, <1>2 DEF SchedInv

-----------------------------------------------------------------------------
\* The flags or the ticks of a slot change, and it stays taken or free.
LEMMA FlagsAlike ==
    ASSUME NEW t \in Table, NEW p \in SchedProcs, NEW f \in {"ready", "blocked"},
           t[p].flags # "free"
    PROVE  LET u == [t EXCEPT ![p].flags = f] IN u \in Table /\ Alike(t, u)
BY DEF Table, Slot, Alike

LEMMA ChargedAlike ==
    ASSUME SchedInv
    PROVE  Charged \in Table /\ Alike(pt, Charged)
<1>1. p_proc_ready \in SchedProcs /\ pt \in [SchedProcs -> Slot]
  BY DEF SchedInv, There, Table
<1>. DEFINE n == IF pt[p_proc_ready].ticks > 0 THEN pt[p_proc_ready].ticks - 1 ELSE 0
<1>2. n \in Nat
  BY <1>1 DEF Slot
<1>3. Charged = [pt EXCEPT ![p_proc_ready].ticks = n]
  BY DEF Charged
<1>. HIDE DEF n
<1>. QED  BY <1>1, <1>2, <1>3 DEF Table, Slot, Alike

LEMMA AskingAlike ==
    ASSUME NEW t \in Table, TasksThere(t), NEW h \in Helpers
    PROVE  Asking(t, h) \in Table /\ Alike(t, Asking(t, h))
<1>1. h \in SchedProcs /\ Filer \in SchedProcs /\ h \in Tasks /\ Filer \in Tasks
  BY SchedAssumption DEF Tasks
<1>2. Woken(t, h) \in Table /\ Alike(t, Woken(t, h))
  BY <1>1, FlagsAlike DEF Woken, TasksThere
<1>3. Woken(t, h)[Filer].flags # "free"
  BY <1>1, <1>2 DEF Alike, TasksThere
<1>4. Asking(t, h) \in Table /\ Alike(Woken(t, h), Asking(t, h))
  BY <1>1, <1>2, <1>3, FlagsAlike DEF Asking
<1>. QED  BY <1>2, <1>4, AlikeTrans

-----------------------------------------------------------------------------
\* The actions that leave the dump and every priority alone.
LEMMA Quiet ==
    ASSUME SchedInv, NEW t \in Table, Alike(pt, t), UNCHANGED <<dump, odd>>,
           \/ schedule(t)
           \/ pt' = t /\ UNCHANGED p_proc_ready
    PROVE  SchedInv'
<1>1. CASE schedule(t)
  BY <1>1, ScheduleStep, AlikeStep
<1>2. CASE pt' = t /\ UNCHANGED p_proc_ready
  <2>1. There(t, p_proc_ready)
    BY AlikeThere DEF SchedInv
  <2>. QED  BY <1>2, <2>1, AlikeStep
<1>. QED  BY <1>1, <1>2

LEMMA ClockKeeps ==
    ASSUME SchedInv, ClockInKernel \/ \E p \in SchedProcs : clock_handler(p)
    PROVE  SchedInv'
<1>1. Charged \in Table /\ Alike(pt, Charged)
  BY ChargedAlike
<1>2. UNCHANGED <<dump, odd>>
  BY DEF ClockInKernel, clock_handler
<1>3. schedule(Charged) \/ (pt' = Charged /\ UNCHANGED p_proc_ready)
  BY DEF ClockInKernel, clock_handler
<1>. QED  BY <1>1, <1>2, <1>3, Quiet

LEMMA BlocksKeeps ==
    ASSUME SchedInv, FSBlocks \/ \E p \in SchedProcs : block(p)
    PROVE  SchedInv'
<1>1. PICK p \in SchedProcs : /\ Runs(p) /\ UNCHANGED <<dump, odd>>
                             /\ schedule([pt EXCEPT ![p].flags = "blocked"])
  BY SchedAssumption DEF FSBlocks, block, Tasks
<1>2. pt \in Table /\ pt[p].flags # "free"
  BY <1>1 DEF SchedInv, There, Runs
<1>3. [pt EXCEPT ![p].flags = "blocked"] \in Table /\ Alike(pt, [pt EXCEPT ![p].flags = "blocked"])
  BY <1>2, FlagsAlike
<1>. QED  BY <1>1, <1>3, Quiet

LEMMA WakesKeeps ==
    ASSUME SchedInv, (\E q \in SchedProcs : unblock(q)) \/ (\E h \in Helpers : interrupt(h))
    PROVE  SchedInv'
<1>1. PICK q \in SchedProcs : /\ pt[q].flags = "blocked" /\ UNCHANGED <<dump, odd>>
                             /\ \/ schedule(Woken(pt, q))
                                \/ pt' = Woken(pt, q) /\ UNCHANGED p_proc_ready
  BY SchedAssumption DEF unblock, interrupt, Tasks
<1>2. Woken(pt, q) \in Table /\ Alike(pt, Woken(pt, q))
  BY <1>1, FlagsAlike DEF SchedInv, Woken
<1>. QED  BY <1>1, <1>2, Quiet

-----------------------------------------------------------------------------
\* A child has its parent's priority; one forked during a dump is odd.
LEMMA ForkKeeps ==
    ASSUME SchedInv, NEW parent \in SchedProcs \ Tasks, NEW child \in FreeSlots,
           do_fork(parent, child)
    PROVE  SchedInv'
<1>1. /\ child \in SchedProcs \ Tasks /\ p_proc_ready \in SchedProcs
      /\ pt \in Table /\ pt' = [pt EXCEPT ![child] = pt[parent]]
      /\ pt[parent].flags = "blocked" /\ UNCHANGED <<p_proc_ready, dump>>
  BY SchedAssumption DEF do_fork, SchedInv, There
<1>2. pt' \in Table /\ IsDump(dump') /\ TasksThere(pt') /\ There(pt', p_proc_ready')
  BY <1>1, SchedAssumption DEF SchedInv, TasksThere, There, Table, IsDump, Tasks
<1>3. \A p \in SchedProcs : p # child => pt'[p] = pt[p] /\ (p \in odd => p \in odd')
  BY <1>1 DEF do_fork, Table
<1>4. pt'[child] = pt[parent]
  BY <1>1 DEF Table
<1>5. CASE dump.phase = "none"
  <2>1. child \notin odd' => pt[parent].prio = PrioOf(child)
    BY <1>1, <1>5 DEF do_fork, SchedInv, KeptIn, PrioOf
  <2>2. ASSUME NEW p \in SchedProcs \ odd', pt'[p].flags # "free"
        PROVE  pt'[p].prio = PrioOf(p)
    BY <1>3, <1>4, <1>5, <2>1, <2>2 DEF SchedInv, KeptIn
  <2>. QED  BY <1>1, <1>2, <1>5, <2>2 DEF SchedInv, KeptIn
<1>6. CASE dump.phase # "none"
  <2>1. child \in odd'
    BY <1>6 DEF do_fork
  <2>. QED  BY <1>1, <1>2, <1>3, <1>6, <2>1 DEF SchedInv, KeptIn
<1>. QED  BY <1>5, <1>6

LEMMA CleanupKeeps ==
    ASSUME SchedInv, NEW q \in FreeSlots, cleanup(q)
    PROVE  SchedInv'
<1>1. /\ q \in SchedProcs \ Tasks /\ p_proc_ready = Forker
      /\ pt \in Table /\ pt' = [pt EXCEPT ![q] = FREE_SLOT]
      /\ UNCHANGED <<p_proc_ready, dump>> /\ odd' = odd \ {q}
  BY SchedAssumption DEF cleanup, Runs, SchedInv
<1>2. FREE_SLOT \in Slot /\ FREE_SLOT.flags = "free"
  BY DEF FREE_SLOT, Slot
<1>3. pt' \in Table /\ IsDump(dump') /\ TasksThere(pt') /\ There(pt', p_proc_ready')
  BY <1>1, <1>2, SchedAssumption DEF SchedInv, TasksThere, There, Table, IsDump, Tasks
<1>4. pt'[q].flags = "free" /\ \A p \in SchedProcs : p # q => pt'[p] = pt[p]
  BY <1>1, <1>2 DEF Table
<1>5. \A p \in SchedProcs \ odd' : pt'[p].flags # "free" => p \in SchedProcs \ odd /\ pt'[p] = pt[p]
  BY <1>1, <1>4
<1>. QED  BY <1>1, <1>3, <1>5 DEF SchedInv, KeptIn

-----------------------------------------------------------------------------
\* The dump: what it takes is saved.
LEMMA FreezeKeeps ==
    ASSUME SchedInv, Freeze
    PROVE  SchedInv'
<1>1. /\ dump.phase = "none" /\ pt \in Table /\ UNCHANGED <<p_proc_ready, odd>>
      /\ \A p \in SchedProcs \ odd : pt[p].flags # "free" => pt[p].prio = PrioOf(p)
  BY DEF Freeze, SchedInv, KeptIn
<1>2. /\ pt' \in Table
      /\ \A p \in SchedProcs : /\ pt'[p].flags = pt[p].flags
                               /\ p \notin Frozen => pt'[p] = pt[p]
  BY <1>1 DEF Freeze, Table, Slot
<1>3. /\ dump'.phase = "writes" /\ dump'.slot = NoProc /\ IsDump(dump')
      /\ dump'.saved = [p \in Frozen |-> [ticks |-> pt[p].ticks, prio |-> pt[p].prio]]
  BY DEF Freeze, NoDump, IsDump
<1>4. TasksThere(pt') /\ There(pt', p_proc_ready')
  BY <1>1, <1>2, SchedAssumption DEF SchedInv, TasksThere, There, Tasks
<1>5. /\ DOMAIN dump'.saved = Frozen
      /\ \A p \in Frozen : dump'.saved[p] = [ticks |-> pt[p].ticks, prio |-> pt[p].prio]
  BY <1>3
<1>6. Frozen \subseteq SchedProcs \ Spared
  BY DEF Frozen
<1>7. ASSUME NEW p \in Frozen  PROVE dump'.saved[p] \in [ticks : Nat, prio : Nat]
  <2>1. pt[p] \in Slot
    BY <1>1, <1>6 DEF Table
  <2>2. pt[p].ticks \in Nat /\ pt[p].prio \in Nat
    BY <2>1 DEF Slot
  <2>3. dump'.saved[p] = [ticks |-> pt[p].ticks, prio |-> pt[p].prio]
    BY <1>5
  <2>. QED  BY <2>2, <2>3
<1>8. ASSUME NEW p \in SchedProcs \ odd', pt'[p].flags # "free"
      PROVE  /\ pt'[p].prio = PrioOf(p) \/ ToCome(p, dump')
             /\ p \in Spared \/ p \in DOMAIN dump'.saved
             /\ p \in DOMAIN dump'.saved => dump'.saved[p].prio = PrioOf(p)
  <2>1. pt[p].prio = PrioOf(p) /\ pt[p].flags # "free"
    BY <1>1, <1>2, <1>8
  <2>2. p \in Frozen \/ p \in Spared
    BY <2>1 DEF Frozen
  <2>3. CASE p \in Frozen
    BY <1>3, <1>5, <2>1, <2>3 DEF ToCome
  <2>4. CASE p \notin Frozen
    BY <1>2, <1>5, <2>1, <2>2, <2>4
  <2>. QED  BY <2>3, <2>4
<1>9. KeptIn(pt', odd', dump')
  BY <1>3, <1>5, <1>6, <1>7, <1>8 DEF KeptIn
<1>. QED  BY <1>2, <1>3, <1>4, <1>9 DEF SchedInv

\* A step of the dump that changes only its phase and whom it waits for.
LEMMA SameDump ==
    ASSUME NEW t, NEW o, NEW d, NEW e, KeptIn(t, o, d),
           d.phase # "none", e.phase # "none", e.saved = d.saved, e.slot = d.slot
    PROVE  KeptIn(t, o, e)
BY DEF KeptIn, ToCome

LEMMA LogsKeeps ==
    ASSUME SchedInv, NEW h \in Helpers, Logs(h)
    PROVE  SchedInv'
<1>1. Asking(pt, h) \in Table /\ Alike(pt, Asking(pt, h))
  BY AskingAlike DEF SchedInv
<1>2. pt' \in Table /\ Alike(pt, pt') /\ There(pt', p_proc_ready')
  BY <1>1, ScheduleStep DEF Logs
<1>3. /\ dump.phase = "writes" /\ dump'.phase = "restores" /\ odd' = odd
      /\ dump'.saved = dump.saved /\ dump'.slot = dump.slot /\ IsDump(dump')
  BY DEF Logs, SchedInv, IsDump
<1>4. TasksThere(pt') /\ KeptIn(pt', odd, dump)
  BY <1>2, AlikeThere, AlikeKept DEF SchedInv
<1>5. KeptIn(pt', odd, dump')
  BY <1>3, <1>4, SameDump
<1>. QED  BY <1>2, <1>3, <1>4, <1>5 DEF SchedInv

LEMMA RepliesKeeps ==
    ASSUME SchedInv, NEW h \in Helpers, Replies(h)
    PROVE  SchedInv'
<1>1. Filer \in SchedProcs /\ pt[Filer].flags # "free"
  BY SchedAssumption DEF SchedInv, TasksThere, Tasks
<1>2. pt' \in Table /\ Alike(pt, pt')
  BY <1>1, FlagsAlike DEF Replies, Woken, SchedInv
<1>3. TasksThere(pt') /\ There(pt', p_proc_ready') /\ KeptIn(pt', odd, dump)
  BY <1>2, AlikeThere, AlikeKept DEF SchedInv, Replies
<1>4. /\ dump'.phase = dump.phase /\ odd' = odd
      /\ dump'.saved = dump.saved /\ dump'.slot = dump.slot /\ IsDump(dump')
  BY DEF Replies, SchedInv, IsDump
<1>5. KeptIn(pt', odd, dump')
  BY <1>3, <1>4 DEF KeptIn, ToCome
<1>. QED  BY <1>2, <1>3, <1>4, <1>5 DEF SchedInv

\* Once the slot the loop has come to has its words back, the slots it has
\* still to come to are those that wait.
Waits(p, d) == p \in DOMAIN d.saved /\ (d.slot = NoProc \/ d.slot < p)

RestoredIn(t) ==
    /\ t \in Table /\ TasksThere(t) /\ There(t, p_proc_ready)
    /\ KeptIn(t, odd, dump)
    /\ \A p \in SchedProcs \ odd :
          t[p].flags # "free" => t[p].prio = PrioOf(p) \/ Waits(p, dump)

LEMMA RestoresFirst ==
    ASSUME SchedInv, Restores
    PROVE  \E t \in Table : RestoredIn(t) /\ GoesOn(t)
<1>1. /\ dump.phase = "restores" /\ pt \in Table
      /\ dump.slot \in (SchedProcs \ Helpers) \cup {NoProc}
      /\ DOMAIN dump.saved \subseteq SchedProcs \ Spared
      /\ SchedProcs \subseteq Nat /\ NoProc \notin SchedProcs
  BY SchedAssumption DEF Restores, SchedInv, KeptIn
<1>2. ASSUME NEW p \in SchedProcs, ToCome(p, dump), p # dump.slot
      PROVE  Waits(p, dump)
  BY <1>1, <1>2 DEF ToCome, Waits
<1>3. CASE dump.slot \in {NoProc, Filer}
  <2>1. ASSUME NEW p \in SchedProcs \ odd, pt[p].flags # "free"
        PROVE  pt[p].prio = PrioOf(p) \/ Waits(p, dump)
    <3>1. pt[p].prio = PrioOf(p) \/ ToCome(p, dump)
      BY <1>1, <2>1 DEF SchedInv, KeptIn
    <3>2. ToCome(p, dump) => p # dump.slot
      BY <1>1, <1>3 DEF ToCome, Spared
    <3>. QED  BY <1>2, <3>1, <3>2
  <2>2. RestoredIn(pt)
    BY <1>1, <2>1 DEF SchedInv, RestoredIn
  <2>3. GoesOn(pt)
    BY <1>3 DEF Restores
  <2>. QED  BY <1>1, <2>2, <2>3
<1>4. CASE dump.slot \notin {NoProc, Filer}
  <2>. DEFINE c == dump.slot
  <2>1. c \in SchedProcs \ Spared
    BY <1>1, <1>4 DEF Spared
  <2>2. PICK s \in SavedOf(c) :
          GoesOn([pt EXCEPT ![c].ticks = s.ticks, ![c].prio = s.prio])
    BY <1>4 DEF Restores
  <2>. DEFINE u == [pt EXCEPT ![c].ticks = s.ticks, ![c].prio = s.prio]
  <2>3. s.ticks \in Nat /\ s.prio \in Nat /\ (c \in DOMAIN dump.saved => s = dump.saved[c])
    BY <1>1, SchedAssumption DEF SavedOf, SchedInv, KeptIn
  <2>4. /\ u \in Table
        /\ \A p \in SchedProcs : u[p].flags = pt[p].flags
        /\ \A p \in SchedProcs : p # c => u[p] = pt[p]
        /\ u[c].prio = s.prio
    BY <1>1, <2>1, <2>3 DEF Table, Slot
  <2>. HIDE DEF u
  <2>5. TasksThere(u) /\ There(u, p_proc_ready)
    BY <2>4, SchedAssumption DEF SchedInv, TasksThere, There, Tasks
  <2>6. ASSUME NEW p \in SchedProcs \ odd, u[p].flags # "free"
        PROVE  /\ u[p].prio = PrioOf(p) \/ Waits(p, dump)
               /\ p \in Spared \/ p \in DOMAIN dump.saved
               /\ p \in DOMAIN dump.saved => dump.saved[p].prio = PrioOf(p)
    <3>1. /\ pt[p].prio = PrioOf(p) \/ ToCome(p, dump)
          /\ p \in Spared \/ p \in DOMAIN dump.saved
          /\ p \in DOMAIN dump.saved => dump.saved[p].prio = PrioOf(p)
      BY <1>1, <2>4, <2>6 DEF SchedInv, KeptIn
    <3>2. CASE p = c
      BY <2>1, <2>3, <2>4, <3>1, <3>2
    <3>3. CASE p # c
      BY <1>2, <2>4, <3>1, <3>3
    <3>. QED  BY <3>1, <3>2, <3>3
  <2>7. ASSUME NEW p \in SchedProcs, Waits(p, dump)  PROVE ToCome(p, dump)
    <3>1. p \in Nat /\ dump.slot \in Nat \cup {NoProc}
      BY <1>1
    <3>2. dump.slot < p /\ dump.slot \in Nat => dump.slot <= p
      BY <3>1
    <3>3. p \in DOMAIN dump.saved /\ (dump.slot = NoProc \/ dump.slot < p)
      BY <2>7 DEF Waits
    <3>. QED  BY <3>1, <3>2, <3>3 DEF ToCome
  <2>8. KeptIn(u, odd, dump)
    BY <1>1, <2>6, <2>7 DEF SchedInv, KeptIn
  <2>9. RestoredIn(u)
    BY <2>4, <2>5, <2>6, <2>8 DEF RestoredIn
  <2>10. GoesOn(u)
    BY <2>2 DEF u
  <2>. QED  BY <2>4, <2>9, <2>10
<1>. QED  BY <1>3, <1>4

\* Who waits is among those left.
LEMMA WaitsLeft ==
    ASSUME NEW t \in Table, RestoredIn(t), dump.phase = "restores",
           NEW p \in SchedProcs, t[p].flags # "free", Waits(p, dump)
    PROVE  p \in Left(t)
<1>1. /\ DOMAIN dump.saved \subseteq SchedProcs \ Spared
      /\ dump.slot \in (SchedProcs \ Helpers) \cup {NoProc}
  BY DEF RestoredIn, KeptIn
<1>. QED  BY <1>1, SchedAssumption DEF Waits, Left, Spared

LEMMA GoesOnKeeps ==
    ASSUME SchedInv, Restores, NEW t \in Table, RestoredIn(t), GoesOn(t)
    PROVE  SchedInv'
<1>1. dump.phase = "restores" /\ odd' = odd /\ IsDump(dump)
  BY DEF Restores, SchedInv
<1>2. CASE Left(t) = {}
  <2>1. pt' = t /\ dump' = NoDump /\ p_proc_ready' = p_proc_ready
    BY <1>2 DEF GoesOn
  <2>2. \A p \in SchedProcs \ odd : t[p].flags # "free" => t[p].prio = PrioOf(p)
    BY <1>1, <1>2, WaitsLeft DEF RestoredIn
  <2>3. dump'.phase = "none" /\ IsDump(dump')
    BY <2>1 DEF NoDump, IsDump
  <2>. QED  BY <1>1, <2>1, <2>2, <2>3 DEF SchedInv, RestoredIn, KeptIn
<1>3. CASE Left(t) # {}
  <2>1. PICK sys \in Helpers :
          /\ schedule(Asking(t, sys))
          /\ dump' = [dump EXCEPT !.slot = Min(Left(t)), !.waits = sys]
    BY <1>3 DEF GoesOn
  <2>2. Asking(t, sys) \in Table /\ Alike(t, Asking(t, sys))
    BY AskingAlike DEF RestoredIn
  <2>3. There(Asking(t, sys), p_proc_ready) /\ TasksThere(Asking(t, sys))
    BY <2>2, AlikeThere DEF RestoredIn
  <2>4. pt' \in Table /\ Alike(t, pt') /\ There(pt', p_proc_ready')
    BY <2>1, <2>2, <2>3, ScheduleKeeps, AlikeTrans
  <2>5. TasksThere(pt') /\ KeptIn(pt', odd, dump)
    BY <2>4, AlikeThere, AlikeKept DEF RestoredIn
  <2>6. Left(t) \subseteq SchedProcs \ Helpers
    BY DEF Left
  <2>7. Min(Left(t)) \in SchedProcs \ Helpers /\ \A y \in Left(t) : Min(Left(t)) <= y
    BY <1>3, <2>6, MinExists
  <2>8. /\ dump'.phase = "restores" /\ dump'.slot = Min(Left(t))
        /\ dump'.saved = dump.saved /\ IsDump(dump')
    BY <1>1, <2>1 DEF IsDump
  <2>9. ASSUME NEW p \in SchedProcs \ odd, pt'[p].flags # "free"
        PROVE  pt'[p].prio = PrioOf(p) \/ ToCome(p, dump')
    <3>1. t[p].flags # "free" /\ pt'[p].prio = t[p].prio
      BY <2>4, <2>9 DEF Alike
    <3>2. t[p].prio = PrioOf(p) \/ Waits(p, dump)
      BY <3>1 DEF RestoredIn
    <3>3. Waits(p, dump) => p \in Left(t) /\ p \in DOMAIN dump.saved
      BY <1>1, <3>1, WaitsLeft DEF Waits
    <3>. QED  BY <2>7, <2>8, <3>1, <3>2, <3>3 DEF ToCome
  <2>10. KeptIn(pt', odd', dump')
    BY <1>1, <2>5, <2>7, <2>8, <2>9 DEF KeptIn
  <2>. QED  BY <2>4, <2>5, <2>8, <2>10 DEF SchedInv
<1>. QED  BY <1>2, <1>3

LEMMA RestoresKeeps ==
    ASSUME SchedInv, Restores
    PROVE  SchedInv'
BY RestoresFirst, GoesOnKeeps

-----------------------------------------------------------------------------
LEMMA SchedInvInit ==
    ASSUME SchedInit
    PROVE  SchedInv
<1>1. pt \in Table
  BY SchedAssumption DEF SchedInit, Table, Slot, FREE_SLOT, PrioOf
<1>2. IsDump(dump) /\ dump.phase = "none"
  BY DEF SchedInit, NoDump, IsDump
<1>3. TasksThere(pt)
  BY SchedAssumption DEF SchedInit, TasksThere, Tasks
<1>4. There(pt, p_proc_ready)
  <2>1. Forker \in SchedProcs /\ Forker \in Tasks
    BY SchedAssumption DEF Tasks
  <2>2. Min(SchedProcs) \in SchedProcs /\ Min(SchedProcs) <= Forker
    BY <2>1, MinExists
  <2>3. ASSUME NEW m \in FreeSlots, m <= Forker  PROVE FALSE
    <3>1. Forker < m /\ m \in Nat /\ Forker \in Nat
      BY <2>1, SchedAssumption
    <3>. QED  BY <2>3, <3>1
  <2>4. Min(SchedProcs) \notin FreeSlots
    BY <2>2, <2>3
  <2>. QED  BY <2>2, <2>4 DEF SchedInit, There
<1>5. \A p \in SchedProcs : pt[p].flags # "free" => pt[p].prio = PrioOf(p)
  BY DEF SchedInit, FREE_SLOT
<1>. QED  BY <1>1, <1>2, <1>3, <1>4, <1>5 DEF SchedInv, KeptIn

LEMMA SchedInvNext ==
    ASSUME SchedInv, [SchedNext]_schedVars
    PROVE  SchedInv'
<1>1. CASE UNCHANGED schedVars
  BY <1>1 DEF schedVars, SchedInv, KeptIn, TasksThere, There, IsDump, ToCome
<1>2. CASE ClockInKernel \/ \E p \in SchedProcs : clock_handler(p)
  BY <1>2, ClockKeeps
<1>3. CASE FSBlocks \/ \E p \in SchedProcs : block(p)
  BY <1>3, BlocksKeeps
<1>4. CASE (\E q \in SchedProcs : unblock(q)) \/ (\E h \in Helpers : interrupt(h))
  BY <1>4, WakesKeeps
<1>5. CASE \E parent \in SchedProcs \ Tasks, child \in FreeSlots : do_fork(parent, child)
  BY <1>5, ForkKeeps
<1>6. CASE \E q \in FreeSlots : cleanup(q)
  BY <1>6, CleanupKeeps
<1>7. CASE Freeze
  BY <1>7, FreezeKeeps
<1>8. CASE \E h \in Helpers : Logs(h)
  BY <1>8, LogsKeeps
<1>9. CASE \E h \in Helpers : Replies(h)
  BY <1>9, RepliesKeeps
<1>10. CASE Restores
  BY <1>10, RestoresKeeps
<1>. QED
  BY <1>1, <1>2, <1>3, <1>4, <1>5, <1>6, <1>7, <1>8, <1>9, <1>10 DEF SchedNext

\* fs/disklog.c, dump_fd_graph: whenever FS does not dump, every process that
\* was there before the last dump has the priority it started with, whoever
\* ran, forked, blocked or ended while FS waited for the disk.
THEOREM PrioritiesAlwaysKept == SchedSpec => []PrioritiesKept
<1>1. SchedInit => SchedInv
  BY SchedInvInit
<1>2. SchedInv /\ [SchedNext]_schedVars => SchedInv'
  BY SchedInvNext
<1>3. SchedInv => PrioritiesKept
  BY DEF SchedInv, KeptIn, PrioritiesKept
<1>. QED  BY <1>1, <1>2, <1>3, PTL DEF SchedSpec

-----------------------------------------------------------------------------
(* The disk log                                                            *)

\* The smaller of two numbers.
LEMMA SmallerOf ==
    ASSUME NEW a \in Nat, NEW b \in Nat
    PROVE  Min({a, b}) = IF a <= b THEN a ELSE b
BY DEF Min

\* Where character k of the log goes, and the sector that is in.
SectOf(at) == Log0 + at \div LogSectSize
PlaceOf(k) == HeadSize + k - 1

DlTyped ==
    /\ log_pos \in Nat /\ logged \in Nat
    /\ disksects \in [LogArea \cup AfterLog -> [Offsets -> Nat]]

\* The position is behind the last character, and the call under way is where
\* the position says.
InStep ==
    /\ log_pos = 0 => logged = 0 /\ call = NoCall
    /\ log_pos # 0 => log_pos = HeadSize + logged
    /\ call # NoCall => /\ call = [sect |-> call.sect, left |-> call.left]
                        /\ call.sect \in Nat \ {0} /\ call.left \in Nat
                        /\ log_pos # 0
                        /\ call.left > 0 => call.sect = SectOf(log_pos)

\* Every character is where its number says, in a sector of the disk.
Found ==
    \A k \in 1..logged :
        LET s == SectOf(PlaceOf(k)) IN
        /\ s \in DOMAIN disksects
        /\ s \notin filesects \cup {DevSects - 1} =>
              disksects[s][PlaceOf(k) % LogSectSize] = k

DlInv == DlTyped /\ InStep /\ Found /\ NothingBehind

LEMMA DlConstants ==
    /\ Log0 \in Nat \ {0} /\ Log0 < DevSects /\ LogSectSize \in Nat \ {0}
    /\ DevSects \in Nat \ {0} /\ HeadSize \in Nat \ {0} /\ HeadSize <= LogSectSize
    /\ NR_SECTS_FOR_LOG \in Nat \ {0} /\ DevSects = Log0 + NR_SECTS_FOR_LOG
    /\ StringLens \subseteq Nat \ {0} /\ MaxLogged \in Nat \ {0}
BY DiskLogAssumption DEF Log0

LEMMA FilledTyped == \A b \in Nat : Filled(b) \in [Offsets -> Nat]
BY DEF Filled

LEMMA SectNat == \A n \in Nat : SectOf(n) \in Nat \ {0} /\ n % LogSectSize \in Offsets
<1>. SUFFICES ASSUME NEW n \in Nat  PROVE SectOf(n) \in Nat \ {0} /\ n % LogSectSize \in Offsets
  OBVIOUS
<1>1. n \div LogSectSize \in Nat /\ n % LogSectSize \in 0..LogSectSize - 1
  BY DlConstants, Division
<1>. QED  BY <1>1, DlConstants DEF SectOf, Offsets

\* The log is not begun.
LEMMA DlInitial == DlInit => DlInv
<1>. SUFFICES ASSUME DlInit  PROVE DlInv
  OBVIOUS
<1>1. DlTyped
  BY FilledTyped DEF DlInit, DlTyped, OtherChar
<1>. QED  BY <1>1 DEF DlInit, DlInv, InStep, Found, NothingBehind

LEMMA KeepsCreates == DlInv /\ Creates => DlInv'
BY DEF DlInv, Creates, DlTyped, InStep, Found, NothingBehind

\* A file that has got a sector of the log.
LEMMA KeepsFile ==
    ASSUME DlInv, NEW f \in LogArea \cup AfterLog, WritesFile(f)  PROVE DlInv'
<1>1. /\ UNCHANGED <<log_pos, call, logged, filesects>> /\ f \in filesects
      /\ disksects' = [disksects EXCEPT ![f] = Filled(FileChar)]
  BY DEF WritesFile
<1>2. disksects \in [LogArea \cup AfterLog -> [Offsets -> Nat]]
  BY DEF DlInv, DlTyped
<1>3. Filled(FileChar) \in [Offsets -> Nat]
  BY FilledTyped, DlConstants DEF FileChar
<1>4. /\ disksects' \in [LogArea \cup AfterLog -> [Offsets -> Nat]]
      /\ \A s \in LogArea \cup AfterLog :
            disksects'[s] = IF s = f THEN Filled(FileChar) ELSE disksects[s]
  <2>. HIDE DEF Filled
  <2>. QED  BY <1>1, <1>2, <1>3
<1>5. DlTyped' /\ InStep'
  BY <1>1, <1>4 DEF DlInv, DlTyped, InStep, SectOf
<1>6. Found'
  BY <1>1, <1>2, <1>4 DEF DlInv, Found, SectOf
<1>7. NothingBehind'
  BY <1>1, <1>2, <1>4 DEF DlInv, NothingBehind
<1>. QED  BY <1>5, <1>6, <1>7 DEF DlInv

\* disklog() begins: the first call clears the log.
LEMMA KeepsLogBegins ==
    ASSUME DlInv, NEW len \in StringLens, LogBegins(len)  PROVE DlInv'
<1>1. len \in Nat \ {0} /\ logged' = logged
  BY DlConstants DEF LogBegins
<1>2. CASE log_pos # 0
  <2>1. /\ call' = [sect |-> SectOf(log_pos), left |-> len]
        /\ UNCHANGED <<log_pos, disksects, logged, filesects>>
    BY <1>2 DEF LogBegins, SectOf
  <2>2. SectOf(log_pos) \in Nat \ {0}
    BY SectNat DEF DlInv, DlTyped
  <2>3. InStep'
    BY <1>1, <1>2, <2>1, <2>2 DEF DlInv, InStep, SectOf
  <2>. QED  BY <2>1, <2>3 DEF DlInv, DlTyped, Found, NothingBehind
<1>3. CASE log_pos = 0 /\ secmap \cap Reserved # {}
  BY <1>3 DEF LogBegins, DlInv, DlTyped, InStep, Found, NothingBehind
<1>4. CASE log_pos = 0 /\ secmap \cap Reserved = {}
  <2>1. /\ disksects' = [s \in DOMAIN disksects |->
                            IF s \in LogArea THEN Filled(PadChar) ELSE disksects[s]]
        /\ log_pos' = HeadSize
        /\ call' = [sect |-> SectOf(HeadSize), left |-> len]
    BY <1>4 DEF LogBegins, SectOf
  <2>2. logged = 0 /\ logged' = 0
    BY <1>1, <1>4 DEF DlInv, InStep
  <2>3. DlTyped'
    BY <2>1, <2>2, DlConstants, FilledTyped DEF DlInv, DlTyped, PadChar
  <2>4. InStep'
    <3>1. HeadSize \in Nat \ {0} /\ SectOf(HeadSize) \in Nat \ {0}
      BY DlConstants, SectNat
    <3>. QED  BY <1>1, <2>1, <2>2, <3>1 DEF InStep, SectOf
  <2>5. Found'
    BY <2>2 DEF Found
  <2>6. NothingBehind'
    <3>1. \A s \in AfterLog : disksects'[s] = disksects[s]
      BY <2>1, DlConstants DEF DlInv, DlTyped, LogArea, AfterLog
    <3>. QED  BY <1>1, <3>1 DEF DlInv, NothingBehind
  <2>. QED  BY <2>3, <2>4, <2>5, <2>6 DEF DlInv
<1>. QED  BY <1>2, <1>3, <1>4

\* Two characters in one sector are as far apart as their offsets.
LEMMA SameSector ==
    ASSUME NEW a \in Nat, NEW b \in Nat, SectOf(a) = SectOf(b)
    PROVE  a - b = (a % LogSectSize) - (b % LogSectSize)
<1>1. a \div LogSectSize = b \div LogSectSize
  BY DlConstants, Division DEF SectOf
<1>2. /\ a = LogSectSize * (a \div LogSectSize) + (a % LogSectSize)
      /\ b = LogSectSize * (b \div LogSectSize) + (b % LogSectSize)
      /\ a % LogSectSize \in Int /\ b % LogSectSize \in Int
  BY DlConstants, Division
<1>3. LogSectSize * (a \div LogSectSize) \in Int
  BY DlConstants, Division
<1> DEFINE m == LogSectSize * (a \div LogSectSize)
<1>4. a = m + (a % LogSectSize) /\ b = m + (b % LogSectSize) /\ m \in Int
  BY <1>1, <1>2, <1>3
<1>. HIDE DEF m
<1>. QED  BY <1>2, <1>4

\* A piece of the text, up to the end of a sector: it goes where the position
\* says, and what is there already stays.
LEMMA KeepsText == ASSUME DlInv, WritesText  PROVE DlInv'
<1> DEFINE off == log_pos % LogSectSize
           n   == Bytes(call.left, off)
           at  == call.sect
<1>1. /\ log_pos \in Nat \ {0} /\ log_pos = HeadSize + logged /\ logged \in Nat
      /\ call.left \in Nat \ {0} /\ at = SectOf(log_pos) /\ at \in DOMAIN disksects
      /\ at \in Nat \ {0}
  BY DEF DlInv, DlTyped, InStep, WritesText, NoCall
<1>2. off \in Offsets /\ off \in 0..LogSectSize - 1 /\ off \in Nat
  BY <1>1, SectNat DEF Offsets
<1>3. /\ n \in Nat \ {0} /\ n <= call.left /\ n <= LogSectSize - off
      /\ n = call.left \/ n = LogSectSize - off
  BY <1>1, <1>2, DlConstants, SmallerOf DEF Bytes
<1>4. /\ disksects' = [disksects EXCEPT ![at] =
                  [o \in Offsets |-> IF o \in off..off + n - 1 THEN logged + 1 + o - off ELSE @[o]]]
      /\ call' = [sect |-> at + 1, left |-> call.left - n]
      /\ log_pos' = log_pos + n /\ logged' = logged + n /\ filesects' = filesects
  BY DEF WritesText
<1>. HIDE DEF n
<1>5. DlTyped'
  <2>1. \A o \in off..off + n - 1 : logged + 1 + o - off \in Nat
    BY <1>1, <1>2, <1>3
  <2>2. [o \in Offsets |-> IF o \in off..off + n - 1 THEN logged + 1 + o - off
                           ELSE disksects[at][o]] \in [Offsets -> Nat]
    BY <1>1, <2>1 DEF DlInv, DlTyped
  <2>. HIDE DEF off, at
  <2>. QED  BY <1>1, <1>3, <1>4, <2>2 DEF DlInv, DlTyped
<1>6. InStep'
  <2>1. CASE n = call.left
    <3>1. call' = [sect |-> at + 1, left |-> 0] /\ at + 1 \in Nat \ {0}
      BY <1>1, <1>4, <2>1
    <3>2. log_pos' = HeadSize + logged' /\ log_pos' # 0
      BY <1>1, <1>3, <1>4, DlConstants
    <3>. HIDE DEF at
    <3>. QED  BY <3>1, <3>2 DEF InStep
  <2>2. CASE n = LogSectSize - off
    <3>1. log_pos + n = LogSectSize * (log_pos \div LogSectSize + 1) + 0
      <4>1. log_pos = LogSectSize * (log_pos \div LogSectSize) + off
        BY <1>1, DlConstants, Division DEF off
      <4>2. log_pos \div LogSectSize \in Nat
        BY <1>1, DlConstants, Division
      <4>. QED  BY <1>2, <2>2, <4>1, <4>2, DlConstants
    <3>2. (log_pos + n) \div LogSectSize = log_pos \div LogSectSize + 1
      <4>1. log_pos \div LogSectSize + 1 \in Nat /\ 0 \in 0..LogSectSize - 1
        <5>1. log_pos \div LogSectSize \in Nat
          BY <1>1, DlConstants, Division
        <5>. QED  BY <5>1, DlConstants
      <4>. QED  BY <3>1, <4>1, DlConstants, Place
    <3>3. SectOf(log_pos + n) = at + 1
      BY <1>1, <3>2, DlConstants, Division DEF SectOf
    <3>4. /\ call' = [sect |-> SectOf(log_pos'), left |-> call.left - n]
          /\ at + 1 \in Nat \ {0} /\ call.left - n \in Nat
      BY <1>1, <1>3, <1>4, <3>3
    <3>5. log_pos' = HeadSize + logged' /\ log_pos' # 0
      BY <1>1, <1>3, <1>4, DlConstants
    <3>6. call'.sect = SectOf(log_pos)' /\ SectOf(log_pos') = at + 1
      BY <1>4, <3>3, <3>4 DEF SectOf
    <3>. HIDE DEF at
    <3>. QED  BY <3>4, <3>5, <3>6 DEF InStep
  <2>. QED  BY <1>3, <2>1, <2>2
<1>7. Found'
  <2>. SUFFICES ASSUME NEW k \in 1..logged'
                PROVE  /\ SectOf(PlaceOf(k)) \in DOMAIN disksects
                       /\ SectOf(PlaceOf(k)) \notin filesects \cup {DevSects - 1} =>
                            disksects'[SectOf(PlaceOf(k))][PlaceOf(k) % LogSectSize] = k
    BY <1>4 DEF Found, SectOf
  <2> DEFINE pl == PlaceOf(k)
  <2>1. k \in Nat /\ pl = HeadSize + k - 1 /\ pl \in Nat /\ k <= logged + n
    BY <1>1, <1>3, <1>4, DlConstants DEF PlaceOf
  <2>2. pl % LogSectSize \in Offsets /\ SectOf(pl) \in Nat
    BY <2>1, SectNat
  <2>. HIDE DEF pl
  <2>3. CASE k <= logged
    <3>1. SectOf(pl) \in DOMAIN disksects
          /\ (SectOf(pl) \notin filesects \cup {DevSects - 1}
                 => disksects[SectOf(pl)][pl % LogSectSize] = k)
      BY <1>1, <2>1, <2>3 DEF DlInv, Found, pl
    <3>2. CASE SectOf(pl) = at
      <4>1. pl - log_pos = (pl % LogSectSize) - off
        BY <1>1, <2>1, <3>2, SameSector
      <4>2. pl % LogSectSize < off
        BY <1>1, <1>2, <2>1, <2>2, <2>3, <4>1, DlConstants DEF Offsets
      <4>3. pl % LogSectSize \notin off..off + n - 1
        BY <4>2, <1>2, <1>3
      <4>4. disksects'[at][pl % LogSectSize] = disksects[at][pl % LogSectSize]
        BY <1>1, <1>4, <2>2, <4>3 DEF DlInv, DlTyped
      <4>. QED  BY <3>1, <3>2, <4>4 DEF pl
    <3>3. CASE SectOf(pl) # at
      BY <1>1, <1>4, <3>1, <3>3 DEF pl
    <3>. QED  BY <3>2, <3>3
  <2>4. CASE k > logged
    <3> DEFINE o == off + (k - logged - 1)
    <3>1. o \in off..off + n - 1 /\ o \in 0..LogSectSize - 1 /\ o \in Offsets
      BY <1>1, <1>2, <1>3, <2>1, <2>4, DlConstants DEF Offsets
    <3>2. log_pos \div LogSectSize \in Nat
          /\ log_pos = LogSectSize * (log_pos \div LogSectSize) + off
      BY <1>1, DlConstants, Division
    <3>3. pl = LogSectSize * (log_pos \div LogSectSize) + o
      BY <1>1, <1>2, <2>1, <2>4, <3>2, DlConstants
    <3>. HIDE DEF o
    <3>4. pl \div LogSectSize = log_pos \div LogSectSize /\ pl % LogSectSize = o
      BY <3>1, <3>2, <3>3, DlConstants, Place
    <3>5. SectOf(pl) = at
      BY <1>1, <3>4 DEF SectOf
    <3>6. disksects'[at][o] = logged + 1 + o - off
      BY <1>1, <1>4, <3>1 DEF DlInv, DlTyped
    <3>7. logged + 1 + o - off = k
      BY <1>1, <1>2, <2>1 DEF o
    <3>. QED  BY <1>1, <3>4, <3>5, <3>6, <3>7 DEF pl
  <2>. QED  BY <1>1, <2>1, <2>3, <2>4
<1>8. NothingBehind'
  <2>. SUFFICES ASSUME NEW s \in AfterLog, disksects'[s] \notin {Filled(OtherChar), Filled(FileChar)}
                PROVE  HeadSize + logged + n > NR_SECTS_FOR_LOG * LogSectSize
    BY <1>1, <1>3, <1>4, DlConstants DEF NothingBehind
  <2>1. CASE s = at
    <3>1. log_pos \div LogSectSize >= NR_SECTS_FOR_LOG /\ log_pos \div LogSectSize \in Nat
      BY <1>1, <2>1, DlConstants, Division DEF SectOf, AfterLog
    <3>2. LogSectSize * (log_pos \div LogSectSize) >= LogSectSize * NR_SECTS_FOR_LOG
      BY <3>1, DlConstants
    <3>3. log_pos >= LogSectSize * (log_pos \div LogSectSize)
      BY <1>1, DlConstants, Division
    <3>. QED  BY <1>1, <1>3, <3>1, <3>2, <3>3, DlConstants
  <2>2. CASE s # at
    <3>1. disksects'[s] = disksects[s]
      BY <1>1, <1>4, <2>2 DEF DlInv, DlTyped
    <3>2. HeadSize + logged > NR_SECTS_FOR_LOG * LogSectSize
      BY <3>1 DEF DlInv, NothingBehind
    <3>3. NR_SECTS_FOR_LOG * LogSectSize \in Nat
      BY DlConstants
    <3>. QED  BY <1>1, <1>3, <3>2, <3>3, DlConstants
  <2>. QED  BY <2>1, <2>2
<1>. QED  BY <1>5, <1>6, <1>7, <1>8 DEF DlInv

\* The head of the log lies before its text; the copy takes the last sector.
LEMMA KeepsHead == ASSUME DlInv, WritesHead  PROVE DlInv'
<1> DEFINE last == DevSects - 1
           head == [o \in Offsets |-> IF o < HeadSize THEN HeadChar ELSE disksects[Log0][o]]
           copy == [o \in Offsets |-> IF o < HeadSize THEN HeadChar ELSE PadChar]
<1>1. /\ Log0 \in LogArea /\ last \in LogArea /\ Log0 \notin AfterLog /\ last \notin AfterLog
      /\ last \in Nat
  BY DlConstants DEF LogArea, AfterLog
<1>2. /\ \A s \in LogArea \cup AfterLog :
            disksects'[s] = IF s = last THEN copy ELSE IF s = Log0 THEN head ELSE disksects[s]
      /\ DOMAIN disksects' = LogArea \cup AfterLog
  BY <1>1 DEF WritesHead, DlInv, DlTyped
<1>3. /\ UNCHANGED <<log_pos, logged, filesects>> /\ call' = NoCall
      /\ disksects' = [s \in LogArea \cup AfterLog |-> disksects'[s]]
  BY <1>1 DEF WritesHead, DlInv, DlTyped
<1>4. head \in [Offsets -> Nat] /\ copy \in [Offsets -> Nat]
  BY <1>1, DlConstants DEF DlInv, DlTyped, HeadChar, PadChar, Offsets
<1>5. \A o \in Offsets : o >= HeadSize => head[o] = disksects[Log0][o]
  BY DlConstants DEF Offsets
<1>. HIDE DEF head, copy, last
<1>6. DlTyped'
  BY <1>2, <1>3, <1>4 DEF DlInv, DlTyped
<1>7. InStep'
  BY <1>3 DEF DlInv, InStep
<1>8. Found'
  <2>. SUFFICES ASSUME NEW k \in 1..logged
                PROVE  /\ SectOf(PlaceOf(k)) \in DOMAIN disksects'
                       /\ SectOf(PlaceOf(k)) \notin filesects \cup {DevSects - 1} =>
                            disksects'[SectOf(PlaceOf(k))][PlaceOf(k) % LogSectSize] = k
    BY <1>3 DEF Found, SectOf
  <2> DEFINE pl == PlaceOf(k)
  <2>1. pl \in Nat /\ pl >= HeadSize
    BY DlConstants DEF PlaceOf, DlInv, DlTyped
  <2>2. SectOf(pl) \in LogArea \cup AfterLog
        /\ (SectOf(pl) \notin filesects \cup {DevSects - 1}
               => disksects[SectOf(pl)][pl % LogSectSize] = k)
    BY DEF DlInv, DlTyped, Found
  <2>3. CASE SectOf(pl) = Log0 /\ SectOf(pl) # last
    <3>1. pl \div LogSectSize = 0
      BY <2>1, <2>3, DlConstants, Division DEF SectOf
    <3>2. pl % LogSectSize = pl /\ pl % LogSectSize \in Offsets
      <4>1. pl = LogSectSize * 0 + (pl % LogSectSize) /\ pl % LogSectSize \in Nat
        <5>1. /\ pl = LogSectSize * (pl \div LogSectSize) + (pl % LogSectSize)
              /\ pl % LogSectSize \in 0..LogSectSize - 1
          BY <2>1, DlConstants, Division
        <5>. QED  BY <3>1, <5>1, DlConstants
      <4>. QED  BY <2>1, <4>1, DlConstants, SectNat
    <3>. QED  BY <1>2, <1>5, <2>1, <2>2, <2>3, <3>2 DEF last
  <2>4. CASE SectOf(pl) # Log0 \/ SectOf(pl) = last
    BY <1>2, <2>2, <2>4 DEF last
  <2>. QED  BY <2>3, <2>4
<1>9. NothingBehind'
  BY <1>1, <1>2, <1>3 DEF DlInv, NothingBehind
<1>. QED  BY <1>6, <1>7, <1>8, <1>9 DEF DlInv

LEMMA LogKept == DlSpec => []DlInv
<1>1. DlInv /\ UNCHANGED dlVars => DlInv'
  BY DEF DlInv, dlVars, DlTyped, InStep, Found, NothingBehind
<1>2. DlInv /\ [DlNext]_dlVars => DlInv'
  BY <1>1, KeepsCreates, KeepsFile, KeepsLogBegins, KeepsText, KeepsHead DEF DlNext
<1>. QED  BY <1>2, DlInitial, PTL DEF DlSpec

\* disklog() keeps every character it has been given, but for the sector its
\* copy of the head takes and those that a file has got, and writes behind the
\* log only when the log is full.
THEOREM DiskLogAlwaysSound == DlSpec => []DiskLogSound
<1>1. DlInv => DiskLogSound
  <2>. SUFFICES ASSUME DlInv  PROVE DiskLogSound
    OBVIOUS
  <2>1. TextKept
    BY DEF TextKept, DlInv, Found, PlaceOf, SectOf
  <2>. QED  BY <2>1 DEF DiskLogSound, DlInv
<1>. QED  BY <1>1, LogKept, PTL

-----------------------------------------------------------------------------
(* The log                                                                 *)

\* What TASK_LOG and the processes hold.
Entry   == [pid : Nat, text : Nat]
Request == [type : Types \cup {"POST_LOG"}, src : LogPids, CNT : Nat]

LogTyped ==
    /\ ring = [logs |-> ring.logs, log_cnt |-> ring.log_cnt, enabled |-> ring.enabled,
               black_list |-> ring.black_list]
    /\ ring.logs \in [Slots -> Entry] /\ ring.log_cnt \in Slots
    /\ hist \in Seq(Entry) /\ Len(hist) <= MAX_LOG_CNT
    /\ stack \in [LogPids -> Nat] /\ posts \in Nat
    /\ mail \in Seq(Request) /\ got \in Request \cup {NoRequest}

\* Inductive: the loop of GET_PID_LOG needs nothing but the types.
LogInv == LogTyped /\ RingIsLog

\* The slot of the i-th entry before cnt.
Before(cnt, i) == IF i <= cnt THEN cnt - i ELSE cnt + MAX_LOG_CNT - i

\* It is the one log_cnt - i comes to round the ring.
LEMMA BeforeIs ==
    ASSUME NEW cnt \in Slots, NEW i \in 1..MAX_LOG_CNT
    PROVE  (cnt + MAX_LOG_CNT - i) % MAX_LOG_CNT = Before(cnt, i) /\ Before(cnt, i) \in Slots
<1>1. /\ MAX_LOG_CNT \in Nat \ {0} /\ cnt \in Nat /\ cnt < MAX_LOG_CNT
      /\ i \in Nat /\ 1 <= i /\ i <= MAX_LOG_CNT
  BY LogAssumption DEF Slots
<1>2. CASE i <= cnt
  <2>1. cnt - i \in 0..MAX_LOG_CNT - 1 /\ cnt + MAX_LOG_CNT - i = MAX_LOG_CNT * 1 + (cnt - i)
    BY <1>1, <1>2
  <2>2. (MAX_LOG_CNT * 1 + (cnt - i)) % MAX_LOG_CNT = cnt - i
    BY <1>1, <2>1, Place
  <2>. QED  BY <1>2, <2>1, <2>2 DEF Before, Slots
<1>3. CASE i > cnt
  <2>1. /\ cnt + MAX_LOG_CNT - i \in 0..MAX_LOG_CNT - 1
        /\ cnt + MAX_LOG_CNT - i = MAX_LOG_CNT * 0 + (cnt + MAX_LOG_CNT - i)
    BY <1>1, <1>3
  <2>2. (MAX_LOG_CNT * 0 + (cnt + MAX_LOG_CNT - i)) % MAX_LOG_CNT = cnt + MAX_LOG_CNT - i
    BY <1>1, <2>1, Place
  <2>. QED  BY <1>1, <1>3, <2>1, <2>2 DEF Before, Slots
<1>. QED  BY <1>1, <1>2, <1>3

\* The ring in terms of its slots.
LEMMA RingIs ==
    ASSUME LogTyped
    PROVE  RingIsLog <=>
           \A i \in 1..MAX_LOG_CNT :
              ring.logs[Before(ring.log_cnt, i)] = IF i <= Len(hist) THEN hist[i] ELSE Blank
<1>1. ring.log_cnt \in Slots
  BY DEF LogTyped
<1>2. \A i \in 1..MAX_LOG_CNT :
         LogEntry(ring.log_cnt + MAX_LOG_CNT - i) = ring.logs[Before(ring.log_cnt, i)]
  BY <1>1, BeforeIs DEF LogEntry
<1>. QED  BY <1>2 DEF RingIsLog

\* The ring is blank at first.
LEMMA LogInitial == LogInit => LogInv
<1>. SUFFICES ASSUME LogInit  PROVE LogInv
  OBVIOUS
<1>1. MAX_LOG_CNT \in Nat \ {0} /\ Blank \in Entry
  BY LogAssumption DEF Blank, Entry
<1>2. LogTyped
  <2>1. 0 \in Slots /\ \A s \in Slots : s \in Slots
    BY <1>1 DEF Slots
  <2>2. <<>> \in Seq(Entry) /\ <<>> \in Seq(Request) /\ Len(<<>>) = 0
    OBVIOUS
  <2>. QED  BY <1>1, <2>1, <2>2 DEF LogInit, LogTyped
<1>3. \A i \in 1..MAX_LOG_CNT : ring.logs[Before(ring.log_cnt, i)] = Blank
  <2>1. 0 \in Slots /\ ring.log_cnt = 0 /\ ring.logs = [s \in Slots |-> Blank]
    BY <1>1 DEF Slots, LogInit
  <2>2. \A i \in 1..MAX_LOG_CNT : Before(0, i) \in Slots
    BY <2>1, BeforeIs
  <2>. QED  BY <2>1, <2>2
<1>4. \A i \in 1..MAX_LOG_CNT : ~(i <= Len(hist))
  BY DEF LogInit
<1>. QED  BY <1>2, <1>3, <1>4, RingIs DEF LogInv

\* Nothing of the log changes.
LEMMA LogUnchanged ==
    ASSUME LogInv, ring'.logs = ring.logs, ring'.log_cnt = ring.log_cnt, hist' = hist, LogTyped'
    PROVE  LogInv'
BY DEF LogInv, RingIsLog, LogEntry

\* An entry more: it is in the slot of log_cnt, all others are one older.
LEMMA KeepsKeeps ==
    ASSUME LogInv, got \in Request, Keeps, got' = NoRequest,
           UNCHANGED <<mail, stack, posts, requests>>
    PROVE  LogInv'
<1> DEFINE M == MAX_LOG_CNT
           cnt == ring.log_cnt
           entry == [pid |-> got.src, text |-> stack[got.src]]
           next == Next_cnt(cnt)
<1>1. /\ M \in Nat \ {0} /\ cnt \in Nat /\ cnt \in 0..M - 1 /\ cnt \in Slots
      /\ ring.logs \in [Slots -> Entry] /\ hist \in Seq(Entry) /\ Len(hist) \in Nat
      /\ Len(hist) <= M
  BY LogAssumption, LenProperties DEF LogInv, LogTyped, Slots
<1>2. entry \in Entry
  <2>1. got.src \in LogPids /\ got.src \in Nat
    BY LogAssumption DEF Request
  <2>. QED  BY <2>1 DEF Entry, LogInv, LogTyped
<1>3. next \in Slots /\ next = IF cnt + 1 < M THEN cnt + 1 ELSE 0
  BY <1>1 DEF Next_cnt, Slots
<1>4. /\ ring' = [ring EXCEPT !.logs[cnt] = entry, !.log_cnt = next]
      /\ hist' = Newest(<<entry>> \o hist, M)
  BY DEF Keeps
<1>. HIDE DEF entry, next
<1>5. /\ ring'.logs = [ring.logs EXCEPT ![cnt] = entry] /\ ring'.log_cnt = next
      /\ ring' = [logs |-> ring'.logs, log_cnt |-> ring'.log_cnt, enabled |-> ring'.enabled,
                  black_list |-> ring'.black_list]
  BY <1>4 DEF LogInv, LogTyped
<1>6. /\ ring'.logs \in [Slots -> Entry] /\ ring'.logs[cnt] = entry
      /\ \A s \in Slots : s # cnt => ring'.logs[s] = ring.logs[s]
  BY <1>1, <1>2, <1>5
<1>7. /\ hist' \in Seq(Entry) /\ Len(hist') <= M /\ Len(hist') \in Nat
      /\ hist'[1] = entry /\ 1 <= Len(hist')
      /\ \A i \in 2..M : (i <= Len(hist') <=> i - 1 <= Len(hist)) /\ (i <= Len(hist') => hist'[i] = hist[i - 1])
  <2> DEFINE long == <<entry>> \o hist
  <2>1. /\ long \in Seq(Entry) /\ Len(long) = 1 + Len(hist) /\ long[1] = entry
        /\ \A i \in 2..Len(hist) + 1 : long[i] = hist[i - 1]
    <3>1. <<entry>> \in Seq(Entry) /\ Len(<<entry>>) = 1 /\ <<entry>>[1] = entry
      BY <1>2
    <3>2. PICK n \in Nat : n = Len(hist)
      BY <1>1
    <3>3. /\ long \in Seq(Entry) /\ Len(long) = 1 + n
          /\ \A i \in 1..1 + n : long[i] = IF i <= 1 THEN <<entry>>[i] ELSE hist[i - 1]
      BY <1>1, <3>1, <3>2, ConcatProperties
    <3>4. 1 \in 1..1 + n /\ \A i \in 2..n + 1 : i \in 1..1 + n /\ ~(i <= 1)
      BY <3>2
    <3>. QED  BY <3>1, <3>2, <3>3, <3>4
  <2>. HIDE DEF long
  <2>2. hist' = SubSeq(long, 1, IF Len(long) < M THEN Len(long) ELSE M)
    BY <1>4 DEF Newest, long
  <2>3. PICK n \in Nat : n = (IF Len(long) < M THEN Len(long) ELSE M)
    BY <1>1, <2>1
  <2>4. /\ n <= Len(long) /\ n <= M /\ 1 <= n /\ (n = Len(hist) + 1 \/ n = M) /\ Len(long) = Len(hist) + 1
    BY <1>1, <2>1, <2>3
  <2>5. /\ hist' \in Seq(Entry) /\ Len(hist') = n /\ \A i \in 1..n : hist'[i] = long[i]
    <3>1. \A i \in 1..n : long[i] \in Entry
      <4>1. \A i \in 1..n : i \in 1..Len(long)
        BY <1>1, <2>4
      <4>. QED  BY <2>1, <4>1, ElementOfSeq
    <3>2. 1 \in Int /\ n \in Int
      BY <2>3
    <3>3. /\ SubSeq(long, 1, n) \in Seq(Entry)
          /\ Len(SubSeq(long, 1, n)) = IF 1 <= n THEN n - 1 + 1 ELSE 0
          /\ \A i \in 1..n - 1 + 1 : SubSeq(long, 1, n)[i] = long[1 + i - 1]
      BY <3>1, <3>2, SubSeqProperties
    <3>4. n - 1 + 1 = n /\ \A i \in 1..n : 1 + i - 1 = i
      BY <2>3
    <3>. QED  BY <2>2, <2>3, <2>4, <3>3, <3>4
  <2>6. \A i \in 2..M : i <= n <=> i - 1 <= Len(hist)
    BY <1>1, <2>3, <2>4
  <2>7. \A i \in 2..M : i <= n => i \in 1..n /\ i \in 2..Len(hist) + 1
    BY <1>1, <2>3, <2>4
  <2>8. 1 \in 1..n
    BY <2>3, <2>4
  <2>. QED  BY <2>1, <2>3, <2>4, <2>5, <2>6, <2>7, <2>8
<1>8. LogTyped'
  BY <1>3, <1>5, <1>6, <1>7 DEF LogInv, LogTyped
<1>9. Before(next, 1) = cnt /\ \A i \in 2..M : i - 1 \in 1..M /\ Before(next, i) = Before(cnt, i - 1)
                                             /\ Before(cnt, i - 1) # cnt
  <2>1. M \in Nat \ {0} /\ cnt \in 0..M - 1 /\ next = IF cnt + 1 < M THEN cnt + 1 ELSE 0
    BY <1>1, <1>3 DEF Slots
  <2>2. Before(next, 1) = cnt
    BY <2>1 DEF Before
  <2>3. ASSUME NEW i \in 2..M
        PROVE  i - 1 \in 1..M /\ Before(next, i) = Before(cnt, i - 1) /\ Before(cnt, i - 1) # cnt
    <3>1. PICK j \in 1..M : i = j + 1 /\ j < M
      <4>1. i - 1 \in 1..M /\ i = (i - 1) + 1 /\ i - 1 < M
        BY <2>1
      <4>. QED  BY <4>1
    <3>2. Before(next, j + 1) = Before(cnt, j)
      BY <2>1, <3>1 DEF Before
    <3>3. Before(cnt, j) # cnt
      BY <2>1, <3>1 DEF Before
    <3>4. i - 1 = j
      BY <2>1, <3>1
    <3>. QED  BY <3>1, <3>2, <3>3, <3>4
  <2>. QED  BY <2>2, <2>3
<1>10. \A i \in 1..M : ring'.logs[Before(next, i)] = IF i <= Len(hist') THEN hist'[i] ELSE Blank
  <2>. SUFFICES ASSUME NEW i \in 1..M
                PROVE  ring'.logs[Before(next, i)] = IF i <= Len(hist') THEN hist'[i] ELSE Blank
    OBVIOUS
  <2>1. CASE i = 1
    BY <1>6, <1>7, <1>9, <2>1
  <2>2. CASE i # 1
    <3>1. i \in 2..M
      BY <2>2
    <3>2. Before(cnt, i - 1) \in Slots
      BY <1>1, <1>9, <3>1, BeforeIs
    <3>3. ring'.logs[Before(next, i)] = ring.logs[Before(cnt, i - 1)]
      BY <1>6, <1>9, <3>1, <3>2
    <3>4. ring.logs[Before(cnt, i - 1)] = IF i - 1 <= Len(hist) THEN hist[i - 1] ELSE Blank
      BY <1>9, <3>1, RingIs DEF LogInv
    <3>. QED  BY <1>7, <3>1, <3>3, <3>4
  <2>. QED  BY <2>1, <2>2
<1>11. RingIsLog'
  <2>1. ring'.log_cnt \in Slots /\ \A i \in 1..M : LogEntry(ring.log_cnt + M - i)' = ring'.logs[Before(next, i)]
    BY <1>3, <1>5, BeforeIs DEF LogEntry
  <2>. QED  BY <1>10, <2>1 DEF RingIsLog, LogEntry
<1>. QED  BY <1>8, <1>11 DEF LogInv

\* A cleared ring is blank, and so is the log.
LEMMA ClearsKeeps ==
    ASSUME LogInv, Clears, got' = NoRequest, UNCHANGED <<mail, stack, posts, requests>>
    PROVE  LogInv'
<1>1. /\ ring'.logs = [s \in Slots |-> Blank] /\ ring'.log_cnt = 0 /\ hist' = <<>>
      /\ ring' = [logs |-> ring'.logs, log_cnt |-> ring'.log_cnt, enabled |-> ring'.enabled,
                  black_list |-> ring'.black_list]
  BY DEF Clears, LogInv, LogTyped
<1>2. MAX_LOG_CNT \in Nat \ {0} /\ Blank \in Entry /\ 0 \in Slots
  BY LogAssumption DEF Blank, Entry, Slots
<1>3. LogTyped'
  <2>1. <<>> \in Seq(Entry) /\ Len(<<>>) = 0
    OBVIOUS
  <2>. QED  BY <1>1, <1>2, <2>1 DEF LogInv, LogTyped
<1>4. \A i \in 1..MAX_LOG_CNT : (0 + MAX_LOG_CNT - i) % MAX_LOG_CNT \in Slots
  BY <1>2, BeforeIs
<1>5. \A i \in 1..MAX_LOG_CNT : ~(i <= Len(hist'))
  BY <1>1
<1>6. RingIsLog'
  BY <1>1, <1>4, <1>5 DEF RingIsLog, LogEntry
<1>. QED  BY <1>3, <1>6 DEF LogInv

\* Whatever else happens, the ring and what it should be stay as they are.
LEMMA LogStep == LogInv /\ [LogNext]_logVars => LogInv'
<1>. SUFFICES ASSUME LogInv, [LogNext]_logVars  PROVE LogInv'
  OBVIOUS
<1>1. LogTyped
  BY DEF LogInv
<1>2. ASSUME NEW p \in LogPids, post_log2(p)  PROVE LogInv'
  <2>1. posts' \in Nat
    BY <1>1, <1>2 DEF post_log2, LogTyped
  <2>2. stack' \in [LogPids -> Nat]
    BY <1>1, <1>2, <2>1 DEF post_log2, LogTyped
  <2>3. [type |-> "POST_LOG", src |-> p, CNT |-> 0] \in Request
    BY DEF Request
  <2>4. mail' \in Seq(Request)
    BY <1>1, <1>2, <2>3, AppendProperties DEF post_log2, LogTyped
  <2>5. UNCHANGED <<ring, hist, got>>
    BY <1>2 DEF post_log2
  <2>6. LogTyped'
    BY <1>1, <2>1, <2>2, <2>4, <2>5 DEF LogTyped
  <2>. QED  BY <2>5, <2>6, LogUnchanged
<1>3. ASSUME NEW p \in LogMen, NEW type \in Types, NEW id \in Nat, logman(p, type, id)
      PROVE  LogInv'
  <2>1. [type |-> type, src |-> p, CNT |-> id] \in Request
    BY LogAssumption DEF Request
  <2>2. mail' \in Seq(Request)
    BY <1>1, <1>3, <2>1, AppendProperties DEF logman, LogTyped
  <2>3. UNCHANGED <<ring, hist, got, stack, posts>>
    BY <1>3 DEF logman
  <2>4. LogTyped'
    BY <1>1, <2>2, <2>3 DEF LogTyped
  <2>. QED  BY <2>3, <2>4, LogUnchanged
<1>4. CASE Receive
  <2>1. mail \in Seq(Request) /\ mail # <<>> /\ got' = Head(mail) /\ mail' = Tail(mail)
        /\ UNCHANGED <<ring, hist, stack, posts>>
    BY <1>1, <1>4 DEF Receive, LogTyped
  <2>2. got' \in Request /\ mail' \in Seq(Request)
    BY <2>1, HeadTailProperties
  <2>3. LogTyped'
    BY <1>1, <2>1, <2>2 DEF LogTyped
  <2>. QED  BY <2>1, <2>3, LogUnchanged
<1>5. ASSUME NEW Handle \in BOOLEAN, got # NoRequest, Handle, got' = NoRequest,
             UNCHANGED <<mail, stack, posts, requests>>,
             Handle <=> Keeps \/ Drops \/ Clears \/ Switches \/ Answers
      PROVE  LogInv'
  <2>1. got \in Request
    BY <1>1, <1>5 DEF LogTyped
  <2>2. ASSUME UNCHANGED <<ring, hist>>  PROVE LogInv'
    BY <1>1, <1>5, <2>2, LogUnchanged DEF LogTyped
  <2>3. CASE Keeps
    BY <1>5, <2>1, <2>3, KeepsKeeps
  <2>4. CASE Drops \/ Answers
    BY <2>2, <2>4 DEF Drops, Answers
  <2>5. CASE Clears
    BY <1>5, <2>5, ClearsKeeps
  <2>6. CASE Switches
    <3>1. /\ ring'.logs = ring.logs /\ ring'.log_cnt = ring.log_cnt /\ hist' = hist
          /\ ring' = [logs |-> ring'.logs, log_cnt |-> ring'.log_cnt, enabled |-> ring'.enabled,
                      black_list |-> ring'.black_list]
      BY <1>1, <2>6 DEF Switches, LogTyped
    <3>2. LogTyped'
      BY <1>1, <1>5, <3>1 DEF LogTyped
    <3>. QED  BY <3>1, <3>2, LogUnchanged
  <2>. QED  BY <1>5, <2>3, <2>4, <2>5, <2>6
<1>6. CASE task_log(Keeps) \/ task_log(Drops) \/ task_log(Clears) \/ task_log(Switches) \/ task_log(Answers)
  BY <1>5, <1>6 DEF task_log
<1>7. CASE UNCHANGED logVars
  <2>1. LogTyped'
    BY <1>1, <1>7 DEF logVars, LogTyped
  <2>. QED  BY <1>7, <2>1, LogUnchanged DEF logVars
<1>8. 0 \in Nat /\ LogPids \subseteq Nat /\ \A S : Types \ S \subseteq Types
      /\ {"GET_PID_LOG", "BLOCK_LOG"} \subseteq Types
  BY LogAssumption DEF Types
<1>. QED  BY <1>2, <1>3, <1>4, <1>6, <1>7, <1>8 DEF LogNext

-----------------------------------------------------------------------------
\* The loop of GET_PID_LOG: what it does at one place, with what it finds from
\* the places after it.
Spots      == (1..LogAnswers + 1) \X (0..MAX_LOG_CNT)
At(at)     == LogEntry(at[2] + ring.log_cnt + MAX_LOG_CNT - at[1])
Past(at)   == at[1] > LogAnswers \/ at[2] >= MAX_LOG_CNT
FoundAt(f, id, at) ==
    IF Past(at) THEN <<>>
    ELSE IF At(at).pid # id THEN f[<<at[1], at[2] + 1>>]
    ELSE <<At(at)>> \o f[<<at[1] + 1, at[2]>>]
ToGo(at) == (LogAnswers + 1 - at[1]) + (MAX_LOG_CNT - at[2])
OfPid(id) == {e \in Entry : e.pid = id}

\* One round less is left at the places the loop goes to.
LEMMA SpotsAre ==
    ASSUME NEW at \in Spots
    PROVE  /\ ToGo(at) \in Nat /\ ToGo(at) <= LogAnswers + MAX_LOG_CNT
           /\ ~Past(at) => /\ <<at[1], at[2] + 1>> \in Spots /\ <<at[1] + 1, at[2]>> \in Spots
                           /\ ToGo(<<at[1], at[2] + 1>>) = ToGo(at) - 1
                           /\ ToGo(<<at[1] + 1, at[2]>>) = ToGo(at) - 1
                           /\ ToGo(at) > 0
<1>1. LogAnswers \in Nat \ {0} /\ MAX_LOG_CNT \in Nat \ {0}
  BY LogAssumption
<1>2. PICK i \in 1..LogAnswers + 1, b \in 0..MAX_LOG_CNT : at = <<i, b>>
  BY DEF Spots
<1>. QED  BY <1>1, <1>2 DEF Spots, ToGo, Past

\* Each place of the loop is one of the ring.
LEMMA AtTyped == ASSUME LogTyped, NEW at \in Spots, ~Past(at)  PROVE At(at) \in Entry
<1>1. LogAnswers \in Nat \ {0} /\ MAX_LOG_CNT \in Nat \ {0} /\ LogAnswers <= MAX_LOG_CNT
      /\ ring.log_cnt \in Nat /\ ring.logs \in [Slots -> Entry]
  BY LogAssumption DEF LogTyped, Slots
<1>2. PICK i \in 1..LogAnswers + 1, b \in 0..MAX_LOG_CNT : at = <<i, b>>
  BY DEF Spots
<1>3. PICK n \in Nat : n = b + ring.log_cnt + MAX_LOG_CNT - i
  BY <1>1, <1>2 DEF Past
<1>4. n % MAX_LOG_CNT \in Slots
  BY <1>1, Division DEF Slots
<1>. QED  BY <1>1, <1>2, <1>3, <1>4 DEF At, LogEntry

\* A round finds entries of the process if the next ones do.
LEMMA FoundTyped ==
    ASSUME LogTyped, NEW id, NEW f, NEW at \in Spots,
           ~Past(at) => f[<<at[1], at[2] + 1>>] \in Seq(OfPid(id)) /\ f[<<at[1] + 1, at[2]>>] \in Seq(OfPid(id))
    PROVE  FoundAt(f, id, at) \in Seq(OfPid(id))
<1>1. CASE Past(at)
  BY <1>1 DEF FoundAt
<1>2. CASE ~Past(at) /\ At(at).pid # id
  BY <1>2 DEF FoundAt
<1>3. CASE ~Past(at) /\ At(at).pid = id
  <2>1. At(at) \in OfPid(id)
    BY <1>3, AtTyped DEF OfPid
  <2>2. <<At(at)>> \in Seq(OfPid(id)) /\ f[<<at[1] + 1, at[2]>>] \in Seq(OfPid(id))
    BY <1>3, <2>1
  <2>. QED  BY <1>3, <2>2, ConcatProperties DEF FoundAt
<1>. QED  BY <1>1, <1>2, <1>3

\* The loop ends: there is what it finds from everywhere.
LEMMA LoopEnds ==
    ASSUME LogTyped, NEW id
    PROVE  \E f : f = [at \in Spots |-> FoundAt(f, id, at)]
<1> DEFINE E == Seq(OfPid(id))
           Has(n) == \E f \in [Spots -> E] : \A at \in Spots : ToGo(at) <= n => f[at] = FoundAt(f, id, at)
           last == LogAnswers + MAX_LOG_CNT
           Bad == {n \in 0..last : ~Has(n)}
<1>1. last \in Nat
  BY LogAssumption
<1>2. Has(0)
  <2> DEFINE f == [at \in Spots |-> <<>>]
  <2>1. f \in [Spots -> E]
    BY EmptySeq
  <2>2. ASSUME NEW at \in Spots, ToGo(at) <= 0  PROVE f[at] = FoundAt(f, id, at)
    <3>1. Past(at)
      <4>1. ToGo(at) \in Nat
        BY SpotsAre
      <4>2. ~(ToGo(at) > 0)
        BY <2>2, <4>1
      <4>. QED  BY <4>2, SpotsAre
    <3>. QED  BY <3>1 DEF FoundAt
  <2>. HIDE DEF f
  <2>. QED  BY <2>1, <2>2
<1>3. ASSUME NEW n \in 1..last, Has(n - 1)  PROVE Has(n)
  <2>1. PICK f \in [Spots -> E] : \A at \in Spots : ToGo(at) <= n - 1 => f[at] = FoundAt(f, id, at)
    BY <1>3
  <2> DEFINE g == [at \in Spots |-> FoundAt(f, id, at)]
  <2>2. g \in [Spots -> E]
    <3>1. \A at \in Spots : FoundAt(f, id, at) \in E
      BY SpotsAre, FoundTyped
    <3>. QED  BY <3>1
  <2>3. ASSUME NEW at \in Spots, ToGo(at) <= n  PROVE g[at] = FoundAt(g, id, at)
    <3>1. g[at] = FoundAt(f, id, at)
      OBVIOUS
    <3>2. CASE Past(at)
      BY <3>1, <3>2 DEF FoundAt
    <3>3. CASE ~Past(at)
      <4>1. /\ <<at[1], at[2] + 1>> \in Spots /\ <<at[1] + 1, at[2]>> \in Spots
            /\ ToGo(<<at[1], at[2] + 1>>) <= n - 1
            /\ ToGo(<<at[1] + 1, at[2]>>) <= n - 1
        BY <1>1, <2>3, <3>3, SpotsAre
      <4>2. /\ g[<<at[1], at[2] + 1>>] = f[<<at[1], at[2] + 1>>]
            /\ g[<<at[1] + 1, at[2]>>] = f[<<at[1] + 1, at[2]>>]
        BY <2>1, <4>1
      <4>. HIDE DEF g
      <4>. QED  BY <3>1, <4>2 DEF FoundAt
    <3>. QED  BY <3>2, <3>3
  <2>. HIDE DEF g
  <2>. QED  BY <2>2, <2>3
<1>. HIDE DEF Has
<1>4. Bad = {}
  <2>. SUFFICES ASSUME Bad # {}  PROVE FALSE
    OBVIOUS
  <2>1. Bad \in SUBSET Nat
    OBVIOUS
  <2>2. PICK n \in Bad : \A m \in Bad : n <= m
    <3>. HIDE DEF Bad
    <3>. QED  BY <2>1, LeastOf
  <2>3. n \in 0..last /\ n # 0
    BY <1>2, <2>2
  <2>4. n \in 1..last /\ n - 1 \in 0..last /\ ~(n <= n - 1)
    <3>. HIDE DEF last
    <3>. QED  BY <1>1, <2>3
  <2>5. n - 1 \notin Bad
    <3>. HIDE DEF Bad
    <3>. QED  BY <2>2, <2>4
  <2>. QED  BY <1>3, <2>2, <2>4, <2>5
<1>5. Has(last)
  BY <1>1, <1>4
<1>6. PICK f \in [Spots -> E] : \A at \in Spots : ToGo(at) <= last => f[at] = FoundAt(f, id, at)
  BY <1>5 DEF Has
<1>7. \A at \in Spots : ToGo(at) <= last
  BY <1>1, SpotsAre
<1>8. f = [at \in Spots |-> FoundAt(f, id, at)]
  BY <1>6, <1>7
<1>. QED  BY <1>8

\* What GET_PID_LOG finds: entries of the process asked for, and none only if
\* it has come by every slot from its first one on.
LEMMA ScanIs ==
    ASSUME LogTyped, NEW id
    PROVE  /\ Scan(id) \in Seq(OfPid(id))
           /\ Scan(id) = <<>> => \A b \in 0..MAX_LOG_CNT - 1 : At(<<1, b>>).pid # id
<1>1. LogAnswers \in Nat \ {0} /\ MAX_LOG_CNT \in Nat \ {0}
  BY LogAssumption
<1> DEFINE Loops(g) == g = [at \in Spots |-> FoundAt(g, id, at)]
           f == CHOOSE g : Loops(g)
<1>2. Scanned(id) = f
  BY DEF Scanned, FoundAt, Past, At, Spots
<1>3. Loops(f)
  <2>1. \E g : Loops(g)
    BY LoopEnds
  <2>. HIDE DEF Loops
  <2>. QED  BY <2>1
<1>. HIDE DEF f
<1>4. \A at \in Spots : f[at] = FoundAt(f, id, at)
  BY <1>3
<1>5. \A at \in Spots : f[at] \in Seq(OfPid(id))
  <2> DEFINE Bad == {ToGo(at) : at \in {x \in Spots : f[x] \notin Seq(OfPid(id))}}
  <2>. SUFFICES ASSUME Bad # {}  PROVE FALSE
    OBVIOUS
  <2>1. Bad \in SUBSET Nat
    BY <1>1, SpotsAre
  <2>2. PICK n \in Bad : \A m \in Bad : n <= m
    <3>. HIDE DEF Bad
    <3>. QED  BY <2>1, LeastOf
  <2>3. PICK at \in Spots : f[at] \notin Seq(OfPid(id)) /\ n = ToGo(at)
    BY <2>2
  <2>4. ASSUME NEW x \in Spots, ToGo(x) = ToGo(at) - 1  PROVE f[x] \in Seq(OfPid(id))
    <3>1. ToGo(x) \in Nat /\ ToGo(at) \in Nat /\ ~(ToGo(at) <= ToGo(x))
      <4>1. ToGo(x) \in Nat /\ ToGo(at) \in Nat
        BY SpotsAre
      <4>. QED  BY <2>4, <4>1
    <3>2. ToGo(x) \notin Bad
      <4>. HIDE DEF Bad
      <4>. QED  BY <2>2, <2>3, <3>1
    <3>. QED  BY <3>2
  <2>5. FoundAt(f, id, at) \in Seq(OfPid(id))
    BY <2>4, SpotsAre, FoundTyped
  <2>. QED  BY <1>4, <2>3, <2>5
<1>6. <<1, 0>> \in Spots
  BY <1>1 DEF Spots
<1>7. ASSUME Scan(id) = <<>>, NEW b \in 0..MAX_LOG_CNT - 1  PROVE At(<<1, b>>).pid # id
  <2> DEFINE Bad == {k \in 0..MAX_LOG_CNT : f[<<1, k>>] # <<>>}
  <2>1. ASSUME NEW k \in 0..MAX_LOG_CNT - 1, f[<<1, k>>] = <<>>
        PROVE  At(<<1, k>>).pid # id /\ f[<<1, k + 1>>] = <<>>
    <3>1. /\ <<1, k>> \in Spots /\ <<1 + 1, k>> \in Spots /\ <<1, k>>[1] = 1 /\ <<1, k>>[2] = k
          /\ ~Past(<<1, k>>)
      BY <1>1 DEF Spots, Past
    <3>2. f[<<1, k>>] = IF At(<<1, k>>).pid # id THEN f[<<1, k + 1>>]
                        ELSE <<At(<<1, k>>)>> \o f[<<1 + 1, k>>]
      BY <1>4, <3>1 DEF FoundAt
    <3>3. ASSUME At(<<1, k>>).pid = id  PROVE FALSE
      <4>1. f[<<1 + 1, k>>] \in Seq(OfPid(id)) /\ At(<<1, k>>) \in OfPid(id)
        BY <1>5, <3>1, <3>3, AtTyped DEF OfPid
      <4>2. <<At(<<1, k>>)>> \in Seq(OfPid(id)) /\ Len(<<At(<<1, k>>)>>) = 1
        BY <4>1
      <4>3. Len(f[<<1, k>>]) = 1 + Len(f[<<1 + 1, k>>])
        BY <3>2, <3>3, <4>1, <4>2, ConcatProperties
      <4>4. Len(f[<<1 + 1, k>>]) \in Nat /\ Len(<<>>) = 0
        BY <4>1, LenProperties
      <4>. QED  BY <2>1, <4>3, <4>4
    <3>. QED  BY <2>1, <3>2, <3>3
  <2>2. f[<<1, 0>>] = <<>>
    BY <1>2, <1>7 DEF Scan
  <2>3. Bad = {}
    <3>. SUFFICES ASSUME Bad # {}  PROVE FALSE
      OBVIOUS
    <3>1. Bad \in SUBSET Nat
      OBVIOUS
    <3>2. PICK k \in Bad : \A m \in Bad : k <= m
      <4>. HIDE DEF Bad
      <4>. QED  BY <3>1, LeastOf
    <3>3. k \in 1..MAX_LOG_CNT /\ k - 1 \in 0..MAX_LOG_CNT - 1 /\ k - 1 \notin Bad /\ (k - 1) + 1 = k
      BY <2>2, <3>2, <1>1
    <3>4. f[<<1, k - 1>>] = <<>>
      BY <1>1, <3>3
    <3>5. f[<<1, (k - 1) + 1>>] = <<>>
      BY <2>1, <3>3, <3>4
    <3>. QED  BY <3>2, <3>3, <3>5
  <2>4. f[<<1, b>>] = <<>>
    BY <1>1, <2>3
  <2>. QED  BY <2>1, <2>4
<1>. QED  BY <1>2, <1>5, <1>6, <1>7 DEF Scan

\* What GET_PID_LOG is answered.
LEMMA ScanIsSound == LogInv => ScanFinds
<1>. SUFFICES ASSUME LogInv, got.type = "GET_PID_LOG"
              PROVE  /\ \A i \in DOMAIN Scan(got.CNT) : Scan(got.CNT)[i].pid = got.CNT
                     /\ Scan(got.CNT) = <<>> => \A i \in DOMAIN hist : hist[i].pid # got.CNT
  BY DEF ScanFinds
<1>1. LogTyped /\ RingIsLog /\ hist \in Seq(Entry) /\ Len(hist) <= MAX_LOG_CNT
      /\ ring.log_cnt \in Slots /\ ring.log_cnt \in Nat /\ MAX_LOG_CNT \in Nat \ {0}
  BY LogAssumption DEF LogInv, LogTyped, Slots
<1> DEFINE id == got.CNT
<1>2. Scan(id) \in Seq(OfPid(id))
  BY <1>1, ScanIs
<1>3. \A i \in DOMAIN Scan(id) : Scan(id)[i].pid = id
  <2>1. \A i \in 1..Len(Scan(id)) : Scan(id)[i] \in OfPid(id)
    BY <1>2, ElementOfSeq
  <2>2. DOMAIN Scan(id) = 1..Len(Scan(id))
    BY <1>2, LenProperties
  <2>. QED  BY <2>1, <2>2 DEF OfPid
<1>4. ASSUME Scan(id) = <<>>, NEW i \in DOMAIN hist  PROVE hist[i].pid # id
  <2>1. PICK n \in Nat : n = Len(hist) /\ DOMAIN hist = 1..n /\ n <= MAX_LOG_CNT
    BY <1>1, LenProperties
  <2>2. i \in 1..MAX_LOG_CNT /\ i \in 1..n
    BY <1>1, <1>4, <2>1
  <2>3. LogEntry(ring.log_cnt + MAX_LOG_CNT - i) = hist[i]
    BY <1>1, <2>1, <2>2 DEF RingIsLog
  <2>4. \A b \in 0..MAX_LOG_CNT - 1 : At(<<1, b>>).pid # id
    BY <1>1, <1>4, ScanIs
  <2>5. CASE i = 1
    <3>1. 0 \in 0..MAX_LOG_CNT - 1 /\ 0 + ring.log_cnt + MAX_LOG_CNT - 1 = ring.log_cnt + MAX_LOG_CNT - i
      BY <1>1, <2>5
    <3>2. At(<<1, 0>>) = LogEntry(ring.log_cnt + MAX_LOG_CNT - i)
      BY <3>1 DEF At
    <3>. QED  BY <2>3, <2>4, <3>1, <3>2
  <2>6. CASE i # 1
    <3> DEFINE b == MAX_LOG_CNT - i + 1
               n1 == b + ring.log_cnt + MAX_LOG_CNT - 1
               n2 == ring.log_cnt + MAX_LOG_CNT - i
    <3>1. b \in 0..MAX_LOG_CNT - 1 /\ n2 \in Nat /\ n1 = n2 + MAX_LOG_CNT /\ n1 \in Nat
      <4>1. PICK m \in Nat : m = MAX_LOG_CNT
        BY <1>1
      <4>2. PICK l \in Nat : l = ring.log_cnt
        BY <1>1
      <4>3. i \in Nat /\ 2 <= i /\ i <= m
        BY <2>2, <2>6, <4>1
      <4>4. m - i + 1 \in 0..m - 1
        BY <4>3
      <4>5. l + m - i \in Nat /\ (m - i + 1) + l + m - 1 = (l + m - i) + m
        BY <4>3
      <4>6. (l + m - i) + m \in Nat
        BY <4>5
      <4>. QED  BY <4>1, <4>2, <4>4, <4>5, <4>6
    <3>. HIDE DEF n1, n2
    <3>2. n1 % MAX_LOG_CNT = n2 % MAX_LOG_CNT
      <4> DEFINE q == n2 \div MAX_LOG_CNT
                 r == n2 % MAX_LOG_CNT
      <4>1. q \in Nat /\ q + 1 \in Nat /\ r \in 0..MAX_LOG_CNT - 1 /\ n2 = MAX_LOG_CNT * q + r
        <5>1. MAX_LOG_CNT \in Nat \ {0} /\ n2 \in Nat
          BY <1>1, <3>1
        <5>2. q \in Nat /\ r \in 0..MAX_LOG_CNT - 1 /\ n2 = MAX_LOG_CNT * q + r
          BY <5>1, Division
        <5>. QED  BY <5>2
      <4>2. n1 = MAX_LOG_CNT * (q + 1) + r
        <5>. HIDE DEF q, r
        <5>. QED  BY <1>1, <3>1, <4>1
      <4>. QED  BY <1>1, <4>1, <4>2, Place
    <3>3. At(<<1, b>>) = LogEntry(n2)
      BY <3>2 DEF At, LogEntry, n1
    <3>. QED  BY <2>3, <2>4, <3>1, <3>3 DEF n2
  <2>. QED  BY <2>5, <2>6
<1>. QED  BY <1>3, <1>4

\* The ring read backwards from log_cnt is the log, wherever it has wrapped
\* round, and GET_PID_LOG tells entries of the process asked for, one at least
\* if there is one.
THEOREM LogAlwaysSound == LogSpec => []LogSound
<1>1. LogSpec => []LogInv
  BY LogInitial, LogStep, PTL DEF LogSpec
<1>2. LogInv => LogSound
  BY ScanIsSound DEF LogSound, LogInv
<1>. QED  BY <1>1, <1>2, PTL

-----------------------------------------------------------------------------
(* The keyboard                                                            *)

Letters == {"a", "A", "1", "END"}
Bits    == {0, 1}
KbCodes == {"a", "PAD_1", "PAD_STAR", "SHIFT_L", "ALT", "CTRL_L", "CAPS_LOCK", "NUM_LOCK", "E0", "E1"}
KbBytes == [code : KbCodes, break : BOOLEAN]
AllMods == [{"shift_l", "alt_l", "caps_lock", "num_lock"} -> Bits]

\* Bytes of a key that is not complete, and the last one of a special key.
Passes ==
    {<<Byte("E0"), "top", "E0">>, <<Byte("E1"), "top", "E1-2">>,
     <<Byte("SHIFT_L"), "E0", "pressed">>, <<Brk("PAD_STAR"), "E0", "released">>,
     <<Byte("E0"), "pressed", "pressed E0">>, <<Byte("E0"), "released", "released E0">>,
     <<Byte("PAD_STAR"), "pressed E0", "top">>, <<Brk("SHIFT_L"), "released E0", "top">>,
     <<Byte("CTRL_L"), "E1-2", "E1-3">>, <<Byte("NUM_LOCK"), "E1-3", "E1-4">>,
     <<Byte("E1"), "E1-4", "E1-5">>, <<Brk("CTRL_L"), "E1-5", "E1-6">>,
     <<Brk("NUM_LOCK"), "E1-6", "top">>}

\* What the byte b completes at the place p, decoded with the modifiers m: the
\* key for the terminal and the modifiers after it.
Completes(b, p) ==
    \/ p = "top" /\ b.code \notin {"E0", "E1"}
    \/ p = "E0" /\ b \notin {Byte("SHIFT_L"), Brk("PAD_STAR")}
KeyOf(b, p, m) ==
    IF p = "E0" THEN CASE b.code = "PAD_1" -> "END"
                       [] b.code = "ALT"   -> "ALT_R"
                       [] OTHER            -> "none"
    ELSE CASE b.code = "a"     -> IF m.shift_l # m.caps_lock THEN "A" ELSE "a"
           [] b.code = "PAD_1" -> IF m.shift_l = 1 THEN "1" ELSE "PAD_1"
           [] b.code = "ALT"   -> "ALT_L"
           [] OTHER            -> b.code
LetterOf(b, p, m) ==
    IF KeyOf(b, p, m) # "PAD_1" THEN KeyOf(b, p, m) ELSE IF m.num_lock = 1 THEN "1" ELSE "END"
ModsAfter(b, p, m) ==
    LET key == KeyOf(b, p, m)
        bit == IF ~b.break THEN 1 ELSE 0
    IN  CASE key = "SHIFT_L" -> [m EXCEPT !.shift_l = bit]
          [] key \in {"ALT_L", "ALT_R"} -> [m EXCEPT !.alt_l = bit]
          [] key = "CAPS_LOCK" /\ ~b.break -> [m EXCEPT !.caps_lock = 1 - @]
          [] key = "NUM_LOCK" /\ ~b.break  -> [m EXCEPT !.num_lock = 1 - @]
          [] OTHER -> m

\* The byte b read at the place p, with modifiers m and d to come, leads to q, n
\* and e.
Reads(b, p, m, d, q, n, e) ==
    \/ <<b, p, q>> \in Passes /\ n = m /\ e = d
    \/ /\ Completes(b, p) /\ q = "top" /\ n = ModsAfter(b, p, m)
       /\ \/ (b.break \/ LetterOf(b, p, m) \notin Letters) /\ e = d
          \/ /\ ~b.break /\ LetterOf(b, p, m) \in Letters
             /\ d # <<>> /\ Head(d) = LetterOf(b, p, m) /\ e = Tail(d)

\* Reading the bytes s from here leads to the modifiers `last' with nothing to
\* come: p, m and d are the places, the modifiers and what is to come after each.
Reading(s, here, now, todo, last, p, m, d) ==
    /\ p[0] = here /\ m[0] = now /\ d[0] = todo
    /\ \A i \in 1..Len(s) : Reads(s[i], p[i - 1], m[i - 1], d[i - 1], p[i], m[i], d[i])
    /\ \A i \in 0..Len(s) : d[i] \in Seq(Letters)
    /\ p[Len(s)] = "top" /\ m[Len(s)] = last /\ d[Len(s)] = <<>>
Tells(s, here, now, todo, last) == \E p, m, d : Reading(s, here, now, todo, last, p, m, d)

KbPlace == IF kbd.at = "idle" THEN "top" ELSE kbd.at

KbTyped ==
    /\ KbTypeOK
    /\ kb_buf \in Seq(KbBytes) /\ wire \in Seq(KbBytes)

\* The bytes in kb_in and on the wire tell the terminal what is due.
KbInv ==
    /\ KbTyped
    /\ ~lost => ~wrong /\ Tells(kb_buf \o wire, KbPlace, mods, due, UserMods)

LEMMA KbInvSound == KbInv => KeyboardSound
<1>. SUFFICES ASSUME KbInv, ~lost, AllRead  PROVE due = <<>> /\ mods = UserMods
  BY DEF KbInv, KbTyped, KeyboardSound, KeysFaithful
<1>1. PICK p, m, d : Reading(kb_buf \o wire, KbPlace, mods, due, UserMods, p, m, d)
  BY DEF KbInv, Tells
<1>2. Len(kb_buf \o wire) = 0
  BY DEF AllRead
<1>. QED  BY <1>1, <1>2 DEF Reading

LEMMA KbInitial == KbInit => KbInv
<1>. SUFFICES ASSUME KbInit  PROVE KbInv
  OBVIOUS
<1>1. mods \in AllMods
  BY DEF KbInit, NoMods, AllMods, Bits
<1>2. KbTyped
  BY <1>1, KeyboardAssumption DEF KbInit, KbTyped, KbTypeOK, AllMods, Bits
<1>3. UserMods = mods
  BY DEF KbInit, UserMods, NoMods
<1>4. kb_buf \o wire = <<>> /\ KbPlace = "top" /\ due = <<>> /\ ~wrong
  BY DEF KbInit, KbPlace, Idle
<1>5. Reading(<<>>, "top", mods, <<>>, mods, [i \in {0} |-> "top"], [i \in {0} |-> mods], [i \in {0} |-> <<>>])
  BY DEF Reading
<1>. QED  BY <1>2, <1>3, <1>4, <1>5 DEF KbInv, Tells

\* One byte has been read: what remains tells the rest.
LEMMA OneRead ==
    ASSUME NEW s, s \in Seq(KbBytes), s # <<>>, NEW here, NEW now, NEW todo, NEW last,
           Tells(s, here, now, todo, last)
    PROVE  \E q, n, e : /\ Reads(s[1], here, now, todo, q, n, e)
                        /\ Tells(Tail(s), q, n, e, last)
<1>1. PICK p, m, d : Reading(s, here, now, todo, last, p, m, d)
  BY DEF Tells
<1> DEFINE shift(f) == [i \in 0..Len(s) - 1 |-> f[i + 1]]
<1>2. /\ Len(s) \in Nat \ {0} /\ Len(Tail(s)) = Len(s) - 1
      /\ \A i \in 1..Len(s) - 1 : Tail(s)[i] = s[i + 1]
  OBVIOUS
<1>3. PICK n \in Nat \ {0} : n = Len(s)
  BY <1>2
<1>4. \A f : shift(f)[0] = f[1] /\ shift(f)[n - 1] = f[n]
             /\ \A i \in 1..n - 1 : shift(f)[i] = f[i + 1] /\ shift(f)[i - 1] = f[i]
  BY <1>3
<1>. HIDE DEF shift
<1>5. Reads(s[1], here, now, todo, p[1], m[1], d[1])
  BY <1>1, <1>3 DEF Reading
<1>6. \A i \in 1..n - 1 : i + 1 \in 1..n /\ (i + 1) - 1 = i
  BY <1>3
<1>7. \A i \in 1..n - 1 : Reads(Tail(s)[i], shift(p)[i - 1], shift(m)[i - 1], shift(d)[i - 1],
                                shift(p)[i], shift(m)[i], shift(d)[i])
  <2>. TAKE i \in 1..n - 1
  <2>1. Reads(s[i + 1], p[(i + 1) - 1], m[(i + 1) - 1], d[(i + 1) - 1], p[i + 1], m[i + 1], d[i + 1])
    BY <1>1, <1>3, <1>6 DEF Reading
  <2>. QED  BY <1>2, <1>3, <1>4, <1>6, <2>1
<1>8. \A i \in 0..n - 1 : shift(d)[i] \in Seq(Letters)
  <2>1. \A i \in 0..n - 1 : i + 1 \in 0..n /\ (i = 0 \/ i \in 1..n - 1)
    BY <1>3
  <2>. QED  BY <1>1, <1>3, <1>4, <2>1 DEF Reading
<1>9. Reading(Tail(s), p[1], m[1], d[1], last, shift(p), shift(m), shift(d))
  BY <1>1, <1>2, <1>3, <1>4, <1>7, <1>8 DEF Reading
<1>. QED  BY <1>5, <1>9 DEF Tells

LEMMA NothingTells == \A m : Tells(<<>>, "top", m, <<>>, m)
<1>. TAKE m
<1>1. Reading(<<>>, "top", m, <<>>, m, [i \in {0} |-> "top"], [i \in {0} |-> m], [i \in {0} |-> <<>>])
  BY DEF Reading
<1>. QED  BY <1>1 DEF Tells

\* What comes later does not disturb what is due.
LEMMA ReadsMore ==
    ASSUME NEW d \in Seq(Letters), NEW e \in Seq(Letters), NEW x \in Seq(Letters),
           NEW b, NEW p, NEW m, NEW q, NEW n, Reads(b, p, m, d, q, n, e)
    PROVE  Reads(b, p, m, d \o x, q, n, e \o x)
<1>1. d # <<>> => d \o x # <<>> /\ Head(d \o x) = Head(d) /\ Tail(d \o x) = Tail(d) \o x
  OBVIOUS
<1>. QED  BY <1>1 DEF Reads

LEMMA TellsMore ==
    ASSUME NEW s \in Seq(KbBytes), NEW t \in Seq(KbBytes), NEW here, NEW now, NEW todo, NEW last,
           Tells(s, here, now, todo, last), NEW x \in Seq(Letters), NEW end, Tells(t, "top", last, x, end)
    PROVE  Tells(s \o t, here, now, todo \o x, end)
<1>1. PICK p, m, d : Reading(s, here, now, todo, last, p, m, d)
  BY DEF Tells
<1>2. PICK q, n, e : Reading(t, "top", last, x, end, q, n, e)
  BY DEF Tells
<1>3. PICK k \in Nat, l \in Nat : k = Len(s) /\ l = Len(t)
  OBVIOUS
<1> DEFINE u == s \o t
           join(f, g) == [i \in 0..k + l |-> IF i <= k THEN f[i] ELSE g[i - k]]
           more == [i \in 0..k |-> d[i] \o x]
<1>4. Len(u) = k + l /\ \A i \in 1..k : u[i] = s[i]
  BY <1>3
<1>5. \A i \in 1..l : u[k + i] = t[i]
  BY <1>3
<1>6. \A f, g : (\A i \in 0..k : join(f, g)[i] = f[i]) /\ (f[k] = g[0] => \A i \in 0..l : join(f, g)[k + i] = g[i])
  OBVIOUS
<1>7. \A i \in 0..k : more[i] = d[i] \o x /\ more[i] \in Seq(Letters) /\ d[i] \in Seq(Letters)
  BY <1>1, <1>3 DEF Reading
<1>8. more[k] = e[0] /\ more[0] = todo \o x
  <2>1. d[k] = <<>> /\ <<>> \o x = x /\ e[0] = x /\ d[0] = todo
    BY <1>1, <1>2, <1>3 DEF Reading
  <2>2. 0 \in 0..k /\ k \in 0..k
    OBVIOUS
  <2>. QED  BY <1>7, <2>1, <2>2
<1>9. p[k] = q[0] /\ m[k] = n[0]
  BY <1>1, <1>2, <1>3 DEF Reading
<1>. HIDE DEF u, join, more
<1>10. /\ \A i \in 0..k : join(p, q)[i] = p[i] /\ join(m, n)[i] = m[i] /\ join(more, e)[i] = more[i]
       /\ \A i \in 0..l : join(p, q)[k + i] = q[i] /\ join(m, n)[k + i] = n[i] /\ join(more, e)[k + i] = e[i]
  BY <1>6, <1>8, <1>9
<1>11. \A i \in 1..k : Reads(u[i], join(p, q)[i - 1], join(m, n)[i - 1], join(more, e)[i - 1],
                             join(p, q)[i], join(m, n)[i], join(more, e)[i])
  <2>. SUFFICES ASSUME NEW i \in 1..k
                PROVE  Reads(u[i], join(p, q)[i - 1], join(m, n)[i - 1], join(more, e)[i - 1],
                             join(p, q)[i], join(m, n)[i], join(more, e)[i])
    OBVIOUS
  <2>1. i \in 0..k /\ i - 1 \in 0..k
    OBVIOUS
  <2>2. Reads(s[i], p[i - 1], m[i - 1], d[i - 1], p[i], m[i], d[i])
    BY <1>1, <1>3 DEF Reading
  <2>3. Reads(s[i], p[i - 1], m[i - 1], d[i - 1] \o x, p[i], m[i], d[i] \o x)
    BY <1>7, <2>1, <2>2, ReadsMore
  <2>. QED  BY <1>4, <1>7, <1>10, <2>1, <2>3
<1>12. \A i \in 1..k + l : i \notin 1..k => i - k \in 1..l /\ i - k \in 0..l /\ (i - k) - 1 \in 0..l
                                           /\ i = k + (i - k) /\ i - 1 = k + ((i - k) - 1)
  OBVIOUS
<1>13. \A i \in 1..k + l : Reads(u[i], join(p, q)[i - 1], join(m, n)[i - 1], join(more, e)[i - 1],
                                 join(p, q)[i], join(m, n)[i], join(more, e)[i])
  <2>. SUFFICES ASSUME NEW i \in 1..k + l, i \notin 1..k
                PROVE  Reads(u[i], join(p, q)[i - 1], join(m, n)[i - 1], join(more, e)[i - 1],
                             join(p, q)[i], join(m, n)[i], join(more, e)[i])
    BY <1>11
  <2>1. PICK j \in 1..l : i = k + j /\ j \in 0..l /\ j - 1 \in 0..l /\ i - 1 = k + (j - 1)
    BY <1>12
  <2>2. Reads(t[j], q[j - 1], n[j - 1], e[j - 1], q[j], n[j], e[j])
    BY <1>2, <1>3, <2>1 DEF Reading
  <2>. QED  BY <1>5, <1>10, <2>1, <2>2
<1>14. \A i \in 0..k + l : join(more, e)[i] \in Seq(Letters)
  <2>1. \A i \in 0..k + l : i \in 0..k \/ (i - k \in 0..l /\ i = k + (i - k))
    OBVIOUS
  <2>2. \A i \in 0..l : e[i] \in Seq(Letters)
    BY <1>2, <1>3 DEF Reading
  <2>3. \A i \in 0..k : join(more, e)[i] \in Seq(Letters)
    BY <1>7, <1>10
  <2>4. \A i \in 0..l : join(more, e)[k + i] \in Seq(Letters)
    BY <1>10, <2>2
  <2>. QED  BY <2>1, <2>3, <2>4
<1>15. 0 \in 0..k /\ l \in 0..l
  OBVIOUS
<1>16. Reading(u, here, now, todo \o x, end, join(p, q), join(m, n), join(more, e))
  BY <1>1, <1>2, <1>3, <1>4, <1>8, <1>10, <1>13, <1>14, <1>15 DEF Reading
<1>. QED  BY <1>16 DEF Tells, u

LEMMA BytesAre == \A c \in KbCodes : Byte(c) \in KbBytes /\ Brk(c) \in KbBytes
BY DEF KbBytes, Byte, Brk

\* A key of k bytes: all but the last only lead to another place.
LEMMA KeyTells ==
    ASSUME NEW s, NEW k \in Nat \ {0}, Len(s) = k, NEW m, NEW n, NEW x \in Seq(Letters),
           NEW P, P[0] = "top", \A i \in 1..k - 1 : <<s[i], P[i - 1], P[i]>> \in Passes,
           Reads(s[k], P[k - 1], m, x, "top", n, <<>>)
    PROVE  Tells(s, "top", m, x, n)
<1> DEFINE p == [i \in 0..k |-> IF i = k THEN "top" ELSE P[i]]
           q == [i \in 0..k |-> IF i = k THEN n ELSE m]
           d == [i \in 0..k |-> IF i = k THEN <<>> ELSE x]
<1>1. /\ \A i \in 0..k - 1 : p[i] = P[i] /\ q[i] = m /\ d[i] = x
      /\ p[k] = "top" /\ q[k] = n /\ d[k] = <<>>
  OBVIOUS
<1>2. \A i \in 0..k : d[i] \in Seq(Letters)
  OBVIOUS
<1>. HIDE DEF p, q, d
<1>3. \A i \in 1..k : i - 1 \in 0..k - 1 /\ (i = k \/ (i \in 1..k - 1 /\ i \in 0..k - 1))
  OBVIOUS
<1>4. \A i \in 1..k - 1 : Reads(s[i], P[i - 1], m, x, P[i], m, x)
  BY DEF Reads
<1>5. \A i \in 1..k : Reads(s[i], p[i - 1], q[i - 1], d[i - 1], p[i], q[i], d[i])
  BY <1>1, <1>3, <1>4
<1>6. 0 \in 0..k - 1
  OBVIOUS
<1>7. Reading(s, "top", m, x, n, p, q, d)
  BY <1>1, <1>2, <1>5, <1>6 DEF Reading
<1>. QED  BY <1>7 DEF Tells

\* The special keys ...
LEMMA SpecialTells ==
    ASSUME NEW m
    PROVE  /\ Tells(Sends("PRINTSCREEN", FALSE), "top", m, <<>>, m)
           /\ Tells(Sends("PRINTSCREEN", TRUE), "top", m, <<>>, m)
           /\ Tells(Sends("PAUSEBREAK", FALSE), "top", m, <<>>, m)
<1>. <<>> \in Seq(Letters)
  OBVIOUS
<1>1. Tells(<<E0, Byte("SHIFT_L"), E0, Byte("PAD_STAR")>>, "top", m, <<>>, m)
  <2> DEFINE s == <<E0, Byte("SHIFT_L"), E0, Byte("PAD_STAR")>>
             P == [i \in 0..3 |-> IF i = 0 THEN "top" ELSE IF i = 1 THEN "E0" ELSE IF i = 2 THEN "pressed" ELSE "pressed E0"]
  <2>1. P[0] = "top" /\ P[1] = "E0" /\ P[2] = "pressed" /\ P[3] = "pressed E0"
    OBVIOUS
  <2>2. Len(s) = 4 /\ s[1] = E0 /\ s[2] = Byte("SHIFT_L") /\ s[3] = E0 /\ s[4] = Byte("PAD_STAR")
    OBVIOUS
  <2>. HIDE DEF s, P
  <2>3. /\ <<s[1], P[0], P[1]>> \in Passes /\ <<s[2], P[1], P[2]>> \in Passes
        /\ <<s[3], P[2], P[3]>> \in Passes /\ <<s[4], P[3], "top">> \in Passes
    BY <2>1, <2>2 DEF Passes, E0
  <2>k. PICK k \in Nat \ {0} : k = 4
    OBVIOUS
  <2>4. \A i \in 1..k - 1 : <<s[i], P[i - 1], P[i]>> \in Passes
    <3>1. \A i \in 1..k - 1 : (i = 1 /\ i - 1 = 0) \/ (i = 2 /\ i - 1 = 1) \/ (i = 3 /\ i - 1 = 2)
      BY <2>k
    <3>. QED  BY <2>3, <3>1
  <2>5. Reads(s[k], P[k - 1], m, <<>>, "top", m, <<>>)
    <3>1. k - 1 = 3
      BY <2>k
    <3>. QED  BY <2>3, <2>k, <3>1 DEF Reads
  <2>6. Tells(s, "top", m, <<>>, m)
    BY <2>1, <2>2, <2>k, <2>4, <2>5, KeyTells
  <2>. QED  BY <2>6 DEF s
<1>2. Tells(<<E0, Brk("PAD_STAR"), E0, Brk("SHIFT_L")>>, "top", m, <<>>, m)
  <2> DEFINE s == <<E0, Brk("PAD_STAR"), E0, Brk("SHIFT_L")>>
             P == [i \in 0..3 |-> IF i = 0 THEN "top" ELSE IF i = 1 THEN "E0" ELSE IF i = 2 THEN "released" ELSE "released E0"]
  <2>1. P[0] = "top" /\ P[1] = "E0" /\ P[2] = "released" /\ P[3] = "released E0"
    OBVIOUS
  <2>2. Len(s) = 4 /\ s[1] = E0 /\ s[2] = Brk("PAD_STAR") /\ s[3] = E0 /\ s[4] = Brk("SHIFT_L")
    OBVIOUS
  <2>. HIDE DEF s, P
  <2>3. /\ <<s[1], P[0], P[1]>> \in Passes /\ <<s[2], P[1], P[2]>> \in Passes
        /\ <<s[3], P[2], P[3]>> \in Passes /\ <<s[4], P[3], "top">> \in Passes
    BY <2>1, <2>2 DEF Passes, E0
  <2>k. PICK k \in Nat \ {0} : k = 4
    OBVIOUS
  <2>4. \A i \in 1..k - 1 : <<s[i], P[i - 1], P[i]>> \in Passes
    <3>1. \A i \in 1..k - 1 : (i = 1 /\ i - 1 = 0) \/ (i = 2 /\ i - 1 = 1) \/ (i = 3 /\ i - 1 = 2)
      BY <2>k
    <3>. QED  BY <2>3, <3>1
  <2>5. Reads(s[k], P[k - 1], m, <<>>, "top", m, <<>>)
    <3>1. k - 1 = 3
      BY <2>k
    <3>. QED  BY <2>3, <2>k, <3>1 DEF Reads
  <2>6. Tells(s, "top", m, <<>>, m)
    BY <2>1, <2>2, <2>k, <2>4, <2>5, KeyTells
  <2>. QED  BY <2>6 DEF s
<1>3. Tells(PauseCodes, "top", m, <<>>, m)
  <2> DEFINE P == [i \in 0..5 |-> IF i = 0 THEN "top" ELSE IF i = 1 THEN "E1-2" ELSE IF i = 2 THEN "E1-3" ELSE IF i = 3 THEN "E1-4" ELSE IF i = 4 THEN "E1-5" ELSE "E1-6"]
  <2>1. P[0] = "top" /\ P[1] = "E1-2" /\ P[2] = "E1-3" /\ P[3] = "E1-4" /\ P[4] = "E1-5" /\ P[5] = "E1-6"
    OBVIOUS
  <2>2. /\ Len(PauseCodes) = 6
        /\ PauseCodes[1] = Byte("E1") /\ PauseCodes[2] = Byte("CTRL_L") /\ PauseCodes[3] = Byte("NUM_LOCK")
        /\ PauseCodes[4] = Byte("E1") /\ PauseCodes[5] = Brk("CTRL_L") /\ PauseCodes[6] = Brk("NUM_LOCK")
    BY DEF PauseCodes
  <2>. HIDE DEF P
  <2>3. /\ <<PauseCodes[1], P[0], P[1]>> \in Passes /\ <<PauseCodes[2], P[1], P[2]>> \in Passes
        /\ <<PauseCodes[3], P[2], P[3]>> \in Passes /\ <<PauseCodes[4], P[3], P[4]>> \in Passes
        /\ <<PauseCodes[5], P[4], P[5]>> \in Passes /\ <<PauseCodes[6], P[5], "top">> \in Passes
    BY <2>1, <2>2 DEF Passes
  <2>k. PICK k \in Nat \ {0} : k = 6
    OBVIOUS
  <2>4. \A i \in 1..k - 1 : <<PauseCodes[i], P[i - 1], P[i]>> \in Passes
    <3>1. \A i \in 1..k - 1 : \/ (i = 1 /\ i - 1 = 0) \/ (i = 2 /\ i - 1 = 1)
                              \/ (i = 3 /\ i - 1 = 2) \/ (i = 4 /\ i - 1 = 3)
                              \/ (i = 5 /\ i - 1 = 4)
      BY <2>k
    <3>. QED  BY <2>3, <3>1
  <2>5. Reads(PauseCodes[k], P[k - 1], m, <<>>, "top", m, <<>>)
    <3>1. k - 1 = 5
      BY <2>k
    <3>. QED  BY <2>3, <2>k, <3>1 DEF Reads
  <2>. QED  BY <2>1, <2>2, <2>k, <2>4, <2>5, KeyTells
<1>. QED  BY <1>1, <1>2, <1>3 DEF Sends

\* ... and the others: what the user sees of the modifiers and means by the key
\* is what its last byte does.
LEMMA PlainTells ==
    ASSUME KbTyped, NEW key \in KbKeys, KeyEvent(key), key \notin {"PRINTSCREEN", "PAUSEBREAK"},
           NEW b, NEW p, NEW x, NEW u, NEW v, u = UserMods, v = UserMods',
           b = [code |-> IF key = "END" THEN "PAD_1" ELSE IF key = "ALT_R" THEN "ALT" ELSE key,
                break |-> key \in down],
           p = IF key \in {"END", "ALT_R"} THEN "E0" ELSE "top",
           x = IF key \in down \/ key \notin Meant THEN <<>> ELSE <<Meaning(key, UserMods)>>
    PROVE  Reads(b, p, u, x, "top", v, <<>>)
<1>1. key \in {"a", "PAD_1", "END", "SHIFT_L", "ALT_R", "CAPS_LOCK", "NUM_LOCK"}
  BY KeyboardAssumption
<1>2. /\ u.shift_l = IF "SHIFT_L" \in down THEN 1 ELSE 0
      /\ u.num_lock = IF "NUM_LOCK" \in locks THEN 1 ELSE 0
      /\ u.caps_lock = IF "CAPS_LOCK" \in locks THEN 1 ELSE 0
  BY DEF UserMods
<1>3. v = [shift_l   |-> IF "SHIFT_L" \in down' THEN 1 ELSE 0, alt_l    |-> IF "ALT_R" \in down' THEN 1 ELSE 0,
           caps_lock |-> IF "CAPS_LOCK" \in locks' THEN 1 ELSE 0, num_lock |-> IF "NUM_LOCK" \in locks' THEN 1 ELSE 0]
  BY DEF UserMods
<1>4. u = [shift_l   |-> IF "SHIFT_L" \in down THEN 1 ELSE 0, alt_l    |-> IF "ALT_R" \in down THEN 1 ELSE 0,
           caps_lock |-> IF "CAPS_LOCK" \in locks THEN 1 ELSE 0, num_lock |-> IF "NUM_LOCK" \in locks THEN 1 ELSE 0]
  BY DEF UserMods
<1>5. /\ down' = IF key \in down THEN down \ {key} ELSE down \cup {key}
      /\ locks' = IF key \in down \/ key \notin {"CAPS_LOCK", "NUM_LOCK"} THEN locks
                  ELSE IF key \in locks THEN locks \ {key} ELSE locks \cup {key}
  BY DEF KeyEvent
<1>6. Completes(b, p)
  BY <1>1 DEF Completes, Byte, Brk
<1>7. v = ModsAfter(b, p, u)
  <2>1. CASE key \in {"a", "PAD_1", "END"}
    <3>1. v = u
      BY <1>3, <1>4, <1>5, <2>1
    <3>2. ModsAfter(b, p, u) = u
      BY <2>1 DEF ModsAfter, KeyOf
    <3>. QED  BY <3>1, <3>2
  <2>2. CASE key = "SHIFT_L"
    <3>1. v = [u EXCEPT !.shift_l = IF key \in down THEN 0 ELSE 1]
      BY <1>3, <1>4, <1>5, <2>2
    <3>2. ModsAfter(b, p, u) = [u EXCEPT !.shift_l = IF key \in down THEN 0 ELSE 1]
      BY <2>2 DEF ModsAfter, KeyOf
    <3>. QED  BY <3>1, <3>2
  <2>3. CASE key = "ALT_R"
    <3>1. v = [u EXCEPT !.alt_l = IF key \in down THEN 0 ELSE 1]
      BY <1>3, <1>4, <1>5, <2>3
    <3>2. ModsAfter(b, p, u) = [u EXCEPT !.alt_l = IF key \in down THEN 0 ELSE 1]
      BY <2>3 DEF ModsAfter, KeyOf
    <3>. QED  BY <3>1, <3>2
  <2>4. CASE key = "CAPS_LOCK"
    <3>1. v = IF key \in down THEN u ELSE [u EXCEPT !.caps_lock = 1 - @]
      BY <1>3, <1>4, <1>5, <2>4
    <3>2. ModsAfter(b, p, u) = IF key \in down THEN u ELSE [u EXCEPT !.caps_lock = 1 - @]
      BY <2>4 DEF ModsAfter, KeyOf
    <3>. QED  BY <3>1, <3>2
  <2>5. CASE key = "NUM_LOCK"
    <3>1. v = IF key \in down THEN u ELSE [u EXCEPT !.num_lock = 1 - @]
      BY <1>3, <1>4, <1>5, <2>5
    <3>2. ModsAfter(b, p, u) = IF key \in down THEN u ELSE [u EXCEPT !.num_lock = 1 - @]
      BY <2>5 DEF ModsAfter, KeyOf
    <3>. QED  BY <3>1, <3>2
  <2>. QED  BY <1>1, <2>1, <2>2, <2>3, <2>4, <2>5
<1>8. CASE x = <<>>
  <2>1. b.break \/ LetterOf(b, p, u) \notin Letters
    <3>1. key \in down \/ key \in {"SHIFT_L", "ALT_R", "CAPS_LOCK", "NUM_LOCK"}
      BY <1>1, <1>8 DEF Meant
    <3>2. CASE key \in {"SHIFT_L", "ALT_R", "CAPS_LOCK", "NUM_LOCK"}
      <4>1. KeyOf(b, p, u) = key
        BY <3>2 DEF KeyOf
      <4>. QED  BY <3>2, <4>1 DEF LetterOf, Letters
    <3>. QED  BY <3>1, <3>2
  <2>. QED  BY <1>6, <1>7, <1>8, <2>1 DEF Reads
<1>9. CASE x # <<>>
  <2>1. key \notin down /\ key \in Meant /\ x = <<Meaning(key, u)>> /\ ~b.break
    BY <1>9
  <2>2. LetterOf(b, p, u) = Meaning(key, u)
    BY <1>2, <2>1 DEF LetterOf, KeyOf, Meaning, Meant
  <2>3. Meaning(key, u) \in Letters
    BY <2>1 DEF Meaning, Letters, Meant
  <2>4. Head(x) = Meaning(key, u) /\ Tail(x) = <<>>
    BY <2>1
  <2>. QED  BY <1>6, <1>7, <1>9, <2>1, <2>2, <2>3, <2>4 DEF Reads
<1>. QED  BY <1>8, <1>9

LEMMA KeyEventKeeps ==
    ASSUME KbInv, NEW key \in KbKeys, KeyEvent(key)
    PROVE  KbInv'
<1> DEFINE up == key \in down
           x  == IF up \/ key \notin Meant THEN <<>> ELSE <<Meaning(key, UserMods)>>
<1>1. /\ ~lost /\ wire = <<>> /\ wire' = Sends(key, up)
      /\ UNCHANGED <<kb_buf, kbd, mods, lost, wrong>>
      /\ down' \subseteq KbKeys /\ events' \in 0..MaxEvents
  BY KeyboardAssumption DEF KeyEvent, KbInv, KbTyped, KbTypeOK
<1>2. wire' \in Seq(KbBytes)
  <2>1. \A c \in KbCodes : [code |-> c, break |-> up] \in KbBytes
    BY DEF KbBytes
  <2>2. E0 \in KbBytes /\ PauseCodes \in Seq(KbBytes)
    BY BytesAre DEF KbCodes, E0, PauseCodes
  <2>3. key \in {"PRINTSCREEN", "PAUSEBREAK", "ALT_R", "END"} \/ key \in KbCodes
    BY KeyboardAssumption DEF KbCodes
  <2>4. CASE key = "PRINTSCREEN"
    BY <1>1, <2>2, <2>4, BytesAre DEF Sends, KbCodes
  <2>5. CASE key = "PAUSEBREAK"
    BY <1>1, <2>2, <2>5 DEF Sends
  <2>6. CASE key \in {"ALT_R", "END"}
    BY <1>1, <2>1, <2>2, <2>6 DEF Sends, KbCodes
  <2>7. CASE key \in KbCodes
    BY <1>1, <2>1, <2>7 DEF Sends, KbCodes
  <2>. QED  BY <2>3, <2>4, <2>5, <2>6, <2>7
<1>3. KbTyped'
  BY <1>1, <1>2 DEF KbInv, KbTyped, KbTypeOK
<1>4. x \in Seq(Letters)
  <2>1. key \in Meant => Meaning(key, UserMods) \in Letters
    BY DEF Meant, Meaning, Letters
  <2>. QED  BY <2>1
<1>5. PICK p, m, d : Reading(kb_buf \o wire, KbPlace, mods, due, UserMods, p, m, d)
  BY <1>1 DEF KbInv, Tells
<1>6. due \in Seq(Letters)
  <2>1. Len(kb_buf \o wire) \in Nat
    BY DEF KbInv, KbTyped
  <2>. QED  BY <1>5, <2>1 DEF Reading
<1>7. due' = due \o x
  BY <1>6 DEF KeyEvent
<1>8. Tells(wire', "top", UserMods, x, UserMods')
  <2>1. CASE key \in {"PRINTSCREEN", "PAUSEBREAK"}
    <3>1. UserMods' = UserMods /\ x = <<>>
      BY <2>1 DEF KeyEvent, UserMods, Meant
    <3>2. Tells(<<>>, "top", UserMods, <<>>, UserMods)
      BY NothingTells
    <3>3. key = "PAUSEBREAK" /\ up => wire' = <<>>
      BY <1>1 DEF Sends
    <3>4. up = TRUE \/ up = FALSE
      OBVIOUS
    <3>5. PICK u : u = UserMods
      OBVIOUS
    <3>. QED  BY <1>1, <2>1, <3>1, <3>2, <3>3, <3>4, <3>5, SpecialTells
  <2>2. CASE key \notin {"PRINTSCREEN", "PAUSEBREAK"}
    <3>1. PICK b, p0, y, u, v :
             /\ u = UserMods /\ v = UserMods' /\ y = x
             /\ b = [code |-> IF key = "END" THEN "PAD_1" ELSE IF key = "ALT_R" THEN "ALT" ELSE key,
                     break |-> up]
             /\ p0 = IF key \in {"END", "ALT_R"} THEN "E0" ELSE "top"
      OBVIOUS
    <3>2. Reads(b, p0, u, y, "top", v, <<>>)
      BY <2>2, <3>1, PlainTells DEF KbInv
    <3>3. wire' = IF key \in {"END", "ALT_R"} THEN <<E0, b>> ELSE <<b>>
      BY <1>1, <2>2, <3>1 DEF Sends
    <3>4. y \in Seq(Letters)
      BY <1>4, <3>1
    <3>5. CASE key \in {"END", "ALT_R"}
      <4>1. PICK w : w = <<E0, b>>
        OBVIOUS
      <4>k. PICK k \in Nat \ {0} : k = 2
        OBVIOUS
      <4>2. PICK P : P[0] = "top" /\ P[1] = "E0"
        <5>1. [i \in 0..1 |-> IF i = 0 THEN "top" ELSE "E0"][0] = "top" /\ [i \in 0..1 |-> IF i = 0 THEN "top" ELSE "E0"][1] = "E0"
          OBVIOUS
        <5>. QED  BY <5>1
      <4>3. Len(w) = k /\ w[1] = E0 /\ w[k] = b /\ k - 1 = 1
        BY <4>1, <4>k
      <4>4. \A i \in 1..k - 1 : <<w[i], P[i - 1], P[i]>> \in Passes
        <5>1. \A i \in 1..k - 1 : i = 1 /\ i - 1 = 0
          BY <4>k
        <5>. QED  BY <4>2, <4>3, <5>1 DEF Passes, E0
      <4>5. Reads(w[k], P[k - 1], u, y, "top", v, <<>>)
        BY <3>1, <3>2, <3>5, <4>2, <4>3
      <4>6. Tells(w, "top", u, y, v)
        BY <3>4, <4>2, <4>3, <4>4, <4>5, KeyTells
      <4>. QED  BY <3>1, <3>3, <3>5, <4>1, <4>6
    <3>6. CASE key \notin {"END", "ALT_R"}
      <4>1. PICK w : w = <<b>>
        OBVIOUS
      <4>k. PICK k \in Nat \ {0} : k = 1
        OBVIOUS
      <4>2. PICK P : P[0] = "top"
        <5>1. [i \in {0} |-> "top"][0] = "top"
          OBVIOUS
        <5>. QED  BY <5>1
      <4>3. Len(w) = k /\ w[k] = b /\ k - 1 = 0
        BY <4>1, <4>k
      <4>4. \A i \in 1..k - 1 : <<w[i], P[i - 1], P[i]>> \in Passes
        BY <4>k
      <4>5. Reads(w[k], P[k - 1], u, y, "top", v, <<>>)
        BY <3>1, <3>2, <3>6, <4>2, <4>3
      <4>6. Tells(w, "top", u, y, v)
        BY <3>4, <4>2, <4>3, <4>4, <4>5, KeyTells
      <4>. QED  BY <3>1, <3>3, <3>6, <4>1, <4>6
    <3>. QED  BY <3>5, <3>6
  <2>. QED  BY <2>1, <2>2
<1>9. Tells(kb_buf \o wire, KbPlace, mods, due, UserMods)
  BY <1>1 DEF KbInv
<1>10. kb_buf \o wire = kb_buf /\ kb_buf \in Seq(KbBytes)
  BY <1>1 DEF KbInv, KbTyped
<1>11. Tells(kb_buf \o wire', KbPlace, mods, due \o x, UserMods')
  <2>1. PICK w, v, u, s, y : w = wire' /\ v = UserMods' /\ u = UserMods /\ s = kb_buf /\ y = x
    OBVIOUS
  <2>2. s \in Seq(KbBytes) /\ w \in Seq(KbBytes) /\ y \in Seq(Letters)
    BY <1>2, <1>4, <1>10, <2>1
  <2>3. Tells(s, KbPlace, mods, due, u) /\ Tells(w, "top", u, y, v)
    BY <1>8, <1>9, <1>10, <2>1
  <2>4. Tells(s \o w, KbPlace, mods, due \o y, v)
    BY <2>2, <2>3, TellsMore
  <2>. QED  BY <2>1, <2>4
<1>12. KbPlace' = KbPlace /\ ~wrong'
  BY <1>1 DEF KbPlace, KbInv
<1>. QED  BY <1>1, <1>3, <1>7, <1>11, <1>12 DEF KbInv

LEMMA InterruptKeeps ==
    ASSUME KbInv, KbInterrupt
    PROVE  KbInv'
<1>1. /\ wire # <<>> /\ wire' = Tail(wire) /\ kb_buf \in Seq(KbBytes) /\ wire \in Seq(KbBytes)
      /\ UNCHANGED <<down, locks, kbd, mods, wrong, events>>
  BY DEF KbInterrupt, KbInv, KbTyped
<1>2. Head(wire) \in KbBytes /\ Tail(wire) \in Seq(KbBytes)
  BY <1>1
<1>3. CASE Len(kb_buf) < KB_IN_SIZE
  <2>1. kb_buf' = Append(kb_buf, Head(wire)) /\ UNCHANGED <<lost, due>>
    BY <1>3 DEF KbInterrupt
  <2>2. KbTyped'
    BY <1>1, <1>2, <1>3, <2>1, KeyboardAssumption DEF KbInv, KbTyped, KbTypeOK
  <2>3. kb_buf' \o wire' = kb_buf \o wire
    BY <1>1, <2>1
  <2>4. KbPlace' = KbPlace /\ UserMods' = UserMods
    BY <1>1 DEF KbPlace, UserMods
  <2>. QED  BY <1>1, <2>1, <2>2, <2>3, <2>4 DEF KbInv
<1>4. CASE ~(Len(kb_buf) < KB_IN_SIZE)
  <2>1. lost' /\ UNCHANGED kb_buf
    BY <1>4 DEF KbInterrupt
  <2>. QED  BY <1>1, <1>2, <2>1 DEF KbInv, KbTyped, KbTypeOK
<1>. QED  BY <1>3, <1>4

LEMMA BeginsEndsKeep ==
    ASSUME KbInv, Begins \/ Ends
    PROVE  KbInv'
<1>1. UNCHANGED <<down, locks, wire, kb_buf, mods, due, lost, wrong, events>>
  BY DEF Begins, Ends
<1>2. KbPlace' = KbPlace
  BY DEF Begins, Ends, KbPlace, Idle
<1>3. KbTyped' /\ UserMods' = UserMods
  BY <1>1 DEF KbInv, KbTyped, KbTypeOK, UserMods
<1>. QED  BY <1>1, <1>2, <1>3 DEF KbInv

\* keyboard_read takes a byte and does with it what Reads says, or loses it.
Follows(b) ==
    ~lost' => /\ ~lost
              /\ \A q, n, e : Reads(b, KbPlace, mods, due, q, n, e) =>
                    KbPlace' = q /\ mods' = n /\ due' = e /\ wrong' = wrong

LEMMA ByteKeeps ==
    ASSUME KbInv, kb_buf # <<>>, kb_buf' = Tail(kb_buf), UNCHANGED <<down, locks, wire, events>>,
           mods' \in AllMods, Follows(Head(kb_buf))
    PROVE  KbInv'
<1>1. /\ kb_buf \in Seq(KbBytes) /\ wire \in Seq(KbBytes)
      /\ Tail(kb_buf) \in Seq(KbBytes) /\ Len(Tail(kb_buf)) = Len(kb_buf) - 1
  BY DEF KbInv, KbTyped
<1>2. KbTyped'
  BY <1>1, KeyboardAssumption DEF KbInv, KbTyped, KbTypeOK, AllMods, Bits
<1>3. ASSUME ~lost'  PROVE ~wrong' /\ Tells(kb_buf' \o wire', KbPlace', mods', due', UserMods')
  <2>1. ~lost
    BY <1>3 DEF Follows
  <2>2. PICK s : s = kb_buf \o wire
    OBVIOUS
  <2>3. s \in Seq(KbBytes) /\ s # <<>> /\ s[1] = Head(kb_buf) /\ Tail(s) = kb_buf' \o wire'
    BY <1>1, <2>2
  <2>4. PICK u : u = UserMods
    OBVIOUS
  <2>5. Tells(s, KbPlace, mods, due, u) /\ ~wrong
    BY <2>1, <2>2, <2>4 DEF KbInv
  <2>6. PICK q, n, e : Reads(s[1], KbPlace, mods, due, q, n, e) /\ Tells(Tail(s), q, n, e, u)
    BY <2>3, <2>5, OneRead
  <2>7. KbPlace' = q /\ mods' = n /\ due' = e /\ wrong' = wrong
    BY <1>3, <2>3, <2>6 DEF Follows
  <2>8. UserMods' = u
    BY <2>4 DEF UserMods
  <2>. QED  BY <2>1, <2>3, <2>5, <2>6, <2>7, <2>8
<1>. QED  BY <1>2, <1>3 DEF KbInv

LEMMA ModsTyped ==
    ASSUME mods \in AllMods, NEW key, NEW make
    PROVE  Modified(key, make) \in AllMods
BY DEF Modified, AllMods, Bits

LEMMA DecodeFollows ==
    ASSUME mods \in AllMods, NEW b, NEW e0 \in BOOLEAN, Decode(b, e0), Completes(b, KbPlace),
           e0 <=> KbPlace = "E0"
    PROVE  mods' \in AllMods /\ Follows(b)
<1>1. CASE Special(kbd.key)
  BY <1>1 DEF Decode, Swallow, Finish, Follows
<1>2. CASE ~Special(kbd.key)
  <2>1. PICK key : key = KeyMap(b.code, e0)
    OBVIOUS
  <2>2. /\ mods' = Modified(key, ~b.break) /\ UNCHANGED lost
        /\ IF b.break THEN UNCHANGED <<due, wrong>> ELSE in_process(Pad(key))
        /\ kbd' = [at |-> "top", key |-> "none", make |-> ~b.break]
    BY <1>2, <2>1 DEF Decode
  <2>3. mods' \in AllMods
    BY <2>2, ModsTyped
  <2>4. key = KeyOf(b, KbPlace, mods)
    BY <2>1 DEF KeyMap, KeyOf
  <2>5. Pad(key) = LetterOf(b, KbPlace, mods) /\ mods' = ModsAfter(b, KbPlace, mods)
    BY <2>2, <2>4 DEF Pad, LetterOf, Modified, ModsAfter
  <2>6. \A q : <<b, KbPlace, q>> \notin Passes
    <3>1. Byte("E0").code = "E0" /\ Byte("E1").code = "E1"
      BY DEF Byte
    <3>2. CASE KbPlace = "top"
      <4>1. \A q : <<b, "top", q>> \in Passes => b \in {Byte("E0"), Byte("E1")}
        BY Zenon DEF Passes
      <4>. QED  BY <3>1, <3>2, <4>1 DEF Completes
    <3>3. CASE KbPlace = "E0"
      <4>1. \A q : <<b, "E0", q>> \in Passes => b \in {Byte("SHIFT_L"), Brk("PAD_STAR")}
        BY DEF Passes
      <4>. QED  BY <3>3, <4>1 DEF Completes
    <3>. QED  BY <3>2, <3>3 DEF Completes
  <2>7. KbPlace' = "top"
    BY <2>2 DEF KbPlace
  <2>8. ASSUME ~lost', NEW q, NEW n, NEW e, Reads(b, KbPlace, mods, due, q, n, e)
        PROVE  KbPlace' = q /\ mods' = n /\ due' = e /\ wrong' = wrong
    <3>1. /\ q = "top" /\ n = ModsAfter(b, KbPlace, mods)
          /\ \/ (b.break \/ LetterOf(b, KbPlace, mods) \notin Letters) /\ e = due
             \/ /\ ~b.break /\ LetterOf(b, KbPlace, mods) \in Letters
                /\ due # <<>> /\ Head(due) = LetterOf(b, KbPlace, mods) /\ e = Tail(due)
      BY <2>6, <2>8 DEF Reads
    <3>2. due' = e /\ wrong' = wrong
      BY <2>2, <2>5, <2>8, <3>1 DEF in_process, Letters
    <3>. QED  BY <2>5, <2>7, <3>1, <3>2
  <2>9. ~lost' => ~lost
    BY <2>2
  <2>. QED  BY <2>3, <2>8, <2>9 DEF Follows
<1>. QED  BY <1>1, <1>2

\* A byte that leads from one place to the next, or completes a special key.
LEMMA PassFollows ==
    ASSUME NEW b, NEW q, KbPlace' = q, UNCHANGED <<mods, due, lost, wrong>>,
           \A r, n, e : Reads(b, KbPlace, mods, due, r, n, e) => r = q /\ n = mods /\ e = due
    PROVE  Follows(b)
BY DEF Follows

LEMMA KbGoesOn ==
    ASSUME NEW q, Goes(q), q # "idle"
    PROVE  KbPlace' = q /\ UNCHANGED <<mods, due, lost, wrong>>
<1>1. kbd'.at = q
  BY DEF Goes
<1>. QED  BY <1>1 DEF Goes, KbPlace

LEMMA Finished ==
    ASSUME NEW key, NEW make, FinishSpecial(key, make)
    PROVE  KbPlace' = "top" /\ UNCHANGED <<mods, due, lost, wrong>>
BY DEF FinishSpecial, Finish, KbPlace

\* At the places inside a key only one byte goes on.
LEMMA InsideKey ==
    ASSUME NEW b, NEW p, p \notin {"top", "E0"}, NEW m, NEW d, NEW q, NEW n, NEW e,
           Reads(b, p, m, d, q, n, e)
    PROVE  <<b, p, q>> \in Passes /\ n = m /\ e = d
BY DEF Reads, Completes

\* A byte that fits no key in its place does not come.
LEMMA NothingFollows ==
    ASSUME mods \in AllMods, NEW b, NEW e0 \in BOOLEAN, Decode(b, e0),
           \A q, n, e : ~Reads(b, KbPlace, mods, due, q, n, e)
    PROVE  mods' \in AllMods /\ Follows(b)
<1>1. CASE Special(kbd.key)
  BY <1>1 DEF Decode, Swallow, Finish, Follows
<1>2. CASE ~Special(kbd.key)
  <2>1. mods' \in AllMods /\ UNCHANGED lost
    BY <1>2, ModsTyped DEF Decode
  <2>. QED  BY <2>1 DEF Follows
<1>. QED  BY <1>1, <1>2

LEMMA TakesKeeps ==
    ASSUME KbInv, NEW loc, NEW b, Takes(loc, b), mods' \in AllMods, Follows(b)
    PROVE  KbInv'
BY ByteKeeps DEF Takes

LEMMA FirstByteKeeps == KbInv /\ FirstByte => KbInv'
<1>. SUFFICES ASSUME KbInv, FirstByte  PROVE KbInv'
  OBVIOUS
<1>1. PICK b : /\ Takes("top", b)
               /\ IF b.code = "E1" THEN Goes("E1-2")
                  ELSE IF b.code = "E0" THEN Goes("E0")
                  ELSE Decode(b, FALSE)
  BY DEF FirstByte
<1>2. KbPlace = "top" /\ mods \in AllMods
  BY <1>1 DEF Takes, KbPlace, KbInv, KbTyped, KbTypeOK, AllMods, Bits
<1>3. CASE b.code \in {"E0", "E1"}
  <2>1. ~Completes(b, "top")
    BY <1>3 DEF Completes
  <2>2. \A q : <<b, "top", q>> \in Passes => q = IF b.code = "E1" THEN "E1-2" ELSE "E0"
    <3>1. Byte("E0").code = "E0" /\ Byte("E1").code = "E1"
      BY DEF Byte
    <3>2. \A q : <<b, "top", q>> \in Passes => \/ b = Byte("E0") /\ q = "E0"
                                               \/ b = Byte("E1") /\ q = "E1-2"
      BY Zenon DEF Passes
    <3>. QED  BY <3>1, <3>2
  <2>3. PICK q : q = IF b.code = "E1" THEN "E1-2" ELSE "E0"
    OBVIOUS
  <2>4. Goes(q) /\ q # "idle"
    BY <1>1, <1>3, <2>3
  <2>5. \A r, n, e : Reads(b, KbPlace, mods, due, r, n, e) => r = q /\ n = mods /\ e = due
    BY <1>2, <2>1, <2>2, <2>3 DEF Reads
  <2>6. Follows(b) /\ mods' \in AllMods
    BY <1>2, <2>4, <2>5, KbGoesOn, PassFollows
  <2>. QED  BY <1>1, <2>6, TakesKeeps
<1>4. CASE b.code \notin {"E0", "E1"}
  <2>1. Decode(b, FALSE) /\ Completes(b, KbPlace)
    BY <1>1, <1>2, <1>4 DEF Completes
  <2>. QED  BY <1>1, <1>2, <2>1, DecodeFollows, TakesKeeps
<1>. QED  BY <1>3, <1>4

LEMMA PauseByteKeeps == KbInv /\ PauseByte => KbInv'
<1>. SUFFICES ASSUME KbInv, PauseByte  PROVE KbInv'
  OBVIOUS
<1>1. PICK i \in 1..5, b \in ToSet(kb_buf) :
                           /\ Takes(PauseSteps[i], b)
                           /\ IF b # PauseCodes[i + 1] THEN Decode(Brk("E1"), FALSE)
                              ELSE IF i < 5 THEN Goes(PauseSteps[i + 1])
                              ELSE FinishSpecial("PAUSEBREAK", kbd.make)
  BY DEF PauseByte
<1>2. PICK p : p = PauseSteps[i]
  OBVIOUS
<1>3. /\ i = 1 => p = "E1-2" /\ PauseSteps[i + 1] = "E1-3" /\ PauseCodes[i + 1] = Byte("CTRL_L")
      /\ i = 2 => p = "E1-3" /\ PauseSteps[i + 1] = "E1-4" /\ PauseCodes[i + 1] = Byte("NUM_LOCK")
      /\ i = 3 => p = "E1-4" /\ PauseSteps[i + 1] = "E1-5" /\ PauseCodes[i + 1] = Byte("E1")
      /\ i = 4 => p = "E1-5" /\ PauseSteps[i + 1] = "E1-6" /\ PauseCodes[i + 1] = Brk("CTRL_L")
      /\ i = 5 => p = "E1-6" /\ PauseCodes[i + 1] = Brk("NUM_LOCK")
  BY <1>2 DEF PauseSteps, PauseCodes
<1>4. i \in {1, 2, 3, 4, 5}
  OBVIOUS
<1>5. kbd.at = p /\ p \notin {"top", "E0", "idle"}
  BY <1>1, <1>2, <1>3, <1>4 DEF Takes
<1>6. KbPlace = p /\ mods \in AllMods
  BY <1>5 DEF KbPlace, KbInv, KbTyped, KbTypeOK, AllMods, Bits
<1> DEFINE next == IF i < 5 THEN PauseSteps[i + 1] ELSE "top"
<1>7. \A q : <<b, p, q>> \in Passes => b = PauseCodes[i + 1] /\ q = next
  <2>1. \A q : /\ <<b, "E1-2", q>> \in Passes => b = Byte("CTRL_L") /\ q = "E1-3"
               /\ <<b, "E1-3", q>> \in Passes => b = Byte("NUM_LOCK") /\ q = "E1-4"
               /\ <<b, "E1-4", q>> \in Passes => b = Byte("E1") /\ q = "E1-5"
               /\ <<b, "E1-5", q>> \in Passes => b = Brk("CTRL_L") /\ q = "E1-6"
               /\ <<b, "E1-6", q>> \in Passes => b = Brk("NUM_LOCK") /\ q = "top"
    BY DEF Passes
  <2>2. /\ i \in {1, 2, 3, 4} => next = PauseSteps[i + 1]
        /\ i = 5 => next = "top"
    OBVIOUS
  <2>. HIDE DEF next
  <2>. QED  BY <1>3, <1>4, <2>1, <2>2
<1>8. \A q, n, e : Reads(b, KbPlace, mods, due, q, n, e) => b = PauseCodes[i + 1] /\ q = next /\ n = mods /\ e = due
  <2>. HIDE DEF next
  <2>. TAKE q, n, e
  <2>. HAVE Reads(b, KbPlace, mods, due, q, n, e)
  <2>1. Reads(b, p, mods, due, q, n, e)
    BY <1>6
  <2>2. <<b, p, q>> \in Passes /\ n = mods /\ e = due
    BY <1>5, <2>1, InsideKey
  <2>. QED  BY <1>7, <2>2
<1>9. CASE b = PauseCodes[i + 1]
  <2>1. CASE i < 5
    <3>1. PICK q : q = next
      OBVIOUS
    <3>2. Goes(q) /\ q # "idle"
      BY <1>1, <1>3, <1>4, <1>9, <2>1, <3>1
    <3>3. Follows(b) /\ mods' \in AllMods
      BY <1>6, <1>8, <3>1, <3>2, KbGoesOn, PassFollows
    <3>. QED  BY <1>1, <3>3, TakesKeeps
  <2>2. CASE ~(i < 5)
    <3>1. FinishSpecial("PAUSEBREAK", kbd.make) /\ next = "top"
      BY <1>1, <1>9, <2>2
    <3>2. Follows(b) /\ mods' \in AllMods
      BY <1>6, <1>8, <3>1, Finished, PassFollows
    <3>. QED  BY <1>1, <3>2, TakesKeeps
  <2>. QED  BY <2>1, <2>2
<1>10. CASE b # PauseCodes[i + 1]
  <2>1. Decode(Brk("E1"), FALSE)
    BY <1>1, <1>10
  <2>2. \A q, n, e : ~Reads(b, KbPlace, mods, due, q, n, e)
    BY <1>8, <1>10
  <2>3. mods' \in AllMods /\ (~lost' => ~lost)
    BY <1>6, <2>1, ModsTyped DEF Decode, Swallow, Finish
  <2>4. Follows(b)
    BY <2>2, <2>3 DEF Follows
  <2>. QED  BY <1>1, <2>3, <2>4, TakesKeeps
<1>. QED  BY <1>9, <1>10

LEMMA ExtendedByteKeeps == KbInv /\ ExtendedByte => KbInv'
<1>. SUFFICES ASSUME KbInv, ExtendedByte  PROVE KbInv'
  OBVIOUS
<1>0. mods \in AllMods
  BY DEF KbInv, KbTyped, KbTypeOK, AllMods, Bits
<1>1. ASSUME NEW b, Takes("E0", b),
             IF b = Byte("SHIFT_L") THEN Goes("pressed")
             ELSE IF b = Brk("PAD_STAR") THEN Goes("released")
             ELSE Decode(b, TRUE)
      PROVE  KbInv'
  <2>1. KbPlace = "E0"
    BY <1>1 DEF Takes, KbPlace
  <2>2. CASE b \in {Byte("SHIFT_L"), Brk("PAD_STAR")}
    <3>1. ~Completes(b, "E0")
      BY <2>2 DEF Completes
    <3>2. PICK q : q = IF b = Byte("SHIFT_L") THEN "pressed" ELSE "released"
      OBVIOUS
    <3>3. Byte("SHIFT_L") # Brk("PAD_STAR")
      BY DEF Byte, Brk
    <3>4. \A r : <<b, "E0", r>> \in Passes => r = q
      <4>1. \A r : <<b, "E0", r>> \in Passes => \/ b = Byte("SHIFT_L") /\ r = "pressed"
                                                \/ b = Brk("PAD_STAR") /\ r = "released"
        BY DEF Passes
      <4>. QED  BY <3>2, <3>3, <4>1
    <3>5. Goes(q) /\ q # "idle"
      BY <1>1, <2>2, <3>2
    <3>6. \A r, n, e : Reads(b, KbPlace, mods, due, r, n, e) => r = q /\ n = mods /\ e = due
      BY <2>1, <3>1, <3>4 DEF Reads
    <3>7. Follows(b) /\ mods' \in AllMods
      BY <1>0, <3>5, <3>6, KbGoesOn, PassFollows
    <3>. QED  BY <1>1, <3>7, TakesKeeps
  <2>3. CASE b \notin {Byte("SHIFT_L"), Brk("PAD_STAR")}
    <3>1. Decode(b, TRUE) /\ Completes(b, KbPlace)
      BY <1>1, <2>1, <2>3 DEF Completes
    <3>. QED  BY <1>0, <1>1, <2>1, <3>1, DecodeFollows, TakesKeeps
  <2>. QED  BY <2>2, <2>3
<1>2. ASSUME NEW b, NEW loc \in {"pressed", "released"}, Takes(loc, b),
             IF b = E0 THEN Goes(AndE0[loc]) ELSE Decode(b, FALSE)
      PROVE  KbInv'
  <2>1. KbPlace = loc
    BY <1>2 DEF Takes, KbPlace
  <2>2. \A r, n, e : Reads(b, KbPlace, mods, due, r, n, e) => b = E0 /\ r = AndE0[loc] /\ n = mods /\ e = due
    <3>1. \A r : /\ <<b, "pressed", r>> \in Passes => b = Byte("E0") /\ r = "pressed E0"
                 /\ <<b, "released", r>> \in Passes => b = Byte("E0") /\ r = "released E0"
      BY DEF Passes
    <3>2. AndE0["pressed"] = "pressed E0" /\ AndE0["released"] = "released E0"
      BY DEF AndE0
    <3>. TAKE r, n, e
    <3>. HAVE Reads(b, KbPlace, mods, due, r, n, e)
    <3>3. Reads(b, loc, mods, due, r, n, e)
      BY <2>1
    <3>4. <<b, loc, r>> \in Passes /\ n = mods /\ e = due
      BY <1>2, <3>3, InsideKey
    <3>. QED  BY <3>1, <3>2, <3>4 DEF E0
  <2>3. CASE b = E0
    <3>1. PICK q : q = AndE0[loc]
      OBVIOUS
    <3>2. Goes(q) /\ q # "idle"
      <4>1. AndE0["pressed"] = "pressed E0" /\ AndE0["released"] = "released E0"
        BY DEF AndE0
      <4>. QED  BY <1>2, <2>3, <3>1, <4>1
    <3>3. Follows(b) /\ mods' \in AllMods
      BY <1>0, <2>2, <3>1, <3>2, KbGoesOn, PassFollows
    <3>. QED  BY <1>2, <3>3, TakesKeeps
  <2>4. CASE b # E0
    <3>1. Decode(b, FALSE)
      BY <1>2, <2>4
    <3>. QED  BY <1>0, <1>2, <2>2, <2>4, <3>1, NothingFollows, TakesKeeps
  <2>. QED  BY <2>3, <2>4
<1>3. ASSUME NEW b, Takes("pressed E0", b),
             IF b = Byte("PAD_STAR") THEN FinishSpecial("PRINTSCREEN", TRUE) ELSE Decode(b, TRUE)
      PROVE  KbInv'
  <2>1. KbPlace = "pressed E0"
    BY <1>3 DEF Takes, KbPlace
  <2>2. \A r, n, e : Reads(b, KbPlace, mods, due, r, n, e) => b = Byte("PAD_STAR") /\ r = "top" /\ n = mods /\ e = due
    <3>1. \A r : <<b, "pressed E0", r>> \in Passes => b = Byte("PAD_STAR") /\ r = "top"
      BY DEF Passes
    <3>. TAKE r, n, e
    <3>. HAVE Reads(b, KbPlace, mods, due, r, n, e)
    <3>2. PICK p : p = "pressed E0"
      OBVIOUS
    <3>3. Reads(b, p, mods, due, r, n, e)
      BY <2>1, <3>2
    <3>4. <<b, p, r>> \in Passes /\ n = mods /\ e = due
      <4>1. p \notin {"top", "E0"}
        BY <3>2
      <4>. QED  BY <3>3, <4>1, InsideKey
    <3>. QED  BY <3>1, <3>2, <3>4
  <2>3. CASE b = Byte("PAD_STAR")
    <3>1. FinishSpecial("PRINTSCREEN", TRUE)
      BY <1>3, <2>3
    <3>2. KbPlace' = "top" /\ UNCHANGED <<mods, due, lost, wrong>>
      BY <3>1, Finished
    <3>3. \A r, n, e : Reads(b, KbPlace, mods, due, r, n, e) => r = "top" /\ n = mods /\ e = due
      BY <2>2
    <3>4. Follows(b) /\ mods' \in AllMods
      BY <1>0, <3>2, <3>3, PassFollows
    <3>. QED  BY <1>3, <3>4, TakesKeeps
  <2>4. CASE b # Byte("PAD_STAR")
    BY <1>0, <1>3, <2>2, <2>4, NothingFollows, TakesKeeps
  <2>. QED  BY <2>3, <2>4
<1>4. ASSUME NEW b, Takes("released E0", b),
             IF b = Brk("SHIFT_L") THEN FinishSpecial("PRINTSCREEN", FALSE) ELSE Decode(b, TRUE)
      PROVE  KbInv'
  <2>1. KbPlace = "released E0"
    BY <1>4 DEF Takes, KbPlace
  <2>2. \A r, n, e : Reads(b, KbPlace, mods, due, r, n, e) => b = Brk("SHIFT_L") /\ r = "top" /\ n = mods /\ e = due
    <3>1. \A r : <<b, "released E0", r>> \in Passes => b = Brk("SHIFT_L") /\ r = "top"
      BY DEF Passes
    <3>. TAKE r, n, e
    <3>. HAVE Reads(b, KbPlace, mods, due, r, n, e)
    <3>2. PICK p : p = "released E0"
      OBVIOUS
    <3>3. Reads(b, p, mods, due, r, n, e)
      BY <2>1, <3>2
    <3>4. <<b, p, r>> \in Passes /\ n = mods /\ e = due
      <4>1. p \notin {"top", "E0"}
        BY <3>2
      <4>. QED  BY <3>3, <4>1, InsideKey
    <3>. QED  BY <3>1, <3>2, <3>4
  <2>3. CASE b = Brk("SHIFT_L")
    <3>1. FinishSpecial("PRINTSCREEN", FALSE)
      BY <1>4, <2>3
    <3>2. KbPlace' = "top" /\ UNCHANGED <<mods, due, lost, wrong>>
      BY <3>1, Finished
    <3>3. \A r, n, e : Reads(b, KbPlace, mods, due, r, n, e) => r = "top" /\ n = mods /\ e = due
      BY <2>2
    <3>4. Follows(b) /\ mods' \in AllMods
      BY <1>0, <3>2, <3>3, PassFollows
    <3>. QED  BY <1>4, <3>4, TakesKeeps
  <2>4. CASE b # Brk("SHIFT_L")
    BY <1>0, <1>4, <2>2, <2>4, NothingFollows, TakesKeeps
  <2>. QED  BY <2>3, <2>4
<1>. QED  BY <1>1, <1>2, <1>3, <1>4 DEF ExtendedByte

\* Whatever keys go down and up, however their bytes and keyboard_read interleave
\* and whatever the uninitialised make was: as long as no byte was lost, the
\* terminal gets what was typed, and no modifier is stuck in the end.
THEOREM KeyboardAlwaysSound == KbSpec => []KeyboardSound
<1>1. KbInit => KbInv
  BY KbInitial
<1>2. KbInv /\ [KbNext]_kbVars => KbInv'
  <2>. SUFFICES ASSUME KbInv, [KbNext]_kbVars  PROVE KbInv'
    OBVIOUS
  <2>1. CASE \E key \in KbKeys : KeyEvent(key)
    BY <2>1, KeyEventKeeps
  <2>2. CASE UNCHANGED kbVars
    <3>1. KbTyped' /\ UserMods' = UserMods /\ KbPlace' = KbPlace
      BY <2>2 DEF kbVars, KbInv, KbTyped, KbTypeOK, UserMods, KbPlace
    <3>. QED  BY <2>2, <3>1 DEF kbVars, KbInv
  <2>. QED  BY <2>1, <2>2, InterruptKeeps, BeginsEndsKeep, FirstByteKeeps, PauseByteKeeps, ExtendedByteKeeps
            DEF KbNext
<1>. QED  BY <1>1, <1>2, KbInvSound, PTL DEF KbSpec

-----------------------------------------------------------------------------
(* The screen                                                              *)

\* Where lines begin.
OnLine(p) == \E r \in Nat : p = SCR_WIDTH * r

LEMMA LineNumbers ==
    /\ SCR_WIDTH \in Nat \ {0} /\ SCR_SIZE \in Nat /\ con_size \in Nat
    /\ SCR_WIDTH <= SCR_SIZE /\ SCR_SIZE <= con_size
    /\ OnLine(0) /\ OnLine(SCR_WIDTH) /\ OnLine(SCR_SIZE) /\ OnLine(con_size)
<1>1. SCR_WIDTH \in Nat \ {0} /\ ScrLines \in Nat \ {0} /\ ConLines \in Nat \ {0} /\ ScrLines <= ConLines
  BY ScreenAssumption
<1>2. ASSUME NEW w \in Nat \ {0}, NEW a \in Nat \ {0}, NEW b \in Nat \ {0}, a <= b
      PROVE  w * a \in Nat /\ w <= w * a /\ w * a <= w * b
  <2>1. PICK c \in Nat, d \in Nat : a = c + 1 /\ b = a + d
    <3>1. a - 1 \in Nat /\ b - a \in Nat /\ a = (a - 1) + 1 /\ b = a + (b - a)
      BY <1>2
    <3>. QED  BY <3>1
  <2>2. w * a = w * c + w /\ w * b = w * a + w * d /\ w * c \in Nat /\ w * d \in Nat
    BY <2>1
  <2>. QED  BY <2>2
<1>3. SCR_SIZE \in Nat /\ SCR_WIDTH <= SCR_SIZE /\ SCR_SIZE <= con_size /\ con_size \in Nat
  BY <1>1, <1>2 DEF SCR_SIZE, con_size
<1>4. 0 = SCR_WIDTH * 0 /\ SCR_WIDTH = SCR_WIDTH * 1
  BY <1>1
<1>. QED  BY <1>1, <1>3, <1>4 DEF OnLine, SCR_SIZE, con_size

LEMMA LinesApart ==
    ASSUME NEW p, NEW q, OnLine(p), OnLine(q), p < q
    PROVE  p + SCR_WIDTH <= q
<1>1. PICK r \in Nat, s \in Nat : p = SCR_WIDTH * r /\ q = SCR_WIDTH * s
  BY DEF OnLine
<1>2. PICK w \in Nat \ {0} : w = SCR_WIDTH
  BY LineNumbers
<1>3. ~(s <= r)
  <2>. SUFFICES ASSUME s <= r  PROVE FALSE
    OBVIOUS
  <2>1. PICK d \in Nat : r = s + d
    <3>1. r - s \in Nat /\ r = s + (r - s)
      OBVIOUS
    <3>. QED  BY <3>1
  <2>2. w * r = w * s + w * d /\ w * d \in Nat /\ w * s \in Nat
    BY <2>1
  <2>. QED  BY <1>1, <1>2, <2>2
<1>4. PICK d \in Nat : s = r + 1 + d
  <2>1. s - r - 1 \in Nat /\ s = r + 1 + (s - r - 1)
    BY <1>3
  <2>. QED  BY <2>1
<1>5. w * s = w * r + w + w * d /\ w * d \in Nat /\ w * r \in Nat
  BY <1>4
<1>. QED  BY <1>1, <1>2, <1>5

LEMMA LineNext ==
    ASSUME NEW p, OnLine(p)
    PROVE  /\ p \in Nat /\ p % SCR_WIDTH = 0 /\ OnLine(p + SCR_WIDTH)
           /\ p > 0 => p >= SCR_WIDTH /\ OnLine(p - SCR_WIDTH)
           /\ \A c \in 0..SCR_WIDTH - 1 : LineOf(p + c) = p /\ (p + c) % SCR_WIDTH = c
<1>1. PICK r \in Nat : p = SCR_WIDTH * r
  BY DEF OnLine
<1>2. PICK w \in Nat \ {0} : w = SCR_WIDTH
  BY LineNumbers
<1>3. \A c \in 0..w - 1 : (w * r + c) \div w = r /\ (w * r + c) % w = c
  BY Place
<1>4. w * r \in Nat /\ w * r + w = w * (r + 1) /\ r + 1 \in Nat /\ r * w = w * r
  OBVIOUS
<1>5. \A c \in 0..w - 1 : LineOf(p + c) = p /\ (p + c) % SCR_WIDTH = c
  BY <1>1, <1>2, <1>3, <1>4 DEF LineOf
<1>6. p % SCR_WIDTH = 0
  BY <1>1, <1>2, <1>4, <1>5
<1>7. p > 0 => p >= SCR_WIDTH /\ OnLine(p - SCR_WIDTH)
  <2>. SUFFICES ASSUME p > 0  PROVE p >= SCR_WIDTH /\ OnLine(p - SCR_WIDTH)
    OBVIOUS
  <2>1. r # 0
    <3>1. w * 0 = 0
      OBVIOUS
    <3>. QED  BY <1>1, <1>2, <3>1
  <2>2. PICK s \in Nat : r = s + 1
    <3>1. r - 1 \in Nat /\ r = (r - 1) + 1
      BY <2>1
    <3>. QED  BY <3>1
  <2>3. w * r = w * s + w /\ w * s \in Nat
    BY <2>2
  <2>. QED  BY <1>1, <1>2, <2>3 DEF OnLine
<1>. QED  BY <1>1, <1>2, <1>4, <1>5, <1>6, <1>7 DEF OnLine

LEMMA LinesTogether ==
    ASSUME NEW p, NEW q, OnLine(p), OnLine(q)
    PROVE  OnLine(p + q)
<1>1. PICK r \in Nat, s \in Nat : p = SCR_WIDTH * r /\ q = SCR_WIDTH * s
  BY DEF OnLine
<1>2. PICK w \in Nat \ {0} : w = SCR_WIDTH
  BY LineNumbers
<1>3. w * (r + s) = w * r + w * s /\ r + s \in Nat
  OBVIOUS
<1>. QED  BY <1>1, <1>2, <1>3 DEF OnLine

LEMMA LineIs ==
    ASSUME NEW n \in Nat
    PROVE  OnLine(LineOf(n)) /\ n % SCR_WIDTH \in 0..SCR_WIDTH - 1 /\ n = LineOf(n) + (n % SCR_WIDTH)
<1>1. PICK w \in Nat \ {0} : w = SCR_WIDTH
  BY LineNumbers
<1> DEFINE q == n \div w
           r == n % w
<1>2. q \in Nat /\ r \in 0..w - 1 /\ n = w * q + r
  BY Division
<1>3. LineOf(n) = w * q
  <2>1. LineOf(n) = q * w
    BY <1>1 DEF LineOf
  <2>2. q * w = w * q
    BY <1>2
  <2>. QED  BY <2>1, <2>2
<1>. QED  BY <1>1, <1>2, <1>3 DEF OnLine

-----------------------------------------------------------------------------
\* The window of c is in the console, on whole lines; so is the cursor.
InWindow(c) ==
    /\ c = [cursor |-> c.cursor, crtc_start |-> c.crtc_start, is_full |-> c.is_full]
    /\ c.cursor \in 0..con_size - 1
    /\ OnLine(c.crtc_start) /\ c.crtc_start <= con_size - SCR_SIZE

\* The user's scrolling stays in the console.
LEMMA ScrollsInWindow ==
    ASSUME NEW c, InWindow(c)
    PROVE  /\ InWindow(ScrollUp(c)) /\ ScrollUp(c).cursor = c.cursor
           /\ InWindow(ScrollDown(c)) /\ ScrollDown(c).cursor = c.cursor
<1>1. PICK top : top = c.crtc_start
  OBVIOUS
<1>2. PICK size, all : size = SCR_SIZE /\ all = con_size
  OBVIOUS
<1>3. /\ size \in Nat /\ all \in Nat /\ SCR_WIDTH \in Nat \ {0} /\ SCR_WIDTH <= size /\ size <= all
      /\ OnLine(0) /\ OnLine(size) /\ OnLine(all)
  BY <1>2, LineNumbers
<1>4. OnLine(top) /\ top \in Nat /\ top <= all - size /\ c.cursor \in 0..all - 1
  BY <1>1, <1>2, LineNext DEF InWindow
<1>5. /\ OnLine(top + SCR_WIDTH) /\ (top > 0 => top >= SCR_WIDTH /\ OnLine(top - SCR_WIDTH))
  BY <1>4, LineNext
<1>6. OnLine(newest(c)) /\ newest(c) \in Nat /\ newest(c) <= c.cursor
  <2>1. PICK n \in Nat : n = c.cursor
    BY <1>3, <1>4
  <2>2. OnLine(LineOf(n)) /\ n % SCR_WIDTH \in Nat /\ n = LineOf(n) + (n % SCR_WIDTH)
    BY <1>3, <2>1, LineIs
  <2>3. LineOf(n) \in Nat
    BY <2>2, LineNext
  <2>. QED  BY <2>1, <2>2, <2>3 DEF newest
<1>7. OnLine(top + size) /\ OnLine(all - size)
  <2>1. PICK a \in Nat, b \in Nat : top = SCR_WIDTH * a /\ size = SCR_WIDTH * b
    BY <1>3, <1>4 DEF OnLine
  <2>2. PICK w \in Nat \ {0} : w = SCR_WIDTH
    BY <1>3
  <2>3. w * (a + b) = w * a + w * b /\ a + b \in Nat
    OBVIOUS
  <2>4. all - size = w * (ConLines - ScrLines) /\ ConLines - ScrLines \in Nat
    <3>1. PICK x \in Nat, y \in Nat : x = ConLines /\ y = ScrLines /\ y <= x
      BY ScreenAssumption
    <3>2. w * x - w * y = w * (x - y) /\ x - y \in Nat
      BY <3>1
    <3>. QED  BY <1>2, <2>2, <3>1, <3>2 DEF con_size, SCR_SIZE
  <2>. QED  BY <2>1, <2>2, <2>3, <2>4 DEF OnLine
<1>8. ASSUME NEW t, t = top \/ t = 0 \/ t = all - size \/ (top > 0 /\ t = top - SCR_WIDTH)
                    \/ (top < all - size /\ t = top + SCR_WIDTH)
      PROVE  OnLine(t) /\ t <= all - size
  <2>1. CASE top < all - size /\ t = top + SCR_WIDTH
    BY <1>4, <1>5, <1>7, <2>1, LinesApart
  <2>2. CASE top > 0 /\ t = top - SCR_WIDTH
    BY <1>3, <1>4, <1>5, <2>2
  <2>. QED  BY <1>3, <1>4, <1>7, <1>8, <2>1, <2>2
<1>9. ASSUME NEW t, OnLine(t) /\ t <= all - size
      PROVE  InWindow([c EXCEPT !.crtc_start = t]) /\ [c EXCEPT !.crtc_start = t].cursor = c.cursor
  BY <1>2, <1>9 DEF InWindow
<1>10. InWindow(ScrollUp(c)) /\ ScrollUp(c).cursor = c.cursor
  <2>1. CASE ~c.is_full /\ newest(c) >= top + size
    <3>1. ScrollUp(c) = [c EXCEPT !.crtc_start = top + SCR_WIDTH]
      BY <1>1, <1>2, <2>1 DEF ScrollUp
    <3>2. top < all - size
      BY <1>3, <1>4, <1>6, <2>1
    <3>. QED  BY <1>8, <1>9, <3>1, <3>2
  <2>2. CASE c.is_full /\ top + SCR_SIZE - SCR_WIDTH # newest(c)
    <3>1. ScrollUp(c) = IF top + size = all THEN [c EXCEPT !.crtc_start = 0]
                        ELSE [c EXCEPT !.crtc_start = top + SCR_WIDTH]
      BY <1>1, <1>2, <2>2 DEF ScrollUp
    <3>2. top + size # all => top < all - size
      BY <1>3, <1>4
    <3>. QED  BY <1>8, <1>9, <3>1, <3>2
  <2>3. CASE ~(~c.is_full /\ newest(c) >= top + size) /\ ~(c.is_full /\ top + SCR_SIZE - SCR_WIDTH # newest(c))
    <3>1. ScrollUp(c) = c
      BY <1>1, <1>2, <2>3 DEF ScrollUp
    <3>. QED  BY <3>1
  <2>. QED  BY <2>1, <2>2, <2>3
<1>11. InWindow(ScrollDown(c)) /\ ScrollDown(c).cursor = c.cursor
  <2>1. CASE ~c.is_full /\ top > 0
    <3>1. ScrollDown(c) = [c EXCEPT !.crtc_start = top - SCR_WIDTH]
      BY <1>1, <2>1 DEF ScrollDown
    <3>. QED  BY <1>8, <1>9, <2>1, <3>1
  <2>2. CASE c.is_full /\ top # oldest(c)
    <3>1. ScrollDown(c) = IF c.cursor >= all - size
                          THEN IF top # 0 THEN [c EXCEPT !.crtc_start = top - SCR_WIDTH] ELSE c
                          ELSE IF top = 0 THEN [c EXCEPT !.crtc_start = all - size]
                          ELSE [c EXCEPT !.crtc_start = top - SCR_WIDTH]
      BY <1>1, <1>2, <2>2 DEF ScrollDown
    <3>2. top # 0 => top > 0
      BY <1>4
    <3>. QED  BY <1>8, <1>9, <3>1, <3>2
  <2>3. CASE ~(~c.is_full /\ top > 0) /\ ~(c.is_full /\ top # oldest(c))
    <3>1. ScrollDown(c) = c
      BY <1>1, <2>3 DEF ScrollDown
    <3>. QED  BY <3>1
  <2>. QED  BY <2>1, <2>2, <2>3
<1>. QED  BY <1>10, <1>11

\* The windows that out_char scrolls through: there are such, and all are in the
\* console.
Through(w, c, n) == w = [k \in 0..n |-> IF k = 0 THEN c ELSE ScrollUp(w[k - 1])]

LEMMA WindowsExist ==
    ASSUME NEW c
    PROVE  Through(Windows(c), c, ConLines)
<1> DEFINE Has(n) == \E w : Through(w, c, n)
           Bad == {n \in 0..ConLines : ~Has(n)}
<1>1. ConLines \in Nat
  BY ScreenAssumption
<1>2. Has(0)
  <2>1. Through([k \in 0..0 |-> c], c, 0)
    BY DEF Through
  <2>. QED  BY <2>1
<1>3. ASSUME NEW n \in Nat, n # 0, Has(n - 1)  PROVE Has(n)
  <2>1. PICK w : w = [k \in 0..n - 1 |-> IF k = 0 THEN c ELSE ScrollUp(w[k - 1])]
    BY <1>3 DEF Through
  <2> DEFINE new == ScrollUp(w[n - 1])
             u   == [k \in 0..n |-> IF k = n THEN new ELSE w[k]]
  <2>2. \A k \in 0..n : (k # 0 => k - 1 \in 0..n /\ k - 1 # n) /\ (k # n => k \in 0..n - 1)
    BY <1>3
  <2>3. \A k \in 0..n : (k = n => u[k] = new) /\ (k # n => u[k] = w[k])
    OBVIOUS
  <2>4. \A k \in 0..n - 1 : w[k] = IF k = 0 THEN c ELSE ScrollUp(w[k - 1])
    BY <2>1
  <2>5. \A k \in 0..n : (IF k = n THEN new ELSE w[k]) = IF k = 0 THEN c ELSE ScrollUp(u[k - 1])
    <3>. SUFFICES ASSUME NEW k \in 0..n
                  PROVE  (IF k = n THEN new ELSE w[k]) = IF k = 0 THEN c ELSE ScrollUp(u[k - 1])
      OBVIOUS
    <3>1. k # 0 => u[k - 1] = w[k - 1]
      BY <2>2, <2>3
    <3>. HIDE DEF u
    <3>. QED  BY <1>3, <2>2, <2>4, <3>1
  <2>6. u = [k \in 0..n |-> IF k = 0 THEN c ELSE ScrollUp(u[k - 1])]
    <3>1. u = [k \in 0..n |-> IF k = n THEN new ELSE w[k]]
      OBVIOUS
    <3>. HIDE DEF u, new
    <3>. QED  BY <2>5, <3>1
  <2>. QED  BY <2>6 DEF Through
<1>4. Bad = {}
  <2>. SUFFICES ASSUME Bad # {}  PROVE FALSE
    OBVIOUS
  <2>1. Bad \in SUBSET Nat
    OBVIOUS
  <2>2. PICK n \in Bad : \A m \in Bad : n <= m
    <3>. HIDE DEF Bad
    <3>. QED  BY <2>1, LeastOf
  <2>3. n \in 0..ConLines /\ n # 0 /\ ~Has(n)
    BY <1>2, <2>2
  <2>4. n \in Nat /\ n - 1 \in 0..ConLines /\ ~(n <= n - 1)
    BY <1>1, <2>3
  <2>5. n - 1 \notin Bad
    <3>. HIDE DEF Bad
    <3>. QED  BY <2>2, <2>4
  <2>6. Has(n - 1)
    <3>. HIDE DEF Has
    <3>. QED  BY <2>4, <2>5
  <2>7. Has(n)
    <3>. HIDE DEF Has
    <3>. QED  BY <1>3, <2>3, <2>4, <2>6
  <2>. QED  BY <2>3, <2>7
<1>5. Has(ConLines)
  <2>1. ConLines \in 0..ConLines
    BY <1>1
  <2>. HIDE DEF Has
  <2>. QED  BY <1>4, <2>1
<1>. QED  BY <1>5 DEF Windows, Through

LEMMA WindowsSound ==
    ASSUME NEW c, InWindow(c)
    PROVE  /\ Windows(c)[0] = c
           /\ \A k \in 0..ConLines : InWindow(Windows(c)[k]) /\ Windows(c)[k].cursor = c.cursor
<1> DEFINE w == Windows(c)
           Good(k) == InWindow(w[k]) /\ w[k].cursor = c.cursor
           Bad == {k \in 0..ConLines : ~Good(k)}
<1>1. ConLines \in Nat
  BY ScreenAssumption
<1>2. w = [k \in 0..ConLines |-> IF k = 0 THEN c ELSE ScrollUp(w[k - 1])]
  BY WindowsExist DEF Through
<1>. HIDE DEF w
<1>3. w[0] = c /\ \A k \in 0..ConLines : k # 0 => w[k] = ScrollUp(w[k - 1])
  BY <1>1, <1>2
<1>4. Bad = {}
  <2>. SUFFICES ASSUME Bad # {}  PROVE FALSE
    OBVIOUS
  <2>1. Bad \in SUBSET Nat
    OBVIOUS
  <2>2. PICK n \in Bad : \A m \in Bad : n <= m
    <3>. HIDE DEF Bad
    <3>. QED  BY <2>1, LeastOf
  <2>3. n \in 0..ConLines /\ n # 0 /\ ~Good(n)
    BY <1>3, <2>2
  <2>4. n - 1 \in 0..ConLines /\ ~(n <= n - 1)
    BY <1>1, <2>3
  <2>5. n - 1 \notin Bad
    <3>. HIDE DEF Bad
    <3>. QED  BY <2>2, <2>4
  <2>6. Good(n - 1)
    <3>. HIDE DEF Good
    <3>. QED  BY <2>4, <2>5
  <2>7. Good(n)
    BY <1>3, <2>3, <2>6, ScrollsInWindow
  <2>. QED  BY <2>3, <2>7
<1>. QED  BY <1>3, <1>4 DEF w

-----------------------------------------------------------------------------
\* The text t, whose last line has the cursor n, is in the memory m as far as the
\* console has its lines.
From(t, i) == t[Len(t) - i]
TextAt(m, l, t) ==
    /\ t \in Seq(Seq(ScrChars)) /\ Len(t) > 0
    /\ \A i \in 0..Len(t) - 1 : Len(From(t, i)) <= SCR_WIDTH
    /\ \A i \in 0..Len(t) - 1 : l - i * SCR_WIDTH >= 0 =>
          \A x \in 1..Len(From(t, i)) : m[l - i * SCR_WIDTH + x - 1] = From(t, i)[x]
TextIn(m, n, t) == TextAt(m, LineOf(n), t) /\ Len(From(t, 0)) = n % SCR_WIDTH

\* As many characters can be taken back as follow one another to the cursor.
BackIn(b, t) ==
    \A i \in Nat : b > Len(From(t, 0)) + i * SCR_WIDTH =>
        i + 1 < Len(t) /\ Len(From(t, i + 1)) = SCR_WIDTH

ScrInv ==
    /\ InWindow(con)
    /\ vmem = [w \in Words |-> vmem[w]]
    /\ shown => crt = <<con.cursor, con.crtc_start>>
    /\ back \in 0..MaxBack
    /\ TextIn(vmem, con.cursor, text)
    /\ BackIn(back, text)
    /\ ~scrolled => Visible(con)

LEMMA ScrSoundIs == ScrInv => ScreenSound
<1>. SUFFICES ASSUME ScrInv  PROVE ScreenSound
  OBVIOUS
<1>1. con.crtc_start \in Nat /\ con.crtc_start % SCR_WIDTH = 0
  BY LineNext DEF ScrInv, InWindow
<1>2. WindowInConsole
  <2>1. SCR_SIZE \in Nat /\ con_size \in Nat
    BY LineNumbers
  <2>. QED  BY <1>1, <2>1 DEF ScrInv, InWindow, WindowInConsole
<1>3. \A i \in 0..Len(text) - 1 : LineBack(i) >= con.crtc_start =>
         \A x \in 1..Len(text[Len(text) - i]) :
             vmem[LineBack(i) + x - 1] = text[Len(text) - i][x]
  <2>. TAKE i \in 0..Len(text) - 1
  <2>. HAVE LineBack(i) >= con.crtc_start
  <2>1. PICK p : p = LineBack(i)
    OBVIOUS
  <2>2. p = LineOf(con.cursor) - i * SCR_WIDTH
    BY <2>1 DEF LineBack, newest
  <2>3. p \in Int
    <3>1. LineOf(con.cursor) \in Nat
      <4>1. con.cursor \in Nat
        BY LineNumbers DEF ScrInv, InWindow
      <4>. QED  BY <4>1, LineIs, LineNext
    <3>2. i * SCR_WIDTH \in Int
      <4>1. Len(text) \in Nat /\ SCR_WIDTH \in Nat
        BY LineNumbers DEF ScrInv, TextIn, TextAt
      <4>. QED  BY <4>1
    <3>. QED  BY <2>2, <3>1, <3>2
  <2>4. p >= 0
    BY <1>1, <2>1, <2>3
  <2>5. \A x \in 1..Len(From(text, i)) : vmem[p + x - 1] = From(text, i)[x]
    BY <2>2, <2>4 DEF ScrInv, TextIn, TextAt
  <2>. QED  BY <2>1, <2>5 DEF From
<1>. QED  BY <1>2, <1>3 DEF ScreenSound, TextShown, ScrInv

\* The words of the text are before the cursor.
LEMMA TextBefore ==
    ASSUME NEW m, NEW n \in Nat, NEW t, TextIn(m, n, t), NEW i \in 0..Len(t) - 1,
           LineOf(n) - i * SCR_WIDTH >= 0, NEW x \in 1..Len(From(t, i))
    PROVE  LineOf(n) - i * SCR_WIDTH + x - 1 \in 0..n - 1
<1>1. PICK w, l, k : w = SCR_WIDTH /\ l = LineOf(n) /\ k = Len(From(t, i))
  OBVIOUS
<1>2. Len(t) \in Nat /\ From(t, i) \in Seq(ScrChars) /\ From(t, 0) \in Seq(ScrChars)
  BY DEF TextIn, TextAt, From
<1>3. w \in Nat \ {0} /\ l \in Nat /\ n = l + (n % w) /\ n % w \in Nat /\ k \in Nat /\ x \in 1..k /\ x \in Nat
  <2>1. w \in Nat \ {0}
    BY <1>1, LineNumbers
  <2>2. OnLine(LineOf(n)) /\ n = LineOf(n) + (n % SCR_WIDTH) /\ n % SCR_WIDTH \in Nat
    <3>1. n % SCR_WIDTH \in 0..SCR_WIDTH - 1
      BY LineIs
    <3>. QED  BY <2>1, <1>1, <3>1, LineIs
  <2>3. l \in Nat
    BY <1>1, <2>2, LineNext
  <2>4. k \in Nat
    BY <1>1, <1>2
  <2>5. x \in 1..k
    BY <1>1
  <2>. QED  BY <1>1, <2>1, <2>2, <2>3, <2>4, <2>5
<1>4. CASE i = 0
  <2>1. k = n % w
    BY <1>1, <1>4 DEF TextIn, TextAt
  <2>2. i * w = 0
    BY <1>3, <1>4
  <2>. QED  BY <1>1, <1>3, <2>1, <2>2
<1>5. CASE i # 0
  <2>1. PICK j \in Nat : i = j + 1
    <3>1. i - 1 \in Nat /\ i = (i - 1) + 1
      BY <1>2, <1>5
    <3>. QED  BY <3>1
  <2>2. i * w = j * w + w /\ j * w \in Nat
    BY <1>3, <2>1
  <2>3. k <= w
    BY <1>1 DEF TextIn, TextAt
  <2>4. PICK z : z = i * SCR_WIDTH
    OBVIOUS
  <2>5. z \in Nat /\ w <= z /\ l - z >= 0
    BY <1>1, <1>3, <2>2, <2>4
  <2>6. l - z + x - 1 \in 0..n - 1
    BY <1>3, <2>3, <2>5
  <2>. QED  BY <1>1, <2>4, <2>6
<1>. QED  BY <1>4, <1>5

LEMMA TextStays ==
    ASSUME NEW m, NEW n \in Nat, NEW t, TextIn(m, n, t), NEW o, \A p \in 0..n - 1 : o[p] = m[p]
    PROVE  TextIn(o, n, t)
<1>1. \A i \in 0..Len(t) - 1 : LineOf(n) - i * SCR_WIDTH >= 0 =>
          \A x \in 1..Len(From(t, i)) : o[LineOf(n) - i * SCR_WIDTH + x - 1] = From(t, i)[x]
  <2>. SUFFICES ASSUME NEW i \in 0..Len(t) - 1, LineOf(n) - i * SCR_WIDTH >= 0,
                       NEW x \in 1..Len(From(t, i))
                PROVE  o[LineOf(n) - i * SCR_WIDTH + x - 1] = From(t, i)[x]
    OBVIOUS
  <2>1. PICK p : p = LineOf(n) - i * SCR_WIDTH + x - 1
    OBVIOUS
  <2>2. p \in 0..n - 1
    BY <2>1, TextBefore
  <2>3. m[p] = From(t, i)[x]
    BY <2>1 DEF TextIn, TextAt
  <2>. QED  BY <2>1, <2>2, <2>3
<1>. QED  BY <1>1 DEF TextIn, TextAt

\* What the console that starts again keeps is the text that is in sight.
LEMMA TextCopied ==
    ASSUME NEW c, c.cursor = con_size, NEW m, NEW t, TextIn(m, con_size, t)
    PROVE  /\ Restarted(c).cursor = SCR_SIZE - SCR_WIDTH
           /\ TextIn(Copied(c, m), SCR_SIZE - SCR_WIDTH, t)
<1>1. PICK w, size, all, n : w = SCR_WIDTH /\ size = SCR_SIZE /\ all = con_size /\ n = size - w
  OBVIOUS
<1>2. /\ size \in Nat /\ all \in Nat /\ w \in Nat \ {0} /\ w <= size /\ size <= all /\ n \in Nat /\ n < all
      /\ OnLine(size) /\ OnLine(all)
  BY <1>1, LineNumbers
<1>3. LineOf(all) = all /\ all % SCR_WIDTH = 0
  <2>1. 0 \in 0..SCR_WIDTH - 1 /\ all + 0 = all
    BY <1>1, <1>2
  <2>. QED  BY <1>2, <2>1, LineNext
<1>4. LineOf(n) = n /\ n % SCR_WIDTH = 0
  <2>1. OnLine(n)
    <3>1. size > 0
      BY <1>2
    <3>. QED  BY <1>1, <1>2, <3>1, LineNext
  <2>2. 0 \in 0..SCR_WIDTH - 1 /\ n + 0 = n
    BY <1>1, <1>2
  <2>. QED  BY <2>1, <2>2, LineNext
<1>5. Restarted(c).cursor = n
  BY <1>1, <1>2, <1>3 DEF Restarted
<1>6. \A p \in 0..n - 1 : Copied(c, m)[p] = m[all + w - size + p]
  <2>. SUFFICES ASSUME NEW p \in 0..n - 1  PROVE Copied(c, m)[p] = m[all + w - size + p]
    OBVIOUS
  <2>1. p \in Words /\ p < Kept /\ p \notin n..n + SCR_WIDTH - 1
    BY <1>1, <1>2 DEF Words, Kept
  <2>2. newest(c) + SCR_WIDTH - SCR_SIZE + p = all + w - size + p
    BY <1>1, <1>3 DEF newest
  <2>. QED  BY <1>5, <2>1, <2>2 DEF Copied, clear_screen
<1>7. ASSUME NEW i \in 0..Len(t) - 1, LineOf(n) - i * SCR_WIDTH >= 0, NEW x \in 1..Len(From(t, i))
      PROVE  Copied(c, m)[LineOf(n) - i * SCR_WIDTH + x - 1] = From(t, i)[x]
  <2>1. Len(t) \in Nat /\ i \in Nat /\ Len(From(t, i)) \in Nat /\ x \in Nat
    BY DEF TextIn, TextAt, From
  <2>2. PICK z : z = i * SCR_WIDTH
    OBVIOUS
  <2>3. z \in Nat
    BY <1>1, <1>2, <2>1, <2>2
  <2>4. all - z >= 0 /\ n - z >= 0
    BY <1>1, <1>2, <1>4, <1>7, <2>2, <2>3
  <2>5. all - z + x - 1 \in 0..all - 1
    BY <1>1, <1>2, <1>3, <2>2, <2>4, TextBefore
  <2>6. m[all - z + x - 1] = From(t, i)[x]
    <3>1. LineOf(con_size) - i * SCR_WIDTH = all - z
      BY <1>1, <1>3, <2>2
    <3>2. LineOf(con_size) - i * SCR_WIDTH >= 0
      BY <2>4, <3>1
    <3>3. m[LineOf(con_size) - i * SCR_WIDTH + x - 1] = From(t, i)[x]
      BY <3>2 DEF TextIn, TextAt
    <3>. QED  BY <3>1, <3>3
  <2>7. n - z + x - 1 \in 0..n - 1
    <3>1. x - 1 < z
      BY <1>2, <2>1, <2>3, <2>5
    <3>. QED  BY <1>2, <2>1, <2>3, <2>4, <3>1
  <2>8. all + w - size + (n - z + x - 1) = all - z + x - 1
    BY <1>1, <1>2, <2>1, <2>3
  <2>9. Copied(c, m)[n - z + x - 1] = m[all - z + x - 1]
    <3>1. PICK p : p = n - z + x - 1
      OBVIOUS
    <3>2. p \in 0..n - 1 /\ all + w - size + p = all - z + x - 1
      BY <2>7, <2>8, <3>1
    <3>. QED  BY <1>6, <3>1, <3>2
  <2>. QED  BY <1>4, <2>2, <2>6, <2>9
<1>8. Len(From(t, 0)) = n % SCR_WIDTH
  BY <1>1, <1>3, <1>4 DEF TextIn, TextAt
<1>9. TextIn(Copied(c, m), n, t)
  BY <1>7, <1>8 DEF TextIn, TextAt
<1>. QED  BY <1>1, <1>5, <1>9

\* Settle leaves the text in memory and the cursor in sight.
LEMMA SettleKeeps ==
    ASSUME NEW c, c = [cursor |-> c.cursor, crtc_start |-> c.crtc_start, is_full |-> c.is_full],
           c.cursor \in 0..con_size, OnLine(c.crtc_start), c.crtc_start <= con_size - SCR_SIZE,
           NEW m, m = [w \in Words |-> m[w]], NEW t, TextIn(m, c.cursor, t),
           Settle(c, m)
    PROVE  /\ InWindow(con') /\ Visible(con)' /\ TextIn(vmem', con'.cursor, t)
           /\ vmem' = [w \in Words |-> vmem'[w]]
           /\ shown' = shown /\ (shown => crt' = <<con'.cursor, con'.crtc_start>>)
<1>1. PICK d, o : /\ d = IF AtEnd(c.cursor) THEN Restarted(c) ELSE c
                  /\ o = IF AtEnd(c.cursor) THEN Copied(c, m) ELSE m
  OBVIOUS
<1>2. PICK k : k = Min(Rounds(d))
  OBVIOUS
<1>3. /\ Rounds(d) # {} /\ con' = Windows(d)[k]
      /\ vmem' = IF k = 0 THEN o ELSE clear_screen(o, d.cursor)
      /\ crt' = flush(con') /\ UNCHANGED shown
  BY <1>1, <1>2 DEF Settle
<1>4. k \in Rounds(d)
  <2>1. Rounds(d) \in SUBSET Nat
    <3>1. ConLines \in Nat
      BY ScreenAssumption
    <3>2. \A n \in Rounds(d) : n \in 0..ConLines
      BY Zenon DEF Rounds
    <3>. QED  BY <3>1, <3>2
  <2>2. \E n \in Rounds(d) : \A r \in Rounds(d) : n <= r
    BY <1>3, <2>1, LeastOf
  <2>. QED  BY <1>2, <2>2 DEF Min
<1>5. k \in 0..ConLines /\ Visible(Windows(d)[k])
  BY <1>4 DEF Rounds
<1>6. InWindow(d) /\ TextIn(o, d.cursor, t) /\ o = [w \in Words |-> o[w]]
  <2>1. /\ SCR_SIZE \in Nat /\ con_size \in Nat /\ SCR_WIDTH \in Nat \ {0}
        /\ SCR_WIDTH <= SCR_SIZE /\ SCR_SIZE <= con_size /\ OnLine(0)
    BY LineNumbers
  <2>2. CASE AtEnd(c.cursor)
    <3>1. c.cursor = con_size /\ d = Restarted(c) /\ o = Copied(c, m)
      BY <1>1, <2>1, <2>2 DEF AtEnd
    <3>2. d.cursor = SCR_SIZE - SCR_WIDTH /\ TextIn(o, SCR_SIZE - SCR_WIDTH, t)
      BY <3>1, TextCopied
    <3>3. d = [cursor |-> d.cursor, crtc_start |-> 0, is_full |-> TRUE]
      BY <3>1 DEF Restarted
    <3>4. InWindow(d)
      BY <2>1, <3>2, <3>3 DEF InWindow
    <3>5. o = [w \in Words |-> o[w]]
      BY <3>1 DEF Copied, clear_screen
    <3>. QED  BY <3>2, <3>4, <3>5
  <2>3. CASE ~AtEnd(c.cursor)
    <3>1. d = c /\ o = m /\ c.cursor \in 0..con_size - 1
      BY <1>1, <2>1, <2>3 DEF AtEnd
    <3>. QED  BY <3>1 DEF InWindow
  <2>. QED  BY <2>2, <2>3
<1>7. InWindow(con') /\ con'.cursor = d.cursor
  BY <1>3, <1>5, <1>6, WindowsSound
<1>8. Visible(con)'
  BY <1>3, <1>5 DEF Visible
<1>9. vmem' = [w \in Words |-> vmem'[w]]
  <2>1. clear_screen(o, d.cursor) = [w \in Words |-> clear_screen(o, d.cursor)[w]]
    BY DEF clear_screen
  <2>. QED  BY <1>3, <1>6, <2>1
<1>10. TextIn(vmem', d.cursor, t)
  <2>1. d.cursor \in Nat /\ \A p \in 0..d.cursor - 1 : p \in Words /\ p \notin d.cursor..d.cursor + SCR_WIDTH - 1
    <3>1. con_size \in Nat /\ SCR_WIDTH \in Nat
      BY LineNumbers
    <3>. QED  BY <1>6, <3>1 DEF InWindow, Words
  <2>2. \A p \in 0..d.cursor - 1 : clear_screen(o, d.cursor)[p] = o[p]
    BY <2>1 DEF clear_screen
  <2>3. PICK v, n : v = vmem' /\ n = d.cursor
    OBVIOUS
  <2>4. \A p \in 0..n - 1 : v[p] = o[p]
    BY <1>3, <2>2, <2>3
  <2>5. TextIn(v, n, t)
    BY <1>6, <2>1, <2>3, <2>4, TextStays
  <2>. QED  BY <2>3, <2>5
<1>11. shown => crt' = <<con'.cursor, con'.crtc_start>>
  BY <1>3 DEF flush
<1>. QED  BY <1>3, <1>7, <1>8, <1>9, <1>10, <1>11

\* Fewer lines: the oldest is forgotten.
LEMMA TextForgets ==
    ASSUME NEW m, NEW n, NEW t, TextIn(m, n, t)
    PROVE  /\ TextIn(m, n, LastLines(t))
           /\ \A b \in 0..MaxBack : BackIn(b, t) => BackIn(b, LastLines(t))
<1>1. ScrLines \in Nat \ {0} /\ t \in Seq(Seq(ScrChars)) /\ Len(t) \in Nat /\ Len(t) > 0
  <2>1. ScrLines \in Nat \ {0}
    BY ScreenAssumption
  <2>2. t \in Seq(Seq(ScrChars)) /\ Len(t) > 0
    BY DEF TextIn, TextAt
  <2>. QED  BY <2>1, <2>2
<1>2. CASE ~(Len(t) > ScrLines + 1)
  BY <1>2 DEF LastLines
<1>3. CASE Len(t) > ScrLines + 1
  <2>1. PICK u : u = Tail(t)
    OBVIOUS
  <2>2. LastLines(t) = u
    BY <1>3, <2>1 DEF LastLines
  <2>3. u \in Seq(Seq(ScrChars)) /\ Len(u) = Len(t) - 1 /\ Len(u) > 0
    BY <1>1, <1>3, <2>1
  <2>4. \A i \in 0..Len(u) - 1 : i \in 0..Len(t) - 1 /\ From(u, i) = From(t, i)
    <3>. TAKE i \in 0..Len(u) - 1
    <3>1. Len(u) - i \in 1..Len(u) /\ (Len(u) - i) + 1 = Len(t) - i
      BY <1>1, <2>3
    <3>2. u[Len(u) - i] = t[(Len(u) - i) + 1]
      BY <1>1, <2>1, <2>3, <3>1
    <3>. QED  BY <1>1, <2>3, <3>1, <3>2 DEF From
  <2>5. 0 \in 0..Len(u) - 1
    BY <1>1, <2>3
  <2>6. TextIn(m, n, u)
    BY <2>3, <2>4, <2>5 DEF TextIn, TextAt
  <2>7. ASSUME NEW b \in 0..MaxBack, BackIn(b, t)  PROVE BackIn(b, u)
    <3>. SUFFICES ASSUME NEW i \in Nat, b > Len(From(u, 0)) + i * SCR_WIDTH
                  PROVE  i + 1 < Len(u) /\ Len(From(u, i + 1)) = SCR_WIDTH
      BY DEF BackIn
    <3>1. i + 1 < Len(t) /\ Len(From(t, i + 1)) = SCR_WIDTH
      BY <2>4, <2>5, <2>7 DEF BackIn
    <3>2. i < ScrLines
      <4>. SUFFICES ASSUME i >= ScrLines  PROVE FALSE
        BY <1>1
      <4>1. PICK w \in Nat \ {0}, l \in Nat \ {0} : w = SCR_WIDTH /\ l = ScrLines
        BY ScreenAssumption
      <4>2. PICK e \in Nat : i = l + e
        <5>1. i - l \in Nat /\ i = l + (i - l)
          BY <4>1
        <5>. QED  BY <5>1
      <4>3. i * w = w * l + w * e /\ w * e \in Nat /\ w * l \in Nat
        BY <4>2
      <4>4. Len(From(u, 0)) \in Nat
        BY <2>3 DEF From
      <4>5. MaxBack \in Nat /\ MaxBack <= w * l
        BY <4>1, ScreenAssumption
      <4>. QED  BY <4>1, <4>3, <4>4, <4>5
    <3>3. i + 1 < Len(u)
      BY <1>1, <1>3, <2>3, <3>2
    <3>4. i + 1 \in 0..Len(u) - 1
      BY <2>3, <3>3
    <3>. QED  BY <2>4, <3>1, <3>3, <3>4
  <2>. QED  BY <2>2, <2>6, <2>7
<1>. QED  BY <1>2, <1>3

\* The last line changes, one more line begins, or the last one is taken away.
LEMMA LastLine ==
    ASSUME NEW t \in Seq(Seq(ScrChars)), Len(t) > 0, NEW line \in Seq(ScrChars)
    PROVE  /\ Append(Front(t), line) \in Seq(Seq(ScrChars)) /\ Len(Append(Front(t), line)) = Len(t)
           /\ From(Append(Front(t), line), 0) = line
           /\ \A i \in 1..Len(t) - 1 : From(Append(Front(t), line), i) = From(t, i)
<1>1. PICK f : f = Front(t)
  OBVIOUS
<1>2. f \in Seq(Seq(ScrChars)) /\ Len(f) = Len(t) - 1 /\ \A j \in 1..Len(t) - 1 : f[j] = t[j]
  <2>0. Len(t) \in Nat /\ Len(t) - 1 \in Nat
    OBVIOUS
  <2>1. PICK k \in Nat : k = Len(t) - 1
    BY <2>0
  <2>2. f = SubSeq(t, 1, k) /\ \A n \in 1..k : t[n] \in Seq(ScrChars)
    BY <1>1, <2>1 DEF Front
  <2>3. /\ f \in Seq(Seq(ScrChars)) /\ Len(f) = IF 1 <= k THEN k - 1 + 1 ELSE 0
        /\ \A n \in 1..k - 1 + 1 : f[n] = t[1 + n - 1]
    BY <2>2, SubSeqProperties
  <2>. QED  BY <2>0, <2>1, <2>3
<1>3. Append(f, line) \in Seq(Seq(ScrChars)) /\ Len(Append(f, line)) = Len(t) /\ Append(f, line)[Len(t)] = line
  BY <1>2
<1>4. \A j \in 1..Len(t) - 1 : Append(f, line)[j] = t[j]
  BY <1>2
<1>5. \A i \in 1..Len(t) - 1 : Len(t) - i \in 1..Len(t) - 1
  OBVIOUS
<1>6. PICK r : r = Append(f, line)
  OBVIOUS
<1>7. r[Len(r) - 0] = line
  BY <1>3, <1>6
<1>8. \A i \in 1..Len(t) - 1 : r[Len(r) - i] = t[Len(t) - i]
  BY <1>3, <1>4, <1>5, <1>6
<1>. QED  BY <1>1, <1>3, <1>6, <1>7, <1>8 DEF From

LEMMA NewLine ==
    ASSUME NEW t \in Seq(Seq(ScrChars))
    PROVE  /\ Append(t, <<>>) \in Seq(Seq(ScrChars)) /\ Len(Append(t, <<>>)) = Len(t) + 1
           /\ From(Append(t, <<>>), 0) = <<>>
           /\ \A i \in 0..Len(t) - 1 : From(Append(t, <<>>), i + 1) = From(t, i)
<1>1. <<>> \in Seq(ScrChars)
  OBVIOUS
<1>2. Append(t, <<>>) \in Seq(Seq(ScrChars)) /\ Len(Append(t, <<>>)) = Len(t) + 1 /\ Append(t, <<>>)[Len(t) + 1] = <<>>
  BY <1>1
<1>3. \A j \in 1..Len(t) : Append(t, <<>>)[j] = t[j]
  OBVIOUS
<1>4. \A i \in 0..Len(t) - 1 : Len(t) - i \in 1..Len(t) /\ (Len(t) + 1) - (i + 1) = Len(t) - i
  OBVIOUS
<1>. QED  BY <1>2, <1>3, <1>4 DEF From

LEMMA DropLine ==
    ASSUME NEW t \in Seq(Seq(ScrChars)), Len(t) > 1
    PROVE  /\ Front(t) \in Seq(Seq(ScrChars)) /\ Len(Front(t)) = Len(t) - 1
           /\ \A i \in 0..Len(t) - 2 : From(Front(t), i) = From(t, i + 1)
<1>1. PICK f : f = Front(t)
  OBVIOUS
<1>2. f \in Seq(Seq(ScrChars)) /\ Len(f) = Len(t) - 1 /\ \A j \in 1..Len(t) - 1 : f[j] = t[j]
  BY <1>1 DEF Front
<1>3. \A i \in 0..Len(t) - 2 : Len(t) - 1 - i \in 1..Len(t) - 1 /\ Len(t) - (i + 1) = Len(t) - 1 - i
  OBVIOUS
<1>. QED  BY <1>1, <1>2, <1>3 DEF From

LEMMA PutLine ==
    ASSUME NEW m, NEW l \in Nat, NEW t, TextAt(m, l, t), NEW line \in Seq(ScrChars), Len(line) <= SCR_WIDTH,
           NEW o, \A p \in 0..l - 1 : o[p] = m[p], \A x \in 1..Len(line) : o[l + x - 1] = line[x]
    PROVE  TextAt(o, l, Append(Front(t), line))
<1>1. PICK r : r = Append(Front(t), line)
  OBVIOUS
<1>2. t \in Seq(Seq(ScrChars)) /\ Len(t) > 0 /\ Len(t) \in Nat
  <2>1. t \in Seq(Seq(ScrChars)) /\ Len(t) > 0
    BY DEF TextAt
  <2>. QED  BY <2>1
<1>3. /\ r \in Seq(Seq(ScrChars)) /\ Len(r) = Len(t) /\ From(r, 0) = line
      /\ \A i \in 1..Len(t) - 1 : From(r, i) = From(t, i)
  BY <1>1, <1>2, LastLine
<1>r. \A i \in 0..Len(r) - 1 : i = 0 \/ (i \in 1..Len(t) - 1 /\ From(r, i) = From(t, i))
  <2>1. Len(r) = Len(t) /\ Len(t) \in Nat
    BY <1>2, <1>3
  <2>2. \A i \in 0..Len(r) - 1 : i = 0 \/ i \in 1..Len(t) - 1
    BY <2>1
  <2>. QED  BY <1>3, <2>2
<1>4. \A i \in 0..Len(r) - 1 : Len(From(r, i)) <= SCR_WIDTH
  <2>1. \A i \in 0..Len(r) - 1 : i = 0 \/ i \in 1..Len(t) - 1
    BY <1>r
  <2>2. \A i \in 1..Len(t) - 1 : Len(From(t, i)) <= SCR_WIDTH
    BY <1>2 DEF TextAt
  <2>. QED  BY <1>3, <2>1, <2>2
<1>5. ASSUME NEW i \in 0..Len(r) - 1, l - i * SCR_WIDTH >= 0, NEW x \in 1..Len(From(r, i))
      PROVE  o[l - i * SCR_WIDTH + x - 1] = From(r, i)[x]
  <2>1. SCR_WIDTH \in Nat \ {0} /\ i \in Nat
    BY <1>2, <1>3, LineNumbers
  <2>2. CASE i = 0
    <3>1. l - i * SCR_WIDTH + x - 1 = l + x - 1
      BY <2>1, <2>2
    <3>. QED  BY <1>3, <2>2, <3>1
  <2>3. CASE i # 0
    <3>1. i \in 1..Len(t) - 1 /\ From(r, i) = From(t, i)
      BY <1>r, <2>3
    <3>2. m[l - i * SCR_WIDTH + x - 1] = From(t, i)[x]
      BY <1>5, <3>1 DEF TextAt
    <3>3. l - i * SCR_WIDTH + x - 1 \in 0..l - 1
      <4>1. PICK z : z = i * SCR_WIDTH
        OBVIOUS
      <4>2. PICK j \in Nat : i = j + 1
        <5>1. i - 1 \in Nat /\ i = (i - 1) + 1
          BY <2>1, <2>3
        <5>. QED  BY <5>1
      <4>3. z \in Nat /\ SCR_WIDTH <= z
        <5>1. PICK w \in Nat \ {0} : w = SCR_WIDTH
          BY <2>1
        <5>2. i * w = j * w + w /\ j * w \in Nat
          BY <4>2
        <5>. QED  BY <4>1, <5>1, <5>2
      <4>4. Len(From(t, i)) \in Nat /\ Len(From(t, i)) <= SCR_WIDTH
        <5>1. From(t, i) \in Seq(ScrChars)
          BY <1>2, <3>1 DEF From
        <5>2. Len(From(t, i)) <= SCR_WIDTH
          BY <1>2, <3>1 DEF TextAt
        <5>. QED  BY <5>1, <5>2
      <4>5. x \in 1..Len(From(t, i))
        BY <3>1
      <4>6. l - z >= 0
        BY <1>5, <4>1
      <4>7. l - z + x - 1 \in 0..l - 1
        BY <2>1, <4>3, <4>4, <4>5, <4>6
      <4>. QED  BY <4>1, <4>7
    <3>. QED  BY <3>1, <3>2, <3>3
  <2>. QED  BY <2>2, <2>3
<1>6. Len(r) > 0
  BY <1>2, <1>3
<1>. QED  BY <1>1, <1>3, <1>4, <1>5, <1>6 DEF TextAt

LEMMA NextLine ==
    ASSUME NEW m, NEW l \in Nat, NEW t, TextAt(m, l, t)
    PROVE  TextAt(m, l + SCR_WIDTH, Append(t, <<>>))
<1>1. PICK r : r = Append(t, <<>>)
  OBVIOUS
<1>2. t \in Seq(Seq(ScrChars)) /\ Len(t) \in Nat
  <2>1. t \in Seq(Seq(ScrChars))
    BY DEF TextAt
  <2>. QED  BY <2>1
<1>3. /\ r \in Seq(Seq(ScrChars)) /\ Len(r) = Len(t) + 1 /\ From(r, 0) = <<>>
      /\ \A i \in 0..Len(t) - 1 : From(r, i + 1) = From(t, i)
  BY <1>1, <1>2, NewLine
<1>4. PICK w \in Nat \ {0} : w = SCR_WIDTH
  BY LineNumbers
<1>5. \A i \in 0..Len(r) - 1 : i = 0 \/ \E j \in 0..Len(t) - 1 : i = j + 1
  <2>1. \A i \in 0..Len(r) - 1 : i = 0 \/ (i - 1 \in 0..Len(t) - 1 /\ i = (i - 1) + 1)
    BY <1>2, <1>3
  <2>. QED  BY <2>1
<1>6. ASSUME NEW i \in 0..Len(r) - 1
      PROVE  /\ Len(From(r, i)) <= w
             /\ l + w - i * w >= 0 =>
                   \A x \in 1..Len(From(r, i)) : m[l + w - i * w + x - 1] = From(r, i)[x]
  <2>1. CASE i = 0
    <3>1. Len(From(r, i)) = 0
      BY <1>3, <2>1
    <3>. QED  BY <1>4, <3>1
  <2>2. CASE i # 0
    <3>1. PICK j \in 0..Len(t) - 1 : i = j + 1
      BY <1>5, <2>2
    <3>2. From(r, i) = From(t, j)
      BY <1>3, <3>1
    <3>3. l + w - i * w = l - j * w
      <4>1. j \in Nat /\ i * w = j * w + w /\ j * w \in Nat
        BY <1>2, <3>1
      <4>. QED  BY <4>1
    <3>. QED  BY <1>4, <3>2, <3>3 DEF TextAt
  <2>. QED  BY <2>1, <2>2
<1>7. Len(r) > 0
  BY <1>2, <1>3
<1>. QED  BY <1>1, <1>3, <1>4, <1>6, <1>7 DEF TextAt

LEMMA PrevLine ==
    ASSUME NEW m, NEW l \in Nat, NEW t, TextAt(m, l, t), Len(t) > 1
    PROVE  TextAt(m, l - SCR_WIDTH, Front(t))
<1>1. PICK r : r = Front(t)
  OBVIOUS
<1>2. t \in Seq(Seq(ScrChars)) /\ Len(t) \in Nat
  <2>1. t \in Seq(Seq(ScrChars))
    BY DEF TextAt
  <2>. QED  BY <2>1
<1>3. /\ r \in Seq(Seq(ScrChars)) /\ Len(r) = Len(t) - 1
      /\ \A i \in 0..Len(t) - 2 : From(r, i) = From(t, i + 1)
  BY <1>1, <1>2, DropLine
<1>4. PICK w \in Nat \ {0} : w = SCR_WIDTH
  BY LineNumbers
<1>5. ASSUME NEW i \in 0..Len(r) - 1
      PROVE  /\ Len(From(r, i)) <= w
             /\ l - w - i * w >= 0 =>
                   \A x \in 1..Len(From(r, i)) : m[l - w - i * w + x - 1] = From(r, i)[x]
  <2>1. PICK j : j = i + 1
    OBVIOUS
  <2>2. i \in Nat /\ i \in 0..Len(t) - 2 /\ j \in 0..Len(t) - 1 /\ j \in Nat
    BY <1>2, <1>3, <2>1
  <2>3. From(r, i) = From(t, j)
    BY <1>3, <2>1, <2>2
  <2>4. l - w - i * w = l - j * w
    <3>1. j * w = i * w + w /\ i * w \in Nat
      BY <2>1, <2>2
    <3>. QED  BY <3>1
  <2>. QED  BY <1>4, <2>2, <2>3, <2>4 DEF TextAt
<1>6. Len(r) > 0
  BY <1>2, <1>3
<1>. QED  BY <1>1, <1>3, <1>4, <1>5, <1>6 DEF TextAt

\* Where the cursor is: in its line, behind the last character.
LEMMA CursorIs ==
    ASSUME NEW m, NEW n \in Nat, NEW t, TextIn(m, n, t)
    PROVE  /\ OnLine(LineOf(n)) /\ LineOf(n) \in Nat /\ n = LineOf(n) + Len(From(t, 0))
           /\ Len(From(t, 0)) \in 0..SCR_WIDTH - 1 /\ From(t, 0) \in Seq(ScrChars)
           /\ t \in Seq(Seq(ScrChars)) /\ Len(t) \in Nat \ {0} /\ TextAt(m, LineOf(n), t)
<1>1. OnLine(LineOf(n)) /\ n % SCR_WIDTH \in 0..SCR_WIDTH - 1 /\ n = LineOf(n) + (n % SCR_WIDTH)
  BY LineIs
<1>2. LineOf(n) \in Nat
  BY <1>1, LineNext
<1>3. TextAt(m, LineOf(n), t) /\ Len(From(t, 0)) = n % SCR_WIDTH
  BY DEF TextIn
<1>4. t \in Seq(Seq(ScrChars)) /\ Len(t) > 0
  BY <1>3 DEF TextAt
<1>5. Len(t) \in Nat \ {0}
  BY <1>4
<1>6. From(t, 0) \in Seq(ScrChars)
  BY <1>4, <1>5 DEF From
<1>. QED  BY <1>1, <1>2, <1>3, <1>4, <1>5, <1>6

\* The three ways the text changes.
IsMemory(m)    == m = [w \in Words |-> m[w]]
Put(m, p, ch) == [m EXCEPT ![p] = ch]

Printed(t, ch) ==
    LET line == Append(Last(t), ch)
        rest == Append(Front(t), line)
    IN  IF Len(line) = SCR_WIDTH THEN Append(rest, <<>>) ELSE rest

TakenBack(t) ==
    LET s == IF Last(t) = <<>> THEN Front(t) ELSE t
    IN  Append(Front(s), Front(Last(s)))

LEMMA TextPrinted ==
    ASSUME NEW m, IsMemory(m), NEW n \in 0..con_size - 1, NEW t, TextIn(m, n, t),
           NEW ch \in ScrChars, NEW o, o = Put(m, n, ch),
           NEW b \in Nat, NEW c \in Nat, BackIn(b, t), c <= b + 1
    PROVE  TextIn(o, n + 1, Printed(t, ch)) /\ BackIn(c, Printed(t, ch))
<1>m. m = [w \in Words |-> m[w]]
  BY DEF IsMemory
<1>l. PICK line : line = Append(Last(t), ch)
  OBVIOUS
<1>u. PICK u : u = Printed(t, ch)
  OBVIOUS
<1>v. u = IF Len(line) = SCR_WIDTH THEN Append(Append(Front(t), line), <<>>)
          ELSE Append(Front(t), line)
  BY <1>l, <1>u DEF Printed
<1>1. PICK w \in Nat \ {0} : w = SCR_WIDTH
  BY LineNumbers
<1>2. n \in Nat /\ n \in Words
  BY LineNumbers DEF Words
<1>3. PICK l \in Nat : l = LineOf(n)
  BY <1>2, CursorIs
<1>4. PICK k \in Nat : k = Len(From(t, 0)) /\ k \in 0..w - 1
  BY <1>1, <1>2, CursorIs
<1>5. /\ OnLine(l) /\ n = l + k /\ From(t, 0) \in Seq(ScrChars) /\ t \in Seq(Seq(ScrChars))
      /\ Len(t) \in Nat \ {0} /\ TextAt(m, l, t)
  BY <1>2, <1>3, <1>4, CursorIs
<1>n. n = l + k /\ n \in Nat /\ k \in Nat /\ l \in Nat
  BY <1>2, <1>5
<1>t. Len(t) \in Nat /\ Len(t) > 0
  BY <1>5
<1>6. Last(t) = From(t, 0)
  <2>1. Len(t) - 0 = Len(t)
    BY <1>5
  <2>. QED  BY <2>1 DEF Last, From
<1>7. /\ line \in Seq(ScrChars) /\ Len(line) = k + 1 /\ line[k + 1] = ch
      /\ \A x \in 1..k : line[x] = From(t, 0)[x]
  BY <1>l, <1>4, <1>5, <1>6
<1>9. \A p \in 0..n - 1 : p \in Words /\ o[p] = m[p]
  <2>1. \A p \in 0..n - 1 : p \in Words /\ p # n
    BY <1>2, LineNumbers DEF Words
  <2>. QED  BY <1>m, <2>1 DEF Put
<1>10. o[n] = ch
  BY <1>m, <1>2 DEF Put
<1>11. \A x \in 1..k : m[l + x - 1] = From(t, 0)[x]
  <2>1. 0 \in 0..Len(t) - 1 /\ l - 0 * w = l /\ l >= 0
    BY <1>5
  <2>. QED  BY <1>1, <1>4, <1>5, <2>1 DEF TextAt
<1>12. \A x \in 1..Len(line) : o[l + x - 1] = line[x]
  <2>. SUFFICES ASSUME NEW x \in 1..k + 1  PROVE o[l + x - 1] = line[x]
    BY <1>7
  <2>1. CASE x = k + 1
    BY <1>5, <1>7, <1>10, <2>1
  <2>2. CASE x # k + 1
    <3>1. x \in 1..k /\ l + x - 1 \in 0..n - 1
      BY <1>n, <2>2
    <3>. QED  BY <1>7, <1>9, <1>11, <3>1
  <2>. QED  BY <2>1, <2>2
<1>13. PICK r : r = Append(Front(t), line)
  OBVIOUS
<1>14. TextAt(o, l, r)
  <2>1. \A p \in 0..l - 1 : o[p] = m[p]
    <3>1. \A p \in 0..l - 1 : p \in 0..n - 1
      BY <1>n
    <3>. QED  BY <1>9, <3>1
  <2>2. Len(line) <= SCR_WIDTH
    BY <1>1, <1>4, <1>7
  <2>. QED  BY <1>5, <1>7, <1>12, <1>13, <2>1, <2>2, PutLine
<1>15. /\ r \in Seq(Seq(ScrChars)) /\ Len(r) = Len(t) /\ From(r, 0) = line
       /\ \A i \in 1..Len(t) - 1 : From(r, i) = From(t, i)
  BY <1>5, <1>7, <1>13, <1>t, LastLine
<1>16. CASE k + 1 < w
  <2>1. u = r
    BY <1>v, <1>1, <1>7, <1>13, <1>16
  <2>2. LineOf(n + 1) = l /\ (n + 1) % SCR_WIDTH = k + 1
    <3>1. k + 1 \in 0..SCR_WIDTH - 1 /\ n + 1 = l + (k + 1)
      BY <1>1, <1>5, <1>16
    <3>. QED  BY <1>5, <3>1, LineNext
  <2>3. TextIn(o, n + 1, u)
    BY <1>7, <1>14, <1>15, <2>1, <2>2 DEF TextIn
  <2>4. BackIn(c, u)
    <3>. SUFFICES ASSUME NEW i \in Nat, c > k + 1 + i * w
                  PROVE  i + 1 < Len(u) /\ Len(From(u, i + 1)) = w
      BY <1>1, <1>7, <1>15, <2>1 DEF BackIn
    <3>1. i * w \in Nat
      OBVIOUS
    <3>2. b > k + i * w
      BY <3>1
    <3>3. i + 1 < Len(t) /\ Len(From(t, i + 1)) = w
      BY <1>1, <1>4, <3>2 DEF BackIn
    <3>4. i + 1 \in 1..Len(t) - 1
      BY <1>t, <3>3
    <3>. QED  BY <1>15, <2>1, <3>3, <3>4
  <2>. QED  BY <1>u, <2>3, <2>4
<1>17. CASE ~(k + 1 < w)
  <2>1. k + 1 = w /\ Len(line) = SCR_WIDTH /\ u = Append(r, <<>>)
    BY <1>v, <1>1, <1>4, <1>7, <1>13, <1>17
  <2>2. /\ u \in Seq(Seq(ScrChars)) /\ Len(u) = Len(t) + 1 /\ From(u, 0) = <<>>
        /\ \A i \in 0..Len(t) - 1 : From(u, i + 1) = From(r, i)
    BY <1>15, <2>1, NewLine
  <2>3. TextAt(o, l + SCR_WIDTH, u)
    BY <1>14, <2>1, NextLine
  <2>4. LineOf(n + 1) = l + SCR_WIDTH /\ (n + 1) % SCR_WIDTH = 0
    <3>1. n + 1 = (l + SCR_WIDTH) + 0 /\ 0 \in 0..SCR_WIDTH - 1
      BY <1>1, <1>5, <2>1
    <3>2. OnLine(l + SCR_WIDTH)
      BY <1>5, LineNext
    <3>. QED  BY <3>1, <3>2, LineNext
  <2>5. TextIn(o, n + 1, u)
    BY <2>2, <2>3, <2>4 DEF TextIn
  <2>6. BackIn(c, u)
    <3>. SUFFICES ASSUME NEW i \in Nat, c > i * w
                  PROVE  i + 1 < Len(u) /\ Len(From(u, i + 1)) = w
      <4>1. Len(From(u, 0)) = 0
        BY <2>2
      <4>2. \A i \in Nat : 0 + i * w = i * w
        OBVIOUS
      <4>. QED  BY <1>1, <4>1, <4>2 DEF BackIn
    <3>1. CASE i = 0
      <4>1. 0 + 1 = 1 /\ 0 \in 0..Len(t) - 1
        BY <1>t
      <4>2. From(u, 1) = From(r, 0)
        BY <2>2, <4>1
      <4>3. Len(From(u, 1)) = w
        BY <1>1, <1>15, <2>1, <4>2
      <4>4. i + 1 = 1 /\ 1 < Len(u)
        BY <1>t, <2>2, <3>1
      <4>. QED  BY <4>3, <4>4
    <3>2. CASE i # 0
      <4>1. PICK j \in Nat : i = j + 1
        <5>1. i - 1 \in Nat /\ i = (i - 1) + 1
          BY <3>2
        <5>. QED  BY <5>1
      <4>2. i * w = j * w + w /\ j * w \in Nat
        BY <4>1
      <4>3. b > k + j * w
        <5>1. PICK z \in Nat : z = j * w
          BY <4>2
        <5>2. c > z + w /\ c <= b + 1 /\ k + 1 = w
          BY <2>1, <4>2, <5>1
        <5>3. b \in Nat /\ c \in Nat /\ k \in Nat /\ w \in Nat
          OBVIOUS
        <5>4. b > k + z
          BY <5>2, <5>3
        <5>. QED  BY <5>1, <5>4
      <4>4. i < Len(t) /\ Len(From(t, i)) = w
        BY <1>1, <1>4, <4>1, <4>3 DEF BackIn
      <4>5. i \in 1..Len(t) - 1 /\ i \in 0..Len(t) - 1
        BY <1>5, <3>2, <4>4
      <4>. QED  BY <1>5, <1>15, <2>2, <4>4, <4>5
    <3>. QED  BY <3>1, <3>2
  <2>. QED  BY <1>u, <2>5, <2>6
<1>. QED  BY <1>u, <1>16, <1>17

LEMMA TextBroken ==
    ASSUME NEW m, NEW n \in Nat, NEW t, TextIn(m, n, t)
    PROVE  TextIn(m, LineOf(n) + SCR_WIDTH, Append(t, <<>>)) /\ BackIn(0, Append(t, <<>>))
<1>1. PICK l \in Nat : l = LineOf(n)
  BY CursorIs
<1>2. OnLine(l) /\ TextAt(m, l, t) /\ t \in Seq(Seq(ScrChars))
  BY <1>1, CursorIs
<1>3. PICK u : u = Append(t, <<>>)
  OBVIOUS
<1>4. TextAt(m, l + SCR_WIDTH, u) /\ From(u, 0) = <<>>
  BY <1>2, <1>3, NewLine, NextLine
<1>5. LineOf(l + SCR_WIDTH) = l + SCR_WIDTH /\ (l + SCR_WIDTH) % SCR_WIDTH = 0
  <2>1. SCR_WIDTH \in Nat \ {0}
    BY LineNumbers
  <2>2. (l + SCR_WIDTH) + 0 = l + SCR_WIDTH /\ 0 \in 0..SCR_WIDTH - 1
    BY <2>1
  <2>3. OnLine(l + SCR_WIDTH)
    BY <1>2, LineNext
  <2>. QED  BY <2>2, <2>3, LineNext
<1>6. TextIn(m, l + SCR_WIDTH, u)
  BY <1>4, <1>5 DEF TextIn
<1>7. BackIn(0, u)
  <2>1. Len(From(u, 0)) = 0
    BY <1>4
  <2>2. \A i \in Nat : i * SCR_WIDTH \in Nat
    BY LineNumbers
  <2>. QED  BY <2>1, <2>2 DEF BackIn
<1>. QED  BY <1>1, <1>3, <1>6, <1>7

LEMMA TextBack ==
    ASSUME NEW m, IsMemory(m), NEW n \in 1..con_size - 1, NEW t, TextIn(m, n, t),
           NEW b \in Nat, b > 0, BackIn(b, t), NEW ch, NEW o, o = Put(m, n - 1, ch)
    PROVE  TextIn(o, n - 1, TakenBack(t)) /\ BackIn(b - 1, TakenBack(t))
<1>mm. m = [w \in Words |-> m[w]]
  BY DEF IsMemory
<1>ss. PICK s : s = IF Last(t) = <<>> THEN Front(t) ELSE t
  OBVIOUS
<1>uu. PICK u : u = Append(Front(s), Front(Last(s)))
  OBVIOUS
<1>vv. u = TakenBack(t)
  BY <1>ss, <1>uu DEF TakenBack
<1>1. PICK w \in Nat \ {0} : w = SCR_WIDTH
  BY LineNumbers
<1>2. n \in Nat /\ n - 1 \in Nat /\ n - 1 \in Words
  BY LineNumbers DEF Words
<1>3. PICK l \in Nat : l = LineOf(n)
  BY <1>2, CursorIs
<1>4. PICK k \in Nat : k = Len(From(t, 0)) /\ k \in 0..w - 1
  BY <1>1, <1>2, CursorIs
<1>5. /\ OnLine(l) /\ n = l + k /\ From(t, 0) \in Seq(ScrChars) /\ t \in Seq(Seq(ScrChars))
      /\ Len(t) \in Nat \ {0} /\ TextAt(m, l, t)
  BY <1>2, <1>3, <1>4, CursorIs
<1>n. n = l + k /\ n \in Nat /\ n >= 1 /\ k \in Nat /\ l \in Nat /\ w \in Nat \ {0} /\ k <= w - 1
  BY <1>2, <1>4, <1>5
<1>t. Len(t) \in Nat /\ Len(t) > 0
  BY <1>5
<1>6. Last(t) = From(t, 0)
  <2>1. Len(t) - 0 = Len(t)
    BY <1>5
  <2>. QED  BY <2>1 DEF Last, From
\* The line the last character is on, and how many it has.
<1>7. PICK g \in Nat : g = IF k = 0 THEN l - w ELSE l
  <2>1. k = 0 => l >= w
    <3>. SUFFICES ASSUME k = 0  PROVE l >= w
      OBVIOUS
    <3>1. l > 0
      BY <1>n
    <3>. QED  BY <1>1, <1>5, <3>1, LineNext
  <2>2. l - w \in Nat \/ k # 0
    BY <1>n, <2>1
  <2>. QED  BY <1>n, <2>2
<1>8. PICK h \in Nat : h = IF k = 0 THEN w ELSE k
  OBVIOUS
<1>9. /\ OnLine(g) /\ n = g + h /\ h >= 1 /\ h <= w
      /\ s \in Seq(Seq(ScrChars)) /\ Len(s) \in Nat /\ Len(s) > 0 /\ TextAt(m, g, s)
      /\ Len(From(s, 0)) = h
      /\ \A i \in Nat : b > h + i * w => i + 1 < Len(s) /\ Len(From(s, i + 1)) = w
  <2>1. CASE k # 0
    <3>1. s = t
      <4>1. Last(t) # <<>>
        BY <1>4, <1>6, <2>1
      <4>. QED  BY <1>ss, <4>1
    <3>2. \A i \in Nat : b > k + i * w => i + 1 < Len(t) /\ Len(From(t, i + 1)) = w
      BY <1>1, <1>4 DEF BackIn
    <3>3. g = l /\ h = k /\ k >= 1
      BY <1>7, <1>8, <1>n, <2>1
    <3>. QED  BY <1>4, <1>5, <1>n, <1>t, <3>1, <3>2, <3>3
  <2>2. CASE k = 0
    <3>1. Last(t) = <<>> /\ s = Front(t)
      BY <1>ss, <1>4, <1>5, <1>6, <2>2
    <3>2. \A i \in Nat : b > i * w => i + 1 < Len(t) /\ Len(From(t, i + 1)) = w
      <4>1. \A i \in Nat : 0 + i * w = i * w
        OBVIOUS
      <4>. QED  BY <1>1, <1>4, <2>2, <4>1 DEF BackIn
    <3>3. Len(t) > 1 /\ Len(From(t, 1)) = w
      <4>1. 0 * w = 0 /\ 0 + 1 = 1 /\ b > 0
        OBVIOUS
      <4>. QED  BY <3>2, <4>1
    <3>4. /\ s \in Seq(Seq(ScrChars)) /\ Len(s) = Len(t) - 1
          /\ \A i \in 0..Len(t) - 2 : From(s, i) = From(t, i + 1)
      BY <1>5, <3>1, <3>3, DropLine
    <3>5. g = l - w /\ h = w /\ n = l
      BY <1>7, <1>8, <1>n, <2>2
    <3>6. OnLine(g)
      <4>1. l > 0
        BY <1>n, <3>5
      <4>. QED  BY <1>1, <1>5, <3>5, <4>1, LineNext
    <3>7. TextAt(m, g, s)
      BY <1>1, <1>5, <3>1, <3>3, <3>5, PrevLine
    <3>8. Len(From(s, 0)) = h
      <4>1. 0 \in 0..Len(t) - 2 /\ 0 + 1 = 1
        BY <1>t, <3>3
      <4>. QED  BY <3>3, <3>4, <3>5, <4>1
    <3>9. ASSUME NEW i \in Nat, b > h + i * w  PROVE i + 1 < Len(s) /\ Len(From(s, i + 1)) = w
      <4>1. PICK j \in Nat : j = i + 1
        OBVIOUS
      <4>2. j * w = w + i * w
        BY <4>1
      <4>3. j + 1 < Len(t) /\ Len(From(t, j + 1)) = w
        BY <3>2, <3>5, <3>9, <4>2
      <4>4. j \in 0..Len(t) - 2
        BY <1>t, <4>3
      <4>. QED  BY <1>t, <3>4, <4>1, <4>3, <4>4
    <3>10. Len(s) \in Nat /\ Len(s) > 0 /\ n = g + h /\ h >= 1 /\ h <= w
      BY <1>n, <1>t, <3>3, <3>4, <3>5
    <3>. QED  BY <3>4, <3>6, <3>7, <3>8, <3>9, <3>10
  <2>. QED  BY <2>1, <2>2
<1>m. n = g + h /\ h >= 1 /\ h <= w /\ g \in Nat /\ h \in Nat /\ n \in Nat
  BY <1>9, <1>n
<1>s. Len(s) \in Nat /\ Len(s) > 0
  BY <1>9
<1>10. Last(s) = From(s, 0) /\ From(s, 0) \in Seq(ScrChars)
  <2>1. Len(s) - 0 = Len(s) /\ Len(s) \in 1..Len(s)
    BY <1>9
  <2>. QED  BY <1>9, <2>1 DEF Last, From
<1>11. PICK line : line = Front(Last(s))
  OBVIOUS
<1>12. line \in Seq(ScrChars) /\ Len(line) = h - 1 /\ \A x \in 1..h - 1 : line[x] = From(s, 0)[x]
  <2>1. PICK f : f = From(s, 0)
    OBVIOUS
  <2>2. f \in Seq(ScrChars) /\ Len(f) = h
    BY <1>9, <1>10, <2>1
  <2>3. PICK e \in Nat : e = h - 1
    BY <1>9
  <2>4. \A x \in 1..e : f[x] \in ScrChars
    BY <2>2, <2>3
  <2>5. line = SubSeq(f, 1, e)
    BY <1>10, <1>11, <2>1, <2>2, <2>3 DEF Front
  <2>6. /\ line \in Seq(ScrChars) /\ Len(line) = IF 1 <= e THEN e - 1 + 1 ELSE 0
        /\ \A x \in 1..e - 1 + 1 : line[x] = f[1 + x - 1]
    <3>1. 1 \in Int /\ e \in Int
      OBVIOUS
    <3>2. /\ SubSeq(f, 1, e) \in Seq(ScrChars) /\ Len(SubSeq(f, 1, e)) = IF 1 <= e THEN e - 1 + 1 ELSE 0
          /\ \A x \in 1..e - 1 + 1 : SubSeq(f, 1, e)[x] = f[1 + x - 1]
      BY <2>4, <3>1, SubSeqProperties
    <3>. QED  BY <2>5, <3>2
  <2>. QED  BY <2>1, <2>3, <2>6
<1>14. \A p \in 0..n - 2 : o[p] = m[p]
  <2>1. \A p \in 0..n - 2 : p \in Words /\ p # n - 1
    BY <1>2, LineNumbers DEF Words
  <2>. QED  BY <1>mm, <2>1 DEF Put
<1>15. \A x \in 1..h - 1 : m[g + x - 1] = From(s, 0)[x]
  <2>1. 0 \in 0..Len(s) - 1 /\ g - 0 * w = g /\ g >= 0
    BY <1>9
  <2>2. \A x \in 1..h : m[g - 0 * w + x - 1] = From(s, 0)[x]
    BY <1>1, <1>9, <2>1 DEF TextAt
  <2>3. \A x \in 1..h - 1 : x \in 1..h
    BY <1>9
  <2>. QED  BY <2>1, <2>2, <2>3
<1>16. \A x \in 1..Len(line) : o[g + x - 1] = line[x]
  <2>. SUFFICES ASSUME NEW x \in 1..h - 1  PROVE o[g + x - 1] = line[x]
    BY <1>12
  <2>1. g + x - 1 \in 0..n - 2
    BY <1>m
  <2>. QED  BY <1>12, <1>14, <1>15, <2>1
<1>17. TextAt(o, g, u)
  <2>1. \A p \in 0..g - 1 : o[p] = m[p]
    <3>1. \A p \in 0..g - 1 : p \in 0..n - 2
      BY <1>9
    <3>. QED  BY <1>14, <3>1
  <2>2. Len(line) <= SCR_WIDTH
    BY <1>1, <1>9, <1>12
  <2>. QED  BY <1>uu, <1>9, <1>11, <1>12, <1>16, <2>1, <2>2, PutLine
<1>18. /\ u \in Seq(Seq(ScrChars)) /\ Len(u) = Len(s) /\ From(u, 0) = line
       /\ \A i \in 1..Len(s) - 1 : From(u, i) = From(s, i)
  BY <1>uu, <1>9, <1>11, <1>12, LastLine
<1>19. LineOf(n - 1) = g /\ (n - 1) % SCR_WIDTH = h - 1
  <2>1. h - 1 \in 0..SCR_WIDTH - 1 /\ n - 1 = g + (h - 1)
    BY <1>1, <1>9
  <2>2. \A x \in 0..SCR_WIDTH - 1 : LineOf(g + x) = g /\ (g + x) % SCR_WIDTH = x
    BY <1>9, LineNext
  <2>. QED  BY <2>1, <2>2
<1>20. TextIn(o, n - 1, u)
  BY <1>12, <1>17, <1>18, <1>19 DEF TextIn
<1>21. BackIn(b - 1, u)
  <2>. SUFFICES ASSUME NEW i \in Nat, b - 1 > h - 1 + i * w
                PROVE  i + 1 < Len(u) /\ Len(From(u, i + 1)) = w
    BY <1>1, <1>12, <1>18 DEF BackIn
  <2>1. b > h + i * w
    <3>1. PICK z \in Nat : z = i * w
      OBVIOUS
    <3>2. b - 1 > h - 1 + z
      BY <3>1
    <3>3. b > h + z
      BY <3>2
    <3>. QED  BY <3>1, <3>3
  <2>2. i + 1 < Len(s) /\ Len(From(s, i + 1)) = w
    BY <1>9, <2>1
  <2>3. i + 1 \in 1..Len(s) - 1
    BY <1>s, <2>2
  <2>. QED  BY <1>18, <2>2, <2>3
<1>. QED  BY <1>vv, <1>20, <1>21

LEMMA ScrInitial == ScrInit => ScrInv
<1>. SUFFICES ASSUME ScrInit  PROVE ScrInv
  OBVIOUS
<1>1. /\ SCR_WIDTH \in Nat \ {0} /\ SCR_SIZE \in Nat /\ con_size \in Nat /\ OnLine(0)
      /\ SCR_WIDTH <= SCR_SIZE /\ SCR_SIZE <= con_size
  BY LineNumbers
<1>2. InWindow(con) /\ Visible(con)
  BY <1>1 DEF ScrInit, InWindow, Visible
<1>3. LineOf(0) = 0 /\ 0 % SCR_WIDTH = 0
  <2>1. 0 + 0 = 0 /\ 0 \in 0..SCR_WIDTH - 1
    BY <1>1
  <2>. QED  BY <1>1, <2>1, LineNext
<1>4. text = << <<>> >> /\ text \in Seq(Seq(ScrChars)) /\ Len(text) = 1 /\ From(text, 0) = <<>>
  BY DEF ScrInit, From
<1>5. TextIn(vmem, con.cursor, text)
  <2>1. con.cursor = 0
    BY DEF ScrInit
  <2>2. \A i \in 0..Len(text) - 1 : Len(From(text, i)) = 0
    BY <1>4
  <2>. QED  BY <1>1, <1>3, <1>4, <2>1, <2>2 DEF TextIn, TextAt
<1>6. back \in 0..MaxBack /\ BackIn(back, text)
  <2>1. back = 0 /\ MaxBack \in Nat
    BY ScreenAssumption DEF ScrInit
  <2>2. Len(From(text, 0)) = 0 /\ \A i \in Nat : i * SCR_WIDTH \in Nat
    BY <1>1, <1>4
  <2>. QED  BY <2>1, <2>2 DEF BackIn
<1>7. vmem = [w \in Words |-> vmem[w]] /\ crt = <<con.cursor, con.crtc_start>>
  BY DEF ScrInit
<1>. QED  BY <1>2, <1>5, <1>6, <1>7 DEF ScrInv

\* What out_char has settled is as it should be.
LEMMA Settled ==
    ASSUME ScrInv, NEW c, c = [con EXCEPT !.cursor = c.cursor], c.cursor \in 0..con_size,
           NEW m, m = [w \in Words |-> m[w]], NEW t, TextIn(m, c.cursor, t), Settle(c, m),
           text' = t, back' \in 0..MaxBack, BackIn(back', t)
    PROVE  ScrInv'
<1>1. /\ c = [cursor |-> c.cursor, crtc_start |-> c.crtc_start, is_full |-> c.is_full]
      /\ OnLine(c.crtc_start) /\ c.crtc_start <= con_size - SCR_SIZE
  BY DEF ScrInv, InWindow
<1>2. /\ InWindow(con') /\ Visible(con)' /\ TextIn(vmem', con'.cursor, t)
      /\ vmem' = [w \in Words |-> vmem'[w]]
      /\ shown' = shown /\ (shown => crt' = <<con'.cursor, con'.crtc_start>>)
  BY <1>1, SettleKeeps
<1>. QED  BY <1>2 DEF ScrInv

LEMMA PrintableKeeps == \A ch \in ScrChars : ScrInv /\ OutPrintable(ch) => ScrInv'
<1>. SUFFICES ASSUME NEW ch \in ScrChars, ScrInv, OutPrintable(ch)  PROVE ScrInv'
  OBVIOUS
<1>0. con_size \in Nat /\ MaxBack \in Nat
  BY LineNumbers, ScreenAssumption
<1>1. PICK n \in 0..con_size - 1 : n = con.cursor
  BY DEF ScrInv, InWindow
<1>2. PICK t : t = text
  OBVIOUS
<1>4. PICK u : u = Printed(t, ch)
  OBVIOUS
<1>5. PICK m : m = vmem
  OBVIOUS
<1>6. PICK o : o = Put(m, n, ch)
  OBVIOUS
<1>7. PICK c : c = [con EXCEPT !.cursor = n + 1]
  OBVIOUS
<1>8. /\ Settle(c, o) /\ text' = LastLines(u)
      /\ back' = IF back < MaxBack THEN back + 1 ELSE back
  BY <1>1, <1>2, <1>4, <1>5, <1>6, <1>7 DEF OutPrintable, Printed, Put
<1>9. PICK b \in Nat, b2 \in 0..MaxBack : b = back /\ b2 = back'
  <2>1. back \in Nat /\ back' \in 0..MaxBack
    BY <1>0, <1>8 DEF ScrInv
  <2>. QED  BY <2>1
<1>10. b2 <= b + 1 /\ b2 \in Nat
  BY <1>0, <1>8, <1>9
<1>11. TextIn(m, n, t) /\ BackIn(b, t) /\ m = [w \in Words |-> m[w]]
  BY <1>1, <1>2, <1>5, <1>9 DEF ScrInv
<1>12. TextIn(o, n + 1, u) /\ BackIn(b2, u)
  <2>1. IsMemory(m)
    BY <1>11 DEF IsMemory
  <2>. QED  BY <1>4, <1>6, <1>9, <1>10, <1>11, <2>1, TextPrinted
<1>13. TextIn(o, n + 1, LastLines(u)) /\ BackIn(b2, LastLines(u))
  BY <1>12, TextForgets
<1>14. o = [w \in Words |-> o[w]]
  BY <1>6, <1>11 DEF Put
<1>15. c.cursor = n + 1 /\ c.cursor \in 0..con_size /\ c = [con EXCEPT !.cursor = c.cursor]
  BY <1>0, <1>7 DEF ScrInv, InWindow
<1>16. PICK v : v = LastLines(u)
  OBVIOUS
<1>17. TextIn(o, c.cursor, v) /\ text' = v /\ back' \in 0..MaxBack /\ BackIn(back', v)
  BY <1>8, <1>9, <1>13, <1>15, <1>16
<1>. QED  BY <1>8, <1>14, <1>15, <1>17, Settled

LEMMA NewlineKeeps == ScrInv /\ OutNewline => ScrInv'
<1>. SUFFICES ASSUME ScrInv, OutNewline  PROVE ScrInv'
  OBVIOUS
<1>0. con_size \in Nat /\ MaxBack \in Nat /\ SCR_WIDTH \in Nat \ {0} /\ OnLine(con_size)
  BY LineNumbers, ScreenAssumption
<1>1. PICK n \in 0..con_size - 1 : n = con.cursor
  BY DEF ScrInv, InWindow
<1>2. PICK t, m : t = text /\ m = vmem
  OBVIOUS
<1>3. PICK p : p = LineOf(n) + SCR_WIDTH
  OBVIOUS
<1>4. PICK c : c = [con EXCEPT !.cursor = p]
  OBVIOUS
<1>5. Settle(c, m) /\ text' = LastLines(Append(t, <<>>)) /\ back' = 0
  BY <1>1, <1>2, <1>3, <1>4 DEF OutNewline
<1>6. TextIn(m, n, t) /\ m = [w \in Words |-> m[w]]
  BY <1>1, <1>2 DEF ScrInv
<1>7. PICK u : u = Append(t, <<>>)
  OBVIOUS
<1>8. n \in Nat
  BY <1>0
<1>9. TextIn(m, p, u) /\ BackIn(0, u)
  BY <1>3, <1>6, <1>7, <1>8, TextBroken
<1>10. PICK v : v = LastLines(u)
  OBVIOUS
<1>11. TextIn(m, p, v) /\ BackIn(0, v)
  <2>1. 0 \in 0..MaxBack
    BY <1>0
  <2>. QED  BY <1>9, <1>10, <2>1, TextForgets
<1>12. p \in 0..con_size
  <2>1. OnLine(LineOf(n)) /\ n % SCR_WIDTH \in Nat /\ n = LineOf(n) + (n % SCR_WIDTH)
    BY <1>0, <1>8, LineIs
  <2>2. LineOf(n) \in Nat /\ LineOf(n) < con_size
    <3>1. LineOf(n) \in Nat
      BY <2>1, LineNext
    <3>. QED  BY <1>0, <2>1, <3>1
  <2>3. LineOf(n) + SCR_WIDTH <= con_size
    BY <1>0, <2>1, <2>2, LinesApart
  <2>. QED  BY <1>0, <1>3, <2>2, <2>3
<1>13. c.cursor = p /\ c = [con EXCEPT !.cursor = c.cursor]
  BY <1>4 DEF ScrInv, InWindow
<1>14. TextIn(m, c.cursor, v) /\ text' = v /\ back' \in 0..MaxBack /\ BackIn(back', v) /\ c.cursor \in 0..con_size
  BY <1>0, <1>5, <1>7, <1>10, <1>11, <1>12, <1>13
<1>. QED  BY <1>5, <1>6, <1>13, <1>14, Settled

LEMMA BackspaceKeeps == ScrInv /\ OutBackspace => ScrInv'
<1>. SUFFICES ASSUME ScrInv, OutBackspace  PROVE ScrInv'
  OBVIOUS
<1>0. con_size \in Nat /\ MaxBack \in Nat
  BY LineNumbers, ScreenAssumption
<1>1. con.cursor \in 0..con_size - 1 /\ con.cursor > 0 /\ back \in 0..MaxBack /\ back > 0
  BY DEF ScrInv, InWindow, OutBackspace
<1>2. PICK n \in 1..con_size - 1 : n = con.cursor
  BY <1>0, <1>1
<1>3. PICK b \in Nat \ {0} : b = back
  BY <1>0, <1>1
<1>4. PICK t : t = text
  OBVIOUS
<1>5. PICK m : m = vmem
  OBVIOUS
<1>7. PICK u : u = TakenBack(t)
  OBVIOUS
<1>8. PICK o : o = Put(m, n - 1, " ")
  OBVIOUS
<1>9. PICK c : c = [con EXCEPT !.cursor = n - 1]
  OBVIOUS
<1>10. Settle(c, o) /\ text' = u /\ back' = b - 1
  BY <1>2, <1>3, <1>4, <1>5, <1>7, <1>8, <1>9 DEF OutBackspace, TakenBack, Put
<1>11. TextIn(m, n, t) /\ BackIn(b, t) /\ m = [w \in Words |-> m[w]]
  BY <1>2, <1>3, <1>4, <1>5 DEF ScrInv
<1>12. TextIn(o, n - 1, u) /\ BackIn(b - 1, u)
  <2>1. IsMemory(m) /\ b \in Nat /\ b > 0
    BY <1>11 DEF IsMemory
  <2>. QED  BY <1>7, <1>8, <1>11, <2>1, TextBack
<1>13. o = [w \in Words |-> o[w]]
  BY <1>8, <1>11 DEF Put
<1>14. c.cursor = n - 1 /\ c.cursor \in 0..con_size /\ c = [con EXCEPT !.cursor = c.cursor]
  BY <1>0, <1>9 DEF ScrInv, InWindow
<1>15. b - 1 \in 0..MaxBack
  BY <1>0, <1>1, <1>3
<1>16. TextIn(o, c.cursor, u) /\ back' \in 0..MaxBack /\ BackIn(back', u)
  BY <1>10, <1>12, <1>14, <1>15
<1>. QED  BY <1>10, <1>13, <1>14, <1>16, Settled

LEMMA UserKeeps ==
    ASSUME ScrInv,
           \/ scroll_screen(ScrollDown(con)) \/ scroll_screen(ScrollUp(con))
           \/ \E this \in BOOLEAN : select_console(this)
           \/ UNCHANGED scrVars
    PROVE  ScrInv'
<1>1. ASSUME NEW c, c = ScrollDown(con) \/ c = ScrollUp(con), scroll_screen(c)  PROVE ScrInv'
  <2>1. InWindow(c) /\ c.cursor = con.cursor
    BY <1>1, ScrollsInWindow DEF ScrInv
  <2>2. con' = c /\ crt' = flush(c) /\ scrolled' = TRUE /\ UNCHANGED <<vmem, shown, text, back>>
    BY <1>1 DEF scroll_screen
  <2>. QED  BY <2>1, <2>2 DEF ScrInv, flush
<1>2. ASSUME NEW this \in BOOLEAN, select_console(this)  PROVE ScrInv'
  <2>1. /\ shown' = this /\ (this => crt' = <<con.cursor, con.crtc_start>>)
        /\ UNCHANGED <<con, vmem, text, back, scrolled>>
    BY <1>2 DEF select_console
  <2>. QED  BY <2>1 DEF ScrInv, Visible
<1>3. ASSUME UNCHANGED scrVars  PROVE ScrInv'
  BY <1>3 DEF ScrInv, scrVars, Visible
<1>. QED  BY <1>1, <1>2, <1>3

LEMMA ScrStep == ScrInv /\ [ScrNext]_scrVars => ScrInv'
BY PrintableKeeps, NewlineKeeps, BackspaceKeeps, UserKeeps DEF ScrNext

\* Whatever is printed, taken back and scrolled, on consoles of any size: the
\* window stays in the console, and the user sees the character printed last and
\* the lines above it, also where the console started again at its top.
THEOREM ScreenAlwaysSound == ScrSpec => []ScreenSound
BY ScrInitial, ScrStep, ScrSoundIs, PTL DEF ScrSpec

-----------------------------------------------------------------------------
\* What Settle clears when the window has to move is in the console, if the
\* cursor was in sight or has a line's length after it.
Beyond == con_size..con_size + SCR_WIDTH - 1

LEMMA SettleSpares ==
    ASSUME NEW c, c = [cursor |-> c.cursor, crtc_start |-> c.crtc_start, is_full |-> c.is_full],
           c.cursor \in 0..con_size, OnLine(c.crtc_start), c.crtc_start <= con_size - SCR_SIZE,
           c.cursor = con_size \/ Visible(c) \/ c.cursor + SCR_WIDTH <= con_size,
           NEW m, m = [w \in Words |-> m[w]], Settle(c, m)
    PROVE  \A w \in Beyond : vmem'[w] = m[w]
<1>0. /\ SCR_SIZE \in Nat /\ con_size \in Nat /\ SCR_WIDTH \in Nat \ {0}
      /\ SCR_WIDTH <= SCR_SIZE /\ SCR_SIZE <= con_size /\ OnLine(con_size) /\ ConLines \in Nat
  BY LineNumbers, ScreenAssumption
<1>1. PICK d, o : /\ d = IF AtEnd(c.cursor) THEN Restarted(c) ELSE c
                  /\ o = IF AtEnd(c.cursor) THEN Copied(c, m) ELSE m
  OBVIOUS
<1>2. PICK k : k = Min(Rounds(d))
  OBVIOUS
<1>3. Rounds(d) # {} /\ vmem' = IF k = 0 THEN o ELSE clear_screen(o, d.cursor)
  BY <1>1, <1>2 DEF Settle
<1>4. \A w \in Beyond : w \in Words /\ w >= con_size /\ w \in Nat
  BY <1>0 DEF Beyond, Words
<1>5. ASSUME NEW p \in Nat, p + SCR_WIDTH <= con_size, NEW a
      PROVE  \A w \in Beyond : clear_screen(a, p)[w] = a[w]
  <2>. TAKE w \in Beyond
  <2>1. w \in Words /\ w \notin p..p + SCR_WIDTH - 1
    BY <1>0, <1>4, <1>5
  <2>. QED  BY <2>1 DEF clear_screen
<1>6. CASE AtEnd(c.cursor)
  <2>1. c.cursor = con_size /\ d = Restarted(c) /\ o = Copied(c, m)
    BY <1>0, <1>1, <1>6 DEF AtEnd
  <2>2. con_size % SCR_WIDTH = 0
    BY <1>0, LineNext
  <2>3. PICK p : p = d.cursor
    OBVIOUS
  <2>4. p = SCR_SIZE - SCR_WIDTH /\ p \in Nat /\ p + SCR_WIDTH <= con_size
    BY <1>0, <2>1, <2>2, <2>3 DEF Restarted
  <2>5. \A w \in Beyond : o[w] = m[w]
    <3>. TAKE w \in Beyond
    <3>1. PICK a : a = [x \in Words |-> IF x < Kept THEN m[newest(c) + SCR_WIDTH - SCR_SIZE + x] ELSE m[x]]
      OBVIOUS
    <3>2. o = clear_screen(a, p)
      BY <2>1, <2>3, <3>1 DEF Copied
    <3>3. ~(w < Kept) /\ w \in Words
      BY <1>0, <1>4 DEF Kept
    <3>4. a[w] = m[w]
      BY <3>1, <3>3
    <3>5. clear_screen(a, p)[w] = a[w]
      BY <1>5, <2>4
    <3>. QED  BY <3>2, <3>4, <3>5
  <2>6. \A w \in Beyond : clear_screen(o, p)[w] = o[w]
    BY <1>5, <2>4
  <2>. QED  BY <1>3, <2>3, <2>5, <2>6
<1>7. CASE ~AtEnd(c.cursor)
  <2>1. d = c /\ o = m /\ c.cursor \in 0..con_size - 1
    BY <1>0, <1>1, <1>7 DEF AtEnd
  <2>2. CASE Visible(c)
    <3>1. InWindow(c)
      BY <2>1 DEF InWindow
    <3>2. Windows(c)[0] = c
      BY <3>1, WindowsSound
    <3>3. 0 \in Rounds(c)
      BY <1>0, <2>2, <3>2 DEF Rounds
    <3>4. Rounds(c) \in SUBSET Nat
      <4>1. \A n \in Rounds(c) : n \in 0..ConLines
        BY Zenon DEF Rounds
      <4>. QED  BY <1>0, <4>1
    <3>5. \E n \in Rounds(c) : \A r \in Rounds(c) : n <= r
      BY <3>3, <3>4, LeastOf
    <3>6. k \in Rounds(c) /\ \A r \in Rounds(c) : k <= r
      BY <1>2, <2>1, <3>5 DEF Min
    <3>7. k = 0
      <4>1. k \in Nat /\ k <= 0
        BY <3>3, <3>4, <3>6
      <4>. QED  BY <4>1
    <3>. QED  BY <1>3, <2>1, <3>7
  <2>3. CASE c.cursor + SCR_WIDTH <= con_size
    <3>1. PICK p \in Nat : p = c.cursor
      BY <1>0, <2>1
    <3>2. \A w \in Beyond : clear_screen(m, p)[w] = m[w]
      BY <1>5, <2>3, <3>1
    <3>. QED  BY <1>3, <2>1, <3>1, <3>2
  <2>. QED  BY <1>0, <2>1, <2>2, <2>3
<1>. QED  BY <1>6, <1>7

LEMMA PrintableSpares ==
    ASSUME ScrInv, ~scrolled, NEW ch \in ScrChars, OutPrintable(ch)
    PROVE  \A w \in Beyond : vmem'[w] = vmem[w]
<1>0. /\ SCR_SIZE \in Nat /\ con_size \in Nat /\ SCR_WIDTH \in Nat \ {0}
      /\ SCR_WIDTH <= SCR_SIZE /\ SCR_SIZE <= con_size /\ OnLine(con_size) /\ OnLine(SCR_SIZE)
  BY LineNumbers
<1>1. PICK n \in 0..con_size - 1 : n = con.cursor
  BY DEF ScrInv, InWindow
<1>2. PICK m, o, c : m = vmem /\ o = Put(m, n, ch) /\ c = [con EXCEPT !.cursor = n + 1]
  OBVIOUS
<1>3. Settle(c, o)
  BY <1>1, <1>2 DEF OutPrintable, Put
<1>4. m = [w \in Words |-> m[w]]
  BY <1>2 DEF ScrInv
<1>5. o = [w \in Words |-> o[w]] /\ \A w \in Beyond : o[w] = m[w]
  <2>1. \A w \in Beyond : w \in Words /\ w # n
    BY <1>0 DEF Beyond, Words
  <2>. QED  BY <1>2, <1>4, <2>1 DEF Put
<1>6. PICK top : top = con.crtc_start
  OBVIOUS
<1>7. top \in Nat /\ OnLine(top) /\ top <= con_size - SCR_SIZE /\ n \in top..top + SCR_SIZE - 1
  BY <1>1, <1>6, LineNext DEF ScrInv, InWindow, Visible
<1>8. /\ c = [cursor |-> c.cursor, crtc_start |-> c.crtc_start, is_full |-> c.is_full]
      /\ c.cursor = n + 1 /\ c.crtc_start = top /\ n + 1 \in 0..con_size
  BY <1>0, <1>2, <1>6 DEF ScrInv, InWindow
<1>9. c.cursor = con_size \/ Visible(c) \/ c.cursor + SCR_WIDTH <= con_size
  <2>1. CASE n + 1 = con_size
    BY <1>8, <2>1
  <2>2. CASE n + 1 # con_size /\ n + 1 <= top + SCR_SIZE - 1
    <3>1. n + 1 \in top..top + SCR_SIZE - 1
      BY <1>0, <1>7, <2>2
    <3>. QED  BY <1>8, <3>1 DEF Visible
  <2>3. CASE n + 1 # con_size /\ ~(n + 1 <= top + SCR_SIZE - 1)
    <3>1. n + 1 = top + SCR_SIZE /\ n + 1 < con_size
      BY <1>0, <1>7, <2>3
    <3>2. OnLine(top + SCR_SIZE)
      BY <1>0, <1>7, LinesTogether
    <3>3. n + 1 + SCR_WIDTH <= con_size
      BY <1>0, <3>1, <3>2, LinesApart
    <3>. QED  BY <1>8, <3>3
  <2>. QED  BY <2>1, <2>2, <2>3
<1>10. \A w \in Beyond : vmem'[w] = o[w]
  BY <1>3, <1>5, <1>7, <1>8, <1>9, SettleSpares
<1>. QED  BY <1>2, <1>5, <1>10

LEMMA NewlineSpares ==
    ASSUME ScrInv, OutNewline
    PROVE  \A w \in Beyond : vmem'[w] = vmem[w]
<1>0. con_size \in Nat /\ SCR_WIDTH \in Nat \ {0} /\ OnLine(con_size)
  BY LineNumbers
<1>1. PICK n \in 0..con_size - 1 : n = con.cursor
  BY DEF ScrInv, InWindow
<1>2. PICK m, p : m = vmem /\ p = LineOf(n) + SCR_WIDTH
  OBVIOUS
<1>3. PICK c : c = [con EXCEPT !.cursor = p]
  OBVIOUS
<1>4. Settle(c, m) /\ m = [w \in Words |-> m[w]]
  BY <1>1, <1>2, <1>3 DEF OutNewline, ScrInv
<1>5. OnLine(p) /\ p \in 0..con_size
  <2>1. n \in Nat
    BY <1>0
  <2>2. OnLine(LineOf(n)) /\ n % SCR_WIDTH \in Nat /\ n = LineOf(n) + (n % SCR_WIDTH)
    BY <1>0, <2>1, LineIs
  <2>3. LineOf(n) \in Nat /\ OnLine(p)
    BY <1>2, <2>2, LineNext
  <2>4. LineOf(n) < con_size
    BY <1>0, <2>2, <2>3
  <2>5. LineOf(n) + SCR_WIDTH <= con_size
    BY <1>0, <2>2, <2>4, LinesApart
  <2>. QED  BY <1>0, <1>2, <2>3, <2>5
<1>6. /\ c = [cursor |-> c.cursor, crtc_start |-> c.crtc_start, is_full |-> c.is_full]
      /\ c.cursor = p /\ OnLine(c.crtc_start) /\ c.crtc_start <= con_size - SCR_SIZE
  BY <1>3 DEF ScrInv, InWindow
<1>7. p = con_size \/ p + SCR_WIDTH <= con_size
  <2>1. p < con_size => p + SCR_WIDTH <= con_size
    BY <1>0, <1>5, LinesApart
  <2>. QED  BY <1>0, <1>5, <2>1
<1>8. \A w \in Beyond : vmem'[w] = m[w]
  BY <1>4, <1>5, <1>6, <1>7, SettleSpares
<1>. QED  BY <1>2, <1>8

LEMMA BackspaceSpares ==
    ASSUME ScrInv, ~scrolled, OutBackspace
    PROVE  \A w \in Beyond : vmem'[w] = vmem[w]
<1>0. /\ SCR_SIZE \in Nat /\ con_size \in Nat /\ SCR_WIDTH \in Nat \ {0}
      /\ SCR_WIDTH <= SCR_SIZE /\ SCR_SIZE <= con_size
  BY LineNumbers
<1>1. con.cursor \in 0..con_size - 1 /\ con.cursor > 0
  BY DEF ScrInv, InWindow, OutBackspace
<1>2. PICK n \in 1..con_size - 1 : n = con.cursor
  BY <1>0, <1>1
<1>3. PICK m, o, c : m = vmem /\ o = Put(m, n - 1, " ") /\ c = [con EXCEPT !.cursor = n - 1]
  OBVIOUS
<1>4. Settle(c, o)
  BY <1>2, <1>3 DEF OutBackspace, Put
<1>5. m = [w \in Words |-> m[w]]
  BY <1>3 DEF ScrInv
<1>6. o = [w \in Words |-> o[w]] /\ \A w \in Beyond : o[w] = m[w]
  <2>1. \A w \in Beyond : w \in Words /\ w # n - 1
    BY <1>0 DEF Beyond, Words
  <2>. QED  BY <1>3, <1>5, <2>1 DEF Put
<1>7. PICK top : top = con.crtc_start
  OBVIOUS
<1>8. top \in Nat /\ OnLine(top) /\ top <= con_size - SCR_SIZE /\ n \in top..top + SCR_SIZE - 1
  BY <1>2, <1>7, LineNext DEF ScrInv, InWindow, Visible
<1>9. /\ c = [cursor |-> c.cursor, crtc_start |-> c.crtc_start, is_full |-> c.is_full]
      /\ c.cursor = n - 1 /\ c.crtc_start = top
  BY <1>3, <1>7 DEF ScrInv, InWindow
<1>n. c.cursor \in 0..con_size
  BY <1>0, <1>9
<1>10. Visible(c) \/ c.cursor + SCR_WIDTH <= con_size
  <2>1. CASE n = top
    <3>1. n - 1 + SCR_WIDTH <= con_size
      BY <1>0, <1>8, <2>1
    <3>. QED  BY <1>9, <3>1
  <2>2. CASE n # top
    <3>1. n - 1 \in top..top + SCR_SIZE - 1
      BY <1>0, <1>8, <2>2
    <3>. QED  BY <1>9, <3>1 DEF Visible
  <2>. QED  BY <2>1, <2>2
<1>11. \A w \in Beyond : vmem'[w] = o[w]
  BY <1>4, <1>6, <1>8, <1>9, <1>n, <1>10, SettleSpares
<1>. QED  BY <1>3, <1>6, <1>11

\* The console next to this one keeps its memory, on consoles of any size,
\* unless the user had scrolled when the character came.
THEOREM OthersAlwaysUntouched == ScrSpec => OthersUntouched
<1>1. ASSUME ScrInv, [ScrNext]_scrVars
      PROVE  [\A w \in con_size..con_size + SCR_WIDTH - 1 : vmem'[w] # vmem[w] => scrolled]_scrVars
  <2>. SUFFICES ASSUME ~scrolled, ScrNext  PROVE \A w \in Beyond : vmem'[w] = vmem[w]
    BY <1>1 DEF Beyond
  <2>1. CASE OutNewline
    BY <1>1, <2>1, NewlineSpares
  <2>2. CASE OutBackspace
    BY <1>1, <2>2, BackspaceSpares
  <2>3. CASE \E ch \in ScrChars : OutPrintable(ch)
    BY <1>1, <2>3, PrintableSpares
  <2>4. CASE \/ scroll_screen(ScrollDown(con)) \/ scroll_screen(ScrollUp(con))
             \/ \E this \in BOOLEAN : select_console(this)
    <3>1. vmem' = vmem
      BY <2>4 DEF scroll_screen, select_console
    <3>. QED  BY <3>1
  <2>. QED  BY <2>1, <2>2, <2>3, <2>4 DEF ScrNext
<1>2. ScrInv /\ [ScrNext]_scrVars => ScrInv'
  BY ScrStep
<1>. QED  BY ScrInitial, <1>1, <1>2, PTL DEF ScrSpec, OthersUntouched
=============================================================================
