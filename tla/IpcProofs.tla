----------------------------- MODULE IpcProofs -----------------------------
(***************************************************************************)
(* Ipc is correct for any number of processes: proofs of the invariants    *)
(* that MCIpc checks on four.                                              *)
(***************************************************************************)
EXTENDS Ipc, SequenceTheorems, FiniteSetTheorems, WellFoundedInduction, TLAPS

\* What unlinking does, index by index: the entries behind the unlinked one
\* move up (the pointer surgery of msg_receive and abort_ipc).
LEMMA WithoutIndices ==
    ASSUME NEW S, NEW q \in Seq(S), NEW x, Lists(q, x)
    PROVE  /\ Without(q, x) \in Seq(S)
           /\ Len(Without(q, x)) = Len(q) - 1
           /\ \E k \in 1..Len(q) :
                 /\ q[k] = x
                 /\ \A j \in 1..(Len(q) - 1) :
                       Without(q, x)[j] = IF j < k THEN q[j] ELSE q[j + 1]
<1> DEFINE k == CHOOSE i \in 1..Len(q) : q[i] = x
           a == SubSeq(q, 1, k - 1)
           b == SubSeq(q, k + 1, Len(q))
<1>1. k \in 1..Len(q) /\ q[k] = x
  BY DEF Lists
<1>2. Len(q) \in Nat /\ \A i \in 1..Len(q) : q[i] \in S
  OBVIOUS
<1> HIDE DEF k
<1>3. /\ a \in Seq(S) /\ Len(a) = k - 1
      /\ \A i \in 1..(k - 1) : a[i] = q[i]
  <2>1. 1 \in Int /\ k - 1 \in Int /\ \A i \in 1..(k - 1) : q[i] \in S
    BY <1>1, <1>2
  <2> QED
    BY <1>1, <2>1, SubSeqProperties
<1>4. /\ b \in Seq(S) /\ Len(b) = Len(q) - k
      /\ \A i \in 1..(Len(q) - k) : b[i] = q[k + i]
  <2>1. k + 1 \in Int /\ Len(q) \in Int /\ \A i \in (k + 1)..Len(q) : q[i] \in S
    BY <1>1, <1>2
  <2> QED
    BY <1>1, <1>2, <2>1, SubSeqProperties
<1>5. /\ a \o b \in Seq(S)
      /\ Len(a \o b) = Len(a) + Len(b)
      /\ \A i \in 1..(Len(a) + Len(b)) :
            (a \o b)[i] = IF i <= Len(a) THEN a[i] ELSE b[i - Len(a)]
  BY <1>3, <1>4, ConcatProperties
<1>6. Without(q, x) = a \o b
  BY DEF Without, RemoveAt, k
<1> HIDE DEF a, b
<1>7. ASSUME NEW j \in 1..(Len(q) - 1)
      PROVE  (a \o b)[j] = IF j < k THEN q[j] ELSE q[j + 1]
  <2>1. j \in 1..(Len(a) + Len(b))
    BY <1>1, <1>2, <1>3, <1>4
  <2>2. CASE j < k
    BY <1>1, <1>2, <1>3, <1>5, <2>1, <2>2
  <2>3. CASE ~(j < k)
    <3>1. (a \o b)[j] = b[j - (k - 1)]
      BY <1>1, <1>2, <1>3, <1>5, <2>1, <2>3
    <3>2. j - (k - 1) \in 1..(Len(q) - k) /\ k + (j - (k - 1)) = j + 1
      BY <1>1, <1>2, <2>3
    <3>3. b[j - (k - 1)] = q[k + (j - (k - 1))]
      BY <1>4, <3>2
    <3>4. (a \o b)[j] = q[j + 1]
      BY <3>1, <3>2, <3>3
    <3> QED
      BY <3>4, <2>3
  <2> QED
    BY <2>2, <2>3
<1>8. Len(a \o b) = Len(q) - 1
  BY <1>1, <1>2, <1>3, <1>4, <1>5
<1> QED
  BY <1>1, <1>5, <1>6, <1>7, <1>8

\* What unlinking does to the set of queued processes.
LEMMA WithoutMembers ==
    ASSUME NEW S, NEW q \in Seq(S), NEW x, Lists(q, x), NoRepeat(q)
    PROVE  /\ Without(q, x) \in Seq(S)
           /\ NoRepeat(Without(q, x))
           /\ \A y : Lists(Without(q, x), y) <=> y # x /\ Lists(q, y)
<1> DEFINE w == Without(q, x)
           Shift(k) == \A j \in 1..(Len(q) - 1) :
                          w[j] = IF j < k THEN q[j] ELSE q[j + 1]
<1>0. /\ w \in Seq(S)
      /\ Len(w) = Len(q) - 1
      /\ \E k \in 1..Len(q) : q[k] = x /\ Shift(k)
  BY WithoutIndices
<1>1. PICK k \in 1..Len(q) : q[k] = x /\ Shift(k)
  BY <1>0
<1>2. /\ Without(q, x) \in Seq(S)
      /\ Len(Without(q, x)) = Len(q) - 1
      /\ Len(q) \in Nat
  BY <1>0
<1>3. NoRepeat(Without(q, x))
  BY <1>1, <1>2 DEF NoRepeat
<1>4. ASSUME NEW y, Lists(Without(q, x), y)
      PROVE  y # x /\ Lists(q, y)
  BY <1>1, <1>2, <1>4 DEF Lists, NoRepeat
<1>5. ASSUME NEW y, y # x, Lists(q, y)
      PROVE  Lists(Without(q, x), y)
  <2>1. PICK i \in 1..Len(q) : q[i] = y
    BY <1>5 DEF Lists
  <2>2. CASE i < k
    BY <1>1, <1>2, <2>1, <2>2 DEF Lists
  <2>3. CASE i > k
    <3>1. i - 1 \in 1..(Len(q) - 1) /\ Without(q, x)[i - 1] = y
      BY <1>1, <1>2, <2>1, <2>3
    <3> QED
      BY <3>1, <1>2 DEF Lists
  <2> QED
    BY <1>1, <1>5, <2>1, <2>2, <2>3
<1> QED
  BY <1>2, <1>3, <1>4, <1>5

\* What appending does to the set of queued processes.
LEMMA AppendMembers ==
    ASSUME NEW S, NEW q \in Seq(S), NEW x \in S, ~Lists(q, x), NoRepeat(q)
    PROVE  /\ Append(q, x) \in Seq(S)
           /\ NoRepeat(Append(q, x))
           /\ \A y : Lists(Append(q, x), y) <=> y = x \/ Lists(q, y)
<1>1. /\ Append(q, x) \in Seq(S)
      /\ Len(Append(q, x)) = Len(q) + 1
      /\ \A i \in 1..Len(q) : Append(q, x)[i] = q[i]
      /\ Append(q, x)[Len(q) + 1] = x
      /\ Len(q) \in Nat
  BY AppendProperties
<1>2. NoRepeat(Append(q, x))
  BY <1>1 DEF NoRepeat, Lists
<1>3. \A y : Lists(Append(q, x), y) <=> y = x \/ Lists(q, y)
  BY <1>1 DEF Lists
<1> QED
  BY <1>1, <1>2, <1>3

-----------------------------------------------------------------------------
\* Consistent is inductive, its conjuncts are not.
LEMMA InitConsistent == Init => Consistent
<1> SUFFICES ASSUME Init PROVE Consistent
  OBVIOUS
<1> USE IpcAssumption DEF Init, Flags, Sources, Message, Sending, Receiving
<1>1. TypeOK
  <2>1. \A p \in Procs : p_flags[p] \in {{}, {"FREE_SLOT"}}
    OBVIOUS
  <2>2. p_flags \in [Procs -> SUBSET Flags]
    BY <2>1
  <2>3. q_sending \in [Procs -> Seq(Procs)]
    BY EmptySeq
  <2> QED
    BY <2>2, <2>3 DEF TypeOK
<1>2. CallFields
  BY DEF CallFields
<1>3. QueueIsSenders
  BY DEF QueueIsSenders, Lists, NoRepeat
<1> QED
  BY <1>1, <1>2, <1>3 DEF Consistent

LEMMA SendDeliversConsistent ==
    ASSUME Consistent, NEW p \in Procs, NEW dest \in Procs, NEW b \in Bodies,
           SendDelivers(p, dest, b)
    PROVE  Consistent'
<1> USE IpcAssumption
        DEF Consistent, SendDelivers, sys_sendrec, Runnable, Accepts, Sending,
            Receiving
<1>1. TypeOK'
  BY DEF TypeOK, Message
<1>2. CallFields'
  BY DEF TypeOK, CallFields
<1>3. QueueIsSenders'
  BY DEF TypeOK, QueueIsSenders
<1> QED
  BY <1>1, <1>2, <1>3

LEMMA SendBlocksConsistent ==
    ASSUME Consistent, NEW p \in Procs, NEW dest \in Procs, NEW b \in Bodies,
           SendBlocks(p, dest, b)
    PROVE  Consistent'
<1> USE IpcAssumption
        DEF Consistent, SendBlocks, sys_sendrec, Runnable, Sending, Receiving
<1>0. /\ ~Lists(q_sending[dest], p)
      /\ NoRepeat(q_sending[dest])
      /\ q_sending[dest] \in Seq(Procs)
  BY DEF TypeOK, QueueIsSenders
<1>1. /\ Append(q_sending[dest], p) \in Seq(Procs)
      /\ NoRepeat(Append(q_sending[dest], p))
      /\ \A y : Lists(Append(q_sending[dest], p), y)
                  <=> y = p \/ Lists(q_sending[dest], y)
  BY <1>0, AppendMembers
<1>2. TypeOK'
  BY <1>1 DEF TypeOK, Message, Flags
<1>3. CallFields'
  BY DEF TypeOK, CallFields
<1>4. QueueIsSenders'
  BY <1>1 DEF TypeOK, QueueIsSenders
<1> QED
  BY <1>2, <1>3, <1>4

LEMMA ReceiveIntConsistent ==
    ASSUME Consistent, NEW p \in Procs, NEW src \in Sources, ReceiveInt(p, src)
    PROVE  Consistent'
<1> USE DEF Consistent, ReceiveInt, Sending, Receiving
<1>1. TypeOK'
  BY DEF TypeOK, IntMsg, Message
<1>2. CallFields'
  BY DEF CallFields
<1>3. QueueIsSenders'
  BY DEF QueueIsSenders
<1> QED
  BY <1>1, <1>2, <1>3

LEMMA ReceiveFromConsistent ==
    ASSUME Consistent, NEW p \in Procs, NEW src \in Sources,
           NEW from \in Procs, ReceiveFrom(p, src, from)
    PROVE  Consistent'
<1> USE IpcAssumption
        DEF Consistent, ReceiveFrom, sys_sendrec, Runnable, Sending, Receiving
<1>1. Lists(q_sending[p], from)
  <2>1. CASE src = ANY
    BY <2>1 DEF Offers, Lists, TypeOK
  <2>2. CASE src # ANY
    BY <2>2 DEF Offers, QueueIsSenders
  <2> QED
    BY <2>1, <2>2
<1>2. Sending(from) /\ p_sendto[from] = p
  BY <1>1 DEF QueueIsSenders
<1>3. /\ Without(q_sending[p], from) \in Seq(Procs)
      /\ NoRepeat(Without(q_sending[p], from))
      /\ \A y : Lists(Without(q_sending[p], from), y)
                  <=> y # from /\ Lists(q_sending[p], y)
  <2>1. q_sending[p] \in Seq(Procs) /\ NoRepeat(q_sending[p])
    BY DEF TypeOK, QueueIsSenders
  <2> QED
    BY <1>1, <2>1, WithoutMembers
<1>4. TypeOK'
  BY <1>3 DEF TypeOK
<1>5. CallFields'
  BY <1>2 DEF TypeOK, CallFields
<1>6. QueueIsSenders'
  BY <1>2, <1>3 DEF TypeOK, CallFields, QueueIsSenders
<1> QED
  BY <1>4, <1>5, <1>6

LEMMA ReceiveBlocksConsistent ==
    ASSUME Consistent, NEW p \in Procs, NEW src \in Sources,
           ReceiveBlocks(p, src)
    PROVE  Consistent'
<1> USE IpcAssumption
        DEF Consistent, ReceiveBlocks, sys_sendrec, Runnable, Sending, Receiving
<1>1. TypeOK'
  BY DEF TypeOK, Message, Flags
<1>2. CallFields'
  BY DEF TypeOK, CallFields, Sources
<1>3. QueueIsSenders'
  BY DEF TypeOK, QueueIsSenders
<1> QED
  BY <1>1, <1>2, <1>3

LEMMA InformConsistent ==
    ASSUME Consistent, NEW t \in IntTasks, inform_int(t)
    PROVE  Consistent'
<1> USE IpcAssumption DEF Consistent, Sending, Receiving
<1>1. CASE InformWakes(t)
  <2> USE <1>1 DEF InformWakes, AcceptsInt
  <2>1. TypeOK'
    BY DEF TypeOK, IntMsg, Message
  <2>2. CallFields'
    BY DEF TypeOK, CallFields
  <2>3. QueueIsSenders'
    BY DEF TypeOK, QueueIsSenders
  <2> QED
    BY <2>1, <2>2, <2>3
<1>2. CASE InformLatches(t)
  BY <1>2 DEF InformLatches, TypeOK, CallFields, QueueIsSenders
<1> QED
  BY <1>1, <1>2 DEF inform_int

\* Under the queue invariant, abort_ipc's walk along the queue and its sweep
\* over proc_table find the same senders.
LEMMA AbortedSendersAreQueued ==
    ASSUME Consistent, NEW target \in Procs
    PROVE  /\ AbortedSenders(target)
                = {p \in Procs : Sending(p) /\ p_sendto[p] = target}
           /\ target \notin AbortedSenders(target)
<1>1. ToSet(q_sending[target])
         = {p \in Procs : Sending(p) /\ p_sendto[p] = target}
  <2>1. /\ q_sending[target] \in Seq(Procs)
        /\ DOMAIN q_sending[target] = 1..Len(q_sending[target])
    BY DEF Consistent, TypeOK
  <2>2. \A p : p \in ToSet(q_sending[target]) <=> Lists(q_sending[target], p)
    BY <2>1 DEF ToSet, Lists
  <2>3. \A p : Lists(q_sending[target], p) => p \in Procs
    BY <2>1 DEF Lists
  <2> QED
    BY <2>2, <2>3 DEF Consistent, QueueIsSenders
<1> QED
  BY <1>1 DEF AbortedSenders, Consistent, CallFields

LEMMA AbortConsistent ==
    ASSUME Consistent, NEW target \in Procs \ Native, abort_ipc(target)
    PROVE  Consistent'
<1> USE IpcAssumption
<1> DEFINE senders == {p \in Procs : Sending(p) /\ p_sendto[p] = target}
<1>1. AbortedSenders(target) = senders /\ target \notin senders
  BY AbortedSendersAreQueued
<1>2. ASSUME NEW p \in Procs
      PROVE  /\ p \in senders => p_flags[p] = {"SENDING"}
             /\ p \in AbortedReceivers(target) => p_flags[p] = {"RECEIVING"}
  BY DEF Consistent, CallFields, AbortedReceivers
<1>3. \A p \in Procs :
         p_flags'[p] = IF p = target THEN {"RECEIVING"}
                       ELSE IF p \in senders \cup AbortedReceivers(target) THEN {}
                       ELSE p_flags[p]
  BY <1>1, <1>2 DEF abort_ipc
<1>4. ASSUME Sending(target)
      PROVE  LET q == q_sending[p_sendto[target]]
             IN  /\ p_sendto[target] \in Procs \ {target}
                 /\ Without(q, target) \in Seq(Procs)
                 /\ NoRepeat(Without(q, target))
                 /\ \A y : Lists(Without(q, target), y) <=> y # target /\ Lists(q, y)
  <2>1. /\ p_sendto[target] \in Procs \ {target}
        /\ q_sending[p_sendto[target]] \in Seq(Procs)
        /\ Lists(q_sending[p_sendto[target]], target)
        /\ NoRepeat(q_sending[p_sendto[target]])
    BY <1>4 DEF Consistent, TypeOK, CallFields, QueueIsSenders
  <2> QED
    BY <2>1, WithoutMembers
<1>5. TypeOK'
  <2>1. p_flags' \in [Procs -> SUBSET Flags]
    BY <1>1, <1>2 DEF abort_ipc, Consistent, TypeOK, Flags
  <2>2. q_sending' \in [Procs -> Seq(Procs)]
    BY <1>4, EmptySeq DEF abort_ipc, Consistent, TypeOK
  <2>3. buf' \in [Procs -> Message]
    BY DEF abort_ipc, Consistent, TypeOK, Message
  <2> QED
    BY <2>1, <2>2, <2>3 DEF abort_ipc, Consistent, TypeOK, Sources
<1>6. CallFields'
  BY <1>1, <1>2, <1>3
     DEF abort_ipc, Consistent, TypeOK, CallFields, Sending, Receiving,
         AbortedReceivers
<1>7. QueueIsSenders'
  <2> SUFFICES ASSUME NEW d \in Procs
               PROVE  /\ NoRepeat(q_sending'[d])
                      /\ \A p \in Procs : Lists(q_sending'[d], p)
                            <=> Sending(p)' /\ p_sendto'[p] = d
    BY DEF QueueIsSenders
  <2>1. CASE d = target
    BY <1>1, <1>3, <2>1 DEF abort_ipc, Lists, NoRepeat, Sending
  <2>2. CASE d # target /\ Sending(target) /\ p_sendto[target] = d
    BY <1>1, <1>3, <1>4, <2>2
       DEF abort_ipc, Consistent, QueueIsSenders, Sending
  <2>3. CASE d # target /\ ~(Sending(target) /\ p_sendto[target] = d)
    BY <1>1, <1>3, <2>3
       DEF abort_ipc, Consistent, CallFields, QueueIsSenders, Sending,
           Receiving, AbortedReceivers
  <2> QED
    BY <2>1, <2>2, <2>3
<1> QED
  BY <1>5, <1>6, <1>7 DEF Consistent

LEMMA NextConsistent == Consistent /\ [Next]_vars => Consistent'
<1> SUFFICES ASSUME Consistent, [Next]_vars PROVE Consistent'
  OBVIOUS
<1>1. CASE \E p, dest \in Procs, b \in Bodies : msg_send(p, dest, b)
  <2>1. ASSUME NEW p \in Procs, NEW dest \in Procs, SendPanics(p, dest)
        PROVE  Consistent'
    BY <2>1 DEF SendPanics, Consistent, TypeOK, CallFields, QueueIsSenders,
                Sending, Receiving
  <2> QED
    BY <1>1, <2>1, SendDeliversConsistent, SendBlocksConsistent DEF msg_send
<1>2. CASE \E p \in Procs, src \in Sources : msg_receive(p, src)
  BY <1>2, ReceiveIntConsistent, ReceiveFromConsistent, ReceiveBlocksConsistent
     DEF msg_receive
<1>3. CASE \E t \in IntTasks : inform_int(t)
  BY <1>3, InformConsistent
<1>4. CASE \E target \in Procs \ Native : abort_ipc(target)
  BY <1>4, AbortConsistent
<1>5. CASE UNCHANGED vars
  BY <1>5 DEF vars, Consistent, TypeOK, CallFields, QueueIsSenders, Sending,
              Receiving
<1> QED
  BY <1>1, <1>2, <1>3, <1>4, <1>5 DEF Next

\* In every reachable state each field has its type, a process is blocked for
\* at most one reason with p_msg, p_sendto and p_recvfrom set exactly while it
\* is (so the kernel's assertions about them hold), and every sending queue
\* holds exactly the processes blocked sending to its owner, once each.
THEOREM ConsistentAlways == Spec => []Consistent
BY InitConsistent, NextConsistent, PTL DEF Spec

-----------------------------------------------------------------------------
LEMMA NextNoMissed ==
    ASSUME Consistent, NoMissedRendezvous, [Next]_vars
    PROVE  NoMissedRendezvous'
<1> USE IpcAssumption
        DEF NoMissedRendezvous, Accepts, AcceptsInt, Sending, Receiving
<1> USE DEF Consistent, TypeOK, CallFields
<1>1. ASSUME NEW p \in Procs, NEW dest \in Procs, NEW b \in Bodies,
             msg_send(p, dest, b)
      PROVE  NoMissedRendezvous'
  <2>1. CASE SendDelivers(p, dest, b)
    BY <2>1 DEF SendDelivers, sys_sendrec, Runnable
  <2>2. CASE SendBlocks(p, dest, b)
    BY <2>2 DEF SendBlocks, sys_sendrec, Runnable
  <2>3. CASE SendPanics(p, dest)
    BY <2>3 DEF SendPanics
  <2> QED
    BY <1>1, <2>1, <2>2, <2>3 DEF msg_send
<1>2. ASSUME NEW p \in Procs, NEW src \in Sources, msg_receive(p, src)
      PROVE  NoMissedRendezvous'
  <2>1. CASE ReceiveInt(p, src)
    BY <2>1 DEF ReceiveInt, sys_sendrec, Runnable
  <2>2. ASSUME NEW from \in Procs, ReceiveFrom(p, src, from)
        PROVE  NoMissedRendezvous'
    BY <2>2 DEF ReceiveFrom, sys_sendrec, Runnable
  <2>3. CASE ReceiveBlocks(p, src)
    <3>1. ASSUME NEW s \in Procs, Sending(s), p_sendto[s] = p
          PROVE  src \notin {s, ANY}
      <4>1. Lists(q_sending[p], s)
        BY <3>1 DEF QueueIsSenders
      <4>2. q_sending[p] # <<>> /\ Head(q_sending[p]) \in Procs
        BY <4>1 DEF Lists
      <4> QED
        BY <2>3, <3>1, <4>2 DEF ReceiveBlocks, Offers
    <3>2. has_int_msg[p] => src \notin {ANY, INTERRUPT}
      BY <2>3 DEF ReceiveBlocks, IntReady
    <3>3. \A s \in Procs : Sending(s)' => ~Accepts(p_sendto[s], s)'
      BY <2>3, <3>1 DEF ReceiveBlocks, sys_sendrec, Runnable
    <3>4. \A t \in Procs : has_int_msg'[t] => ~AcceptsInt(t)'
      BY <2>3, <3>2 DEF ReceiveBlocks, sys_sendrec, Runnable
    <3> QED
      BY <3>3, <3>4
  <2> QED
    BY <1>2, <2>1, <2>2, <2>3 DEF msg_receive
<1>3. ASSUME NEW t \in IntTasks, inform_int(t)
      PROVE  NoMissedRendezvous'
  <2>1. t \in Procs
    OBVIOUS
  <2>2. CASE InformWakes(t)
    BY <2>1, <2>2 DEF InformWakes
  <2>3. CASE InformLatches(t)
    BY <2>1, <2>3 DEF InformLatches
  <2> QED
    BY <1>3, <2>2, <2>3 DEF inform_int
<1>4. ASSUME NEW target \in Procs \ Native, abort_ipc(target)
      PROVE  NoMissedRendezvous'
  <2>1. \A p \in Procs : Sending(p)' =>
           /\ Sending(p)
           /\ p # target
           /\ p_sendto'[p] = p_sendto[p]
    BY <1>4 DEF abort_ipc
  <2>2. \A p \in Procs : Receiving(p)' =>
           \/ p = target /\ p_recvfrom'[p] = NO_TASK
           \/ Receiving(p) /\ p_recvfrom'[p] \in {p_recvfrom[p], NO_TASK}
    BY <1>4 DEF abort_ipc
  <2>3. \A p \in Procs : has_int_msg'[p] => has_int_msg[p]
    BY <1>4 DEF abort_ipc
  <2>4. ASSUME NEW s \in Procs, Sending(s)'
        PROVE  ~Accepts(p_sendto[s], s)'
    <3>1. Sending(s) /\ p_sendto'[s] = p_sendto[s] /\ p_sendto[s] \in Procs
      BY <2>1, <2>4
    <3>2. ~(Receiving(p_sendto[s]) /\ p_recvfrom[p_sendto[s]] \in {s, ANY})
      BY <3>1
    <3> QED
      BY <2>2, <3>1, <3>2
  <2>5. ASSUME NEW t \in Procs, has_int_msg'[t]
        PROVE  ~AcceptsInt(t)'
    BY <2>2, <2>3, <2>5
  <2>6. \A s \in Procs : Sending(s)' => ~Accepts(p_sendto[s], s)'
    BY ONLY <2>4
  <2>7. \A t \in Procs : has_int_msg'[t] => ~AcceptsInt(t)'
    BY ONLY <2>5
  <2> QED
    BY <2>6, <2>7
<1>5. CASE UNCHANGED vars
  BY <1>5 DEF vars
<1> QED
  BY <1>1, <1>2, <1>3, <1>4, <1>5 DEF Next

\* No wake-up is lost at the level of whole kernel calls: a blocked sender and
\* a blocked receiver never fit each other, and a task blocked for an
\* interrupt has none waiting.
THEOREM NeverMissed == Spec => []NoMissedRendezvous
<1>1. Init => NoMissedRendezvous
  BY DEF Init, NoMissedRendezvous, Accepts, AcceptsInt, Sending, Receiving
<1>2. Consistent /\ NoMissedRendezvous /\ [Next]_vars => NoMissedRendezvous'
  BY NextNoMissed
<1> QED
  BY <1>1, <1>2, InitConsistent, NextConsistent, PTL DEF Spec

-----------------------------------------------------------------------------
\* Every step but a blocking send only takes edges out of the graph of
\* blocked senders.
LEMMA FewerSenders ==
    ASSUME Consistent, [Next]_vars,
           ~ \E p, dest \in Procs, b \in Bodies : SendBlocks(p, dest, b)
    PROVE  \A p \in Procs :
              Sending(p)' => Sending(p) /\ p_sendto'[p] = p_sendto[p]
<1> USE IpcAssumption DEF Sending
<1> DEFINE Fewer(x) == Sending(x)' => Sending(x) /\ p_sendto'[x] = p_sendto[x]
<1>0. /\ p_flags \in [Procs -> SUBSET Flags]
      /\ p_sendto \in [Procs -> Procs \cup {NO_TASK}]
  BY DEF Consistent, TypeOK
<1> SUFFICES ASSUME NEW x \in Procs PROVE Fewer(x)
  OBVIOUS
<1>1. ASSUME NEW p \in Procs, NEW dest \in Procs, NEW b \in Bodies,
             msg_send(p, dest, b)
      PROVE  Fewer(x)
  BY <1>0, <1>1 DEF msg_send, SendDelivers, SendPanics
<1>2. ASSUME NEW p \in Procs, NEW src \in Sources, msg_receive(p, src)
      PROVE  Fewer(x)
  <2>1. CASE ReceiveInt(p, src)
    BY <2>1 DEF ReceiveInt
  <2>2. ASSUME NEW from \in Procs, ReceiveFrom(p, src, from)
        PROVE  Fewer(x)
    BY <1>0, <2>2 DEF ReceiveFrom
  <2>3. CASE ReceiveBlocks(p, src)
    BY <1>0, <2>3 DEF ReceiveBlocks
  <2> QED
    BY <1>2, <2>1, <2>2, <2>3 DEF msg_receive
<1>3. ASSUME NEW t \in IntTasks, inform_int(t)
      PROVE  Fewer(x)
  BY <1>0, <1>3 DEF inform_int, InformWakes, InformLatches
<1>4. ASSUME NEW target \in Procs \ Native, abort_ipc(target)
      PROVE  Fewer(x)
  <2>1. AbortedSenders(target)
           = {p \in Procs : Sending(p) /\ p_sendto[p] = target}
    BY AbortedSendersAreQueued
  <2>2. CASE x \in AbortedSenders(target) \cup {target}
    <3>1. "SENDING" \notin p_flags'[x]
      BY <1>0, <1>4, <2>2 DEF abort_ipc
    <3> QED
      BY <3>1
  <2>3. CASE x \notin AbortedSenders(target) \cup {target}
    <3>1. p_sendto'[x] = p_sendto[x] /\ p_flags'[x] \subseteq p_flags[x]
      BY <1>0, <1>4, <2>3 DEF abort_ipc
    <3> QED
      BY <3>1
  <2> QED
    BY <2>2, <2>3
<1>5. CASE UNCHANGED vars
  BY <1>5 DEF vars
<1> QED
  BY <1>1, <1>2, <1>3, <1>4, <1>5 DEF Next

\* The one step that adds an edge is guarded by deadlock(): were there a cycle
\* through the new edge, the part of it that deadlock()'s witness set contains
\* would have been a cycle before.
LEMMA SendBlocksNoCycle ==
    ASSUME Consistent, NoWaitCycle, NEW p \in Procs, NEW dest \in Procs,
           NEW b \in Bodies, SendBlocks(p, dest, b)
    PROVE  NoWaitCycle'
<1> SUFFICES ASSUME NEW S \in SUBSET Procs, S # {},
                    \A x \in S : Sending(x)' /\ p_sendto'[x] \in S
             PROVE  FALSE
  BY DEF NoWaitCycle
<1>1. /\ p_sendto'[p] = dest
      /\ \A x \in Procs \ {p} : /\ Sending(x)' <=> Sending(x)
                               /\ p_sendto'[x] = p_sendto[x]
  BY DEF SendBlocks, Consistent, TypeOK, Sending
<1>2. PICK T \in SUBSET Procs :
         /\ dest \in T
         /\ \A x \in T : Sending(x) => p_sendto[x] \in T
         /\ p \notin T
  BY DEF SendBlocks, deadlock
<1>3. CASE p \notin S
  BY <1>1, <1>3 DEF NoWaitCycle
<1>4. CASE p \in S
  <2>1. dest \in S \cap T
    BY <1>1, <1>2, <1>4
  <2>2. \A x \in S \cap T : Sending(x) /\ p_sendto[x] \in S \cap T
    BY <1>1, <1>2
  <2>3. S \cap T \in SUBSET Procs /\ S \cap T # {}
    BY <2>1
  <2> QED
    BY <2>2, <2>3 DEF NoWaitCycle
<1> QED
  BY <1>3, <1>4

\* The check deadlock() is enough: senders blocked on each other never form a
\* cycle, so every chain of blocked senders ends at a process that is not
\* blocked sending.
THEOREM NeverAWaitCycle == Spec => []NoWaitCycle
<1>1. Init => NoWaitCycle
  BY DEF Init, NoWaitCycle, Sending
<1>2. Consistent /\ NoWaitCycle /\ [Next]_vars => NoWaitCycle'
  <2> SUFFICES ASSUME Consistent, NoWaitCycle, [Next]_vars PROVE NoWaitCycle'
    OBVIOUS
  <2>1. CASE \E p, dest \in Procs, b \in Bodies : SendBlocks(p, dest, b)
    BY <2>1, SendBlocksNoCycle
  <2>2. CASE ~ \E p, dest \in Procs, b \in Bodies : SendBlocks(p, dest, b)
    <3>1. \A p \in Procs :
             Sending(p)' => Sending(p) /\ p_sendto'[p] = p_sendto[p]
      BY <2>2, FewerSenders
    <3> QED
      BY <3>1 DEF NoWaitCycle
  <2> QED
    BY <2>1, <2>2
<1> QED
  BY <1>1, <1>2, InitConsistent, NextConsistent, PTL DEF Spec

-----------------------------------------------------------------------------
\* In every step, a process blocked sending that is not any longer has handed
\* its message over, or was aborted, or its receiver was.
LEMMA StepDelivers ==
    ASSUME Consistent, [Next]_vars, NEW x \in Procs, NEW d \in Procs,
           Sending(x), p_sendto[x] = d, ~Sending(x)'
    PROVE  buf'[d] = buf[x] \/ Dead(x)' \/ Dead(d)'
<1> USE DEF Sending
<1>0. /\ p_flags \in [Procs -> SUBSET Flags] /\ buf \in [Procs -> Message]
      /\ p_recvfrom \in [Procs -> Sources \cup {NO_TASK}]
  BY DEF Consistent, TypeOK
<1>1. ASSUME NEW p \in Procs, NEW dest \in Procs, NEW b \in Bodies,
             msg_send(p, dest, b)
      PROVE  FALSE
  BY <1>0, <1>1 DEF msg_send, SendDelivers, SendBlocks, SendPanics
<1>2. ASSUME NEW p \in Procs, NEW src \in Sources, msg_receive(p, src)
      PROVE  buf'[d] = buf[x]
  <2>1. CASE ReceiveInt(p, src)
    BY <2>1 DEF ReceiveInt
  <2>2. CASE ReceiveBlocks(p, src)
    BY <1>0, <2>2 DEF ReceiveBlocks
  <2>3. ASSUME NEW from \in Procs, ReceiveFrom(p, src, from)
        PROVE  buf'[d] = buf[x]
    <3>1. x = from
      BY <1>0, <2>3 DEF ReceiveFrom
    <3>2. p_sendto[from] = p
      <4>1. CASE src = ANY
        <5>1. Lists(q_sending[p], from)
          BY <2>3, <4>1 DEF ReceiveFrom, Offers, Lists, Consistent, TypeOK
        <5> QED
          BY <5>1 DEF Consistent, QueueIsSenders
      <4>2. CASE src # ANY
        BY <2>3, <4>2 DEF ReceiveFrom, Offers
      <4> QED
        BY <4>1, <4>2
    <3> QED
      BY <1>0, <2>3, <3>1, <3>2 DEF ReceiveFrom
  <2> QED
    BY <1>2, <2>1, <2>2, <2>3 DEF msg_receive
<1>3. ASSUME NEW t \in IntTasks, inform_int(t)
      PROVE  FALSE
  BY <1>0, <1>3, IpcAssumption DEF inform_int, InformWakes, InformLatches
<1>4. ASSUME NEW target \in Procs \ Native, abort_ipc(target)
      PROVE  Dead(x)' \/ Dead(d)'
  <2>1. target \in Procs
    OBVIOUS
  <2>2. Dead(target)'
    BY <1>4, <2>1 DEF abort_ipc, Dead, Receiving
  <2>3. CASE x = target
    BY <2>2, <2>3
  <2>4. CASE x # target
    <3>1. x \in AbortedSenders(target)
      BY <1>0, <1>4, <2>4 DEF abort_ipc
    <3>2. d = target
      BY <2>1, <3>1, AbortedSendersAreQueued
    <3> QED
      BY <2>2, <3>2
  <2> QED
    BY <2>3, <2>4
<1>5. CASE UNCHANGED vars
  BY <1>5 DEF vars
<1> QED
  BY <1>1, <1>2, <1>3, <1>4, <1>5 DEF Next

\* No message is lost or delivered late: a process leaves a blocked send in the
\* very step that copies its message into the receiver's buffer, or in an
\* abort_ipc of itself or of the receiver.
THEOREM SentIsDelivered == Spec => SentMeansDelivered
<1>1. Consistent /\ [Next]_vars
          => [\A p, d \in Procs : DeliveredOrAborted(p, d)]_vars
  BY StepDelivers DEF DeliveredOrAborted
<1> QED
  BY <1>1, InitConsistent, NextConsistent, PTL DEF Spec, SentMeansDelivered

\* In every step, a process blocked receiving that is not any longer holds
\* what it waited for, or the error answer for an aborted party.
LEMMA StepAnswers ==
    ASSUME Consistent, [Next]_vars, NEW x \in Procs,
           NEW s \in Sources \cup {NO_TASK},
           Receiving(x), p_recvfrom[x] = s, ~Receiving(x)'
    PROVE  AnsweredOrAborted(x, s)
<1> USE DEF Receiving
<1>0. /\ p_flags \in [Procs -> SUBSET Flags] /\ buf \in [Procs -> Message]
      /\ p_recvfrom \in [Procs -> Sources \cup {NO_TASK}]
  BY DEF Consistent, TypeOK
<1>1. ASSUME NEW p \in Procs, NEW dest \in Procs, NEW b \in Bodies,
             msg_send(p, dest, b)
      PROVE  AnsweredOrAborted(x, s)
  <2>1. CASE SendDelivers(p, dest, b)
    <3>1. x = dest /\ p # dest /\ s \in {p, ANY}
      BY <1>0, <2>1 DEF SendDelivers, sys_sendrec, Accepts
    <3>2. buf'[x].source = p
      BY <1>0, <2>1, <3>1 DEF SendDelivers
    <3> QED
      BY <3>1, <3>2 DEF AnsweredOrAborted
  <2>2. CASE SendBlocks(p, dest, b)
    BY <1>0, <2>2 DEF SendBlocks
  <2>3. CASE SendPanics(p, dest)
    BY <2>3 DEF SendPanics
  <2> QED
    BY <1>1, <2>1, <2>2, <2>3 DEF msg_send
<1>2. ASSUME NEW p \in Procs, NEW src \in Sources, msg_receive(p, src)
      PROVE  FALSE
  <2>1. ASSUME NEW from \in Procs, ReceiveFrom(p, src, from)
        PROVE  FALSE
    BY <1>0, <2>1 DEF ReceiveFrom
  <2> QED
    BY <1>0, <1>2, <2>1 DEF msg_receive, ReceiveInt, ReceiveBlocks
<1>3. ASSUME NEW t \in IntTasks, inform_int(t)
      PROVE  AnsweredOrAborted(x, s)
  <2>1. InformWakes(t) /\ x = t
    BY <1>0, <1>3 DEF inform_int, InformWakes, InformLatches
  <2>2. s \in {INTERRUPT, ANY} /\ buf'[x].source = INTERRUPT
    BY <1>0, <2>1 DEF InformWakes, AcceptsInt, IntMsg
  <2>3. INTERRUPT # x
    BY IpcAssumption
  <2> QED
    BY <2>2, <2>3 DEF AnsweredOrAborted
<1>4. ASSUME NEW target \in Procs \ Native, abort_ipc(target)
      PROVE  AnsweredOrAborted(x, s)
  <2>1. target \in Procs /\ x # target
    BY <1>0, <1>4 DEF abort_ipc
  <2>2. Dead(target)'
    BY <1>4, <2>1 DEF abort_ipc, Dead
  <2>3. x \in AbortedReceivers(target)
    BY <1>0, <1>4, <2>1 DEF abort_ipc
  <2>4. s = target
    BY <2>3 DEF AbortedReceivers
  <2>5. buf'[x].body = SYSCALL_RET
    BY <1>0, <1>4, <2>3 DEF abort_ipc, Message
  <2> QED
    BY <2>1, <2>2, <2>4, <2>5 DEF AnsweredOrAborted
<1>5. CASE UNCHANGED vars
  BY <1>5 DEF vars
<1> QED
  BY <1>1, <1>2, <1>3, <1>4, <1>5 DEF Next

\* A blocked receive ends only with a message from the party it names (any
\* party for ANY) or, when that party is aborted, with SYSCALL_RET; what
\* abort_ipc has parked never runs again.
THEOREM WokenIsAnswered == Spec => WokenByWhatItAwaits
<1>1. Consistent /\ [Next]_vars
          => [\A p \in Procs, src \in Sources \cup {NO_TASK} :
                 AnsweredOrAborted(p, src)]_vars
  BY StepAnswers DEF AnsweredOrAborted
<1> QED
  BY <1>1, InitConsistent, NextConsistent, PTL DEF Spec, WokenByWhatItAwaits

-----------------------------------------------------------------------------
(* What a call does, for those who build on it                             *)

\* The message b of p has reached d, which waited for it.
Delivered(p, d, b) ==
    /\ Accepts(d, p) /\ ~panicked'
    /\ UNCHANGED p_sendto
    /\ \A x \in Procs :
          /\ Sending(x)' <=> Sending(x)
          /\ Receiving(x)' <=> Receiving(x) /\ x # d
          /\ x # d => p_recvfrom'[x] = p_recvfrom[x]
          /\ buf'[x] = IF x \in {p, d} THEN [source |-> p, body |-> b] ELSE buf[x]

\* p waits until d takes its message b.
Queued(p, d, b) ==
    /\ ~Accepts(d, p) /\ ~panicked'
    /\ UNCHANGED p_recvfrom
    /\ \A x \in Procs :
          /\ Sending(x)' <=> Sending(x) \/ x = p
          /\ Receiving(x)' <=> Receiving(x)
          /\ p_sendto'[x] = IF x = p THEN d ELSE p_sendto[x]
          /\ buf'[x] = IF x = p THEN [source |-> p, body |-> b] ELSE buf[x]

LEMMA SendEffect ==
    ASSUME Consistent, NEW p \in Procs, NEW d \in Procs, NEW b \in Bodies,
           msg_send(p, d, b)
    PROVE  /\ Consistent' /\ ~panicked /\ UNCHANGED has_int_msg
           /\ ~Sending(p) /\ ~Receiving(p) /\ p # d
           /\ \/ Delivered(p, d, b) \/ Queued(p, d, b)
              \/ /\ panicked'
                 /\ UNCHANGED <<p_flags, p_recvfrom, p_sendto, buf>>
<1>1. Consistent'
  BY NextConsistent DEF Next
<1>2. sys_sendrec(p, d)
  BY DEF msg_send, SendDelivers, SendBlocks, SendPanics
<1>3. ~panicked /\ ~Sending(p) /\ ~Receiving(p) /\ p # d
  BY <1>2 DEF sys_sendrec, Runnable, Sending, Receiving
<1>4. UNCHANGED has_int_msg
  BY DEF msg_send, SendDelivers, SendBlocks, SendPanics
<1>5. TypeOK
  BY DEF Consistent
<1>6. CASE SendDelivers(p, d, b)
  <2>1. Accepts(d, p) /\ ~panicked' /\ UNCHANGED p_sendto
    BY <1>3, <1>6 DEF SendDelivers
  <2>2. ASSUME NEW x \in Procs
        PROVE  /\ Sending(x)' <=> Sending(x)
               /\ Receiving(x)' <=> Receiving(x) /\ x # d
               /\ x # d => p_recvfrom'[x] = p_recvfrom[x]
               /\ buf'[x] = IF x \in {p, d} THEN [source |-> p, body |-> b] ELSE buf[x]
    BY <1>5, <1>6 DEF SendDelivers, TypeOK, Sending, Receiving
  <2>. QED  BY <1>1, <1>3, <1>4, <2>1, <2>2 DEF Delivered
<1>7. CASE SendBlocks(p, d, b)
  <2>1. ~Accepts(d, p) /\ ~panicked' /\ UNCHANGED p_recvfrom
    BY <1>3, <1>7 DEF SendBlocks
  <2>2. ASSUME NEW x \in Procs
        PROVE  /\ Sending(x)' <=> Sending(x) \/ x = p
               /\ Receiving(x)' <=> Receiving(x)
               /\ p_sendto'[x] = IF x = p THEN d ELSE p_sendto[x]
               /\ buf'[x] = IF x = p THEN [source |-> p, body |-> b] ELSE buf[x]
    BY <1>5, <1>7 DEF SendBlocks, TypeOK, Sending, Receiving
  <2>. QED  BY <1>1, <1>3, <1>4, <2>1, <2>2 DEF Queued
<1>8. CASE SendPanics(p, d)
  BY <1>1, <1>3, <1>4, <1>8 DEF SendPanics
<1>. QED  BY <1>6, <1>7, <1>8 DEF msg_send

\* p has taken a latched interrupt.
TookInt(p, src) ==
    /\ has_int_msg[p] /\ src \in {ANY, INTERRUPT}
    /\ UNCHANGED <<p_flags, p_recvfrom, p_sendto>>
    /\ \A x \in Procs :
          /\ has_int_msg'[x] <=> has_int_msg[x] /\ x # p
          /\ buf'[x] = IF x = p THEN IntMsg ELSE buf[x]

\* p has taken the message of `from', which runs on.
Took(p, src, from) ==
    /\ Sending(from) /\ p_sendto[from] = p /\ src \in {ANY, from}
    /\ UNCHANGED <<p_recvfrom, has_int_msg>>
    /\ \A x \in Procs :
          /\ Sending(x)' <=> Sending(x) /\ x # from
          /\ Receiving(x)' <=> Receiving(x)
          /\ x # from => p_sendto'[x] = p_sendto[x]
          /\ buf'[x] = IF x = p THEN buf[from] ELSE buf[x]

\* p waits for a message.
Waits(p, src) ==
    /\ UNCHANGED <<p_sendto, has_int_msg>>
    /\ \A from \in Procs :
          src \in {ANY, from} => ~(Sending(from) /\ p_sendto[from] = p)
    /\ \A x \in Procs :
          /\ Sending(x)' <=> Sending(x)
          /\ Receiving(x)' <=> Receiving(x) \/ x = p
          /\ p_recvfrom'[x] = IF x = p THEN src ELSE p_recvfrom[x]
          /\ buf'[x] = IF x = p THEN [source |-> p, body |-> EMPTY] ELSE buf[x]

LEMMA ReceiveEffect ==
    ASSUME Consistent, NEW p \in Procs, NEW src \in Sources, msg_receive(p, src)
    PROVE  /\ Consistent' /\ ~panicked /\ ~panicked'
           /\ ~Sending(p) /\ ~Receiving(p) /\ p # src
           /\ \/ TookInt(p, src) \/ Waits(p, src)
              \/ \E from \in Procs : from # p /\ Took(p, src, from)
<1>1. Consistent'
  BY NextConsistent DEF Next
<1>2. sys_sendrec(p, src)
  BY DEF msg_receive, ReceiveInt, ReceiveFrom, ReceiveBlocks
<1>3. ~panicked /\ ~Sending(p) /\ ~Receiving(p) /\ p # src /\ ~panicked'
  BY <1>2 DEF sys_sendrec, Runnable, Sending, Receiving, msg_receive,
              ReceiveInt, ReceiveFrom, ReceiveBlocks
<1>4. TypeOK
  BY DEF Consistent
<1>5. ASSUME NEW from \in Procs
      PROVE  Offers(p, src, from)
                => Sending(from) /\ p_sendto[from] = p /\ src \in {ANY, from}
  <2>1. CASE src = ANY
    <3>1. q_sending[p] \in Seq(Procs)
      BY <1>4 DEF TypeOK
    <3>2. Offers(p, src, from) => Lists(q_sending[p], from)
      BY <2>1, <3>1 DEF Offers, Lists
    <3>. QED  BY <2>1, <3>2 DEF Consistent, QueueIsSenders
  <2>2. CASE src # ANY
    BY <2>2 DEF Offers
  <2>. QED  BY <2>1, <2>2
<1>6. CASE ReceiveInt(p, src)
  <2>1. ASSUME NEW x \in Procs
        PROVE  /\ has_int_msg'[x] <=> has_int_msg[x] /\ x # p
               /\ buf'[x] = IF x = p THEN IntMsg ELSE buf[x]
    BY <1>4, <1>6 DEF ReceiveInt, TypeOK
  <2>. QED  BY <1>1, <1>3, <1>6, <2>1 DEF TookInt, ReceiveInt, IntReady
<1>7. CASE \E from \in Procs : ReceiveFrom(p, src, from)
  <2>1. PICK from \in Procs : ReceiveFrom(p, src, from)
    BY <1>7
  <2>2. Sending(from) /\ p_sendto[from] = p /\ src \in {ANY, from}
    BY <1>5, <2>1 DEF ReceiveFrom
  <2>3. ASSUME NEW x \in Procs
        PROVE  /\ Sending(x)' <=> Sending(x) /\ x # from
               /\ Receiving(x)' <=> Receiving(x)
               /\ x # from => p_sendto'[x] = p_sendto[x]
               /\ buf'[x] = IF x = p THEN buf[from] ELSE buf[x]
    BY <1>4, <2>1 DEF ReceiveFrom, TypeOK, Sending, Receiving
  <2>4. Took(p, src, from)
    BY <2>1, <2>2, <2>3 DEF Took, ReceiveFrom
  <2>. QED  BY <1>1, <1>3, <2>2, <2>4
<1>8. CASE ReceiveBlocks(p, src)
  <2>1. ASSUME NEW from \in Procs, src \in {ANY, from}, Sending(from), p_sendto[from] = p
        PROVE  FALSE
    <3>1. CASE src # ANY
      BY <1>8, <2>1, <3>1 DEF ReceiveBlocks, Offers
    <3>2. CASE src = ANY
      <4>1. Lists(q_sending[p], from) /\ q_sending[p] \in Seq(Procs)
        BY <1>4, <2>1 DEF Consistent, QueueIsSenders, TypeOK
      <4>2. q_sending[p] # <<>> /\ Head(q_sending[p]) \in Procs
        BY <4>1 DEF Lists
      <4>. QED  BY <1>8, <3>2, <4>2 DEF ReceiveBlocks, Offers
    <3>. QED  BY <3>1, <3>2
  <2>2. ASSUME NEW x \in Procs
        PROVE  /\ Sending(x)' <=> Sending(x)
               /\ Receiving(x)' <=> Receiving(x) \/ x = p
               /\ p_recvfrom'[x] = IF x = p THEN src ELSE p_recvfrom[x]
               /\ buf'[x] = IF x = p THEN [source |-> p, body |-> EMPTY] ELSE buf[x]
    BY <1>4, <1>8 DEF ReceiveBlocks, TypeOK, Sending, Receiving
  <2>3. Waits(p, src)
    BY <1>8, <2>1, <2>2 DEF Waits, ReceiveBlocks
  <2>. QED  BY <1>1, <1>3, <2>3
<1>. QED  BY <1>6, <1>7, <1>8 DEF msg_receive

\* The interrupt has woken t, or is latched.
LEMMA InformEffect ==
    ASSUME Consistent, NEW t \in IntTasks, inform_int(t)
    PROVE  /\ Consistent' /\ ~panicked /\ ~panicked'
           /\ UNCHANGED p_sendto
           /\ \A x \in Procs :
                 /\ Sending(x)' <=> Sending(x)
                 /\ Receiving(x)' <=> Receiving(x) /\ ~(x = t /\ AcceptsInt(t))
                 /\ x # t \/ ~AcceptsInt(t) => p_recvfrom'[x] = p_recvfrom[x]
                 /\ buf'[x] = IF x = t /\ AcceptsInt(t) THEN IntMsg ELSE buf[x]
                 /\ has_int_msg'[x] <=> IF x = t THEN ~AcceptsInt(t) ELSE has_int_msg[x]
<1>1. Consistent'
  BY NextConsistent DEF Next
<1>2. TypeOK /\ t \in Procs
  BY IpcAssumption DEF Consistent
<1>3. ASSUME NEW x \in Procs
      PROVE  /\ Sending(x)' <=> Sending(x)
             /\ Receiving(x)' <=> Receiving(x) /\ ~(x = t /\ AcceptsInt(t))
             /\ x # t \/ ~AcceptsInt(t) => p_recvfrom'[x] = p_recvfrom[x]
             /\ buf'[x] = IF x = t /\ AcceptsInt(t) THEN IntMsg ELSE buf[x]
             /\ has_int_msg'[x] <=> IF x = t THEN ~AcceptsInt(t) ELSE has_int_msg[x]
  <2>1. CASE InformWakes(t)
    BY <1>2, <2>1 DEF InformWakes, TypeOK, Sending, Receiving
  <2>2. CASE InformLatches(t)
    BY <1>2, <2>2 DEF InformLatches, TypeOK, Sending, Receiving
  <2>. QED  BY <2>1, <2>2 DEF inform_int
<1>4. ~panicked /\ ~panicked' /\ UNCHANGED p_sendto
  BY DEF inform_int, InformWakes, InformLatches
<1>. QED  BY <1>1, <1>3, <1>4

-----------------------------------------------------------------------------
\* A set of process numbers, or of partitions, has a least one (First, Min).
LEMMA LeastExists ==
    ASSUME NEW S \in SUBSET Nat, S # {}
    PROVE  \E k \in S : \A y \in S : k <= y
<1>1. PICK top \in S : TRUE
  OBVIOUS
<1>. DEFINE Below == {0 .. k : k \in {k \in S : k <= top}}
<1>2. IsFiniteSet(0 .. top)
  BY FS_Interval
<1>3. Below \subseteq SUBSET (0 .. top) /\ 0 .. top \in Below
  BY <1>1
<1>4. PICK x \in Below : \A y \in Below : <<y, x>> \notin StrictSubsetOrdering(0 .. top)
  <2>1. IsWellFoundedOn(StrictSubsetOrdering(0 .. top), SUBSET (0 .. top))
    BY <1>2, FS_FiniteSubsetsOfFinite, FS_StrictSubsetOrderingWellFounded
  <2>. HIDE DEF Below
  <2>. QED  BY <1>3, <2>1, WFMin
<1>5. PICK k \in S : k <= top /\ x = 0 .. k
  BY <1>4
<1>6. ASSUME NEW y \in S, y < k  PROVE FALSE
  <2>1. 0 .. y \in Below
    BY <1>5, <1>6
  <2>2. 0 .. y \subseteq 0 .. k /\ 0 .. y # 0 .. k
    BY <1>5, <1>6
  <2>3. <<0 .. y, 0 .. k>> \in StrictSubsetOrdering(0 .. top)
    BY <1>3, <1>4, <1>5, <2>1, <2>2 DEF StrictSubsetOrdering
  <2>. QED  BY <1>4, <1>5, <2>1, <2>3
<1>7. \A y \in S : k <= y
  BY <1>5, <1>6
<1>. QED  BY <1>5, <1>7

-----------------------------------------------------------------------------
(* The kernel's IPC implements Rendezvous for any number of processes:     *)
(* every kernel call, interrupt and abort_ipc is one step of it.           *)

\* What a process is seen doing, in terms of its fields.
LEMMA SeenAs ==
    ASSUME Consistent, NEW p \in Procs
    PROVE  /\ callOf[p] = R!Idle <=> ~Free(p) /\ ~Sending(p) /\ ~Receiving(p)
           /\ callOf[p] = R!Unused <=> Free(p)
           /\ \A d : callOf[p] = R!SendTo(d) <=> Sending(p) /\ p_sendto[p] = d
           /\ \A s \in Sources : callOf[p] = R!RecvFrom(s)
                                    <=> Receiving(p) /\ p_recvfrom[p] = s
           /\ callOf[p].op = "send" <=> Sending(p)
           /\ Sending(p) => callOf[p].party = p_sendto[p]
<1>1. Sending(p) => ~Free(p) /\ ~Receiving(p)
  BY DEF Consistent, CallFields, Sending, Receiving, Free
<1>2. Receiving(p) => ~Free(p)
  BY DEF Consistent, CallFields, Receiving, Free
<1>3. NO_TASK \notin Sources
  BY IpcAssumption DEF Sources
<1> QED
  BY <1>1, <1>2, <1>3 DEF callOf, Dead, R!Idle, R!Unused, R!SendTo, R!RecvFrom

\* A runnable process is idle, and the party it may call is in use.
LEMMA CallerIdle ==
    ASSUME Consistent, NEW p \in Procs, NEW q, sys_sendrec(p, q)
    PROVE  /\ callOf[p] = R!Idle /\ q # p /\ ~panicked
           /\ q \in Procs => callOf[q] # R!Unused
           /\ ~Free(p) /\ ~Sending(p) /\ ~Receiving(p)
<1>1. ~Free(p) /\ ~Sending(p) /\ ~Receiving(p)
  BY DEF sys_sendrec, Runnable, Free, Sending, Receiving
<1> QED
  BY <1>1, SeenAs DEF sys_sendrec

\* A process whose fields a step leaves alone is seen in the same call.
LEMMA SeenSame ==
    ASSUME NEW x \in Procs, p_flags'[x] = p_flags[x],
           p_sendto'[x] = p_sendto[x], p_recvfrom'[x] = p_recvfrom[x]
    PROVE  callOf'[x] = callOf[x]
BY DEF callOf, Free, Sending, Receiving, Dead

\* No two pending calls fit each other, and with a further call c of p only
\* pairs that p belongs to do.
LEMMA OnlyTheCaller ==
    ASSUME Consistent, NoMissedRendezvous, NEW p \in Procs, NEW c,
           NEW s \in Procs, NEW r \in Procs,
           R!Fits([callOf EXCEPT ![p] = c], s, r)
    PROVE  s = p \/ r = p
<1> SUFFICES ASSUME s # p, r # p PROVE FALSE
  OBVIOUS
<1>1. callOf[s] = R!SendTo(r) /\ callOf[r] \in {R!RecvFrom(s), R!RecvFrom(ANY)}
  BY DEF R!Fits, callOf
<1>2. Sending(s) /\ p_sendto[s] = r
  BY <1>1, SeenAs
<1>3. Accepts(r, s)
  BY <1>1, SeenAs DEF Accepts, Sources
<1> QED
  BY <1>2, <1>3 DEF NoMissedRendezvous

\* The chain that deadlock() follows is the one of Rendezvous.
LEMMA SameCycle ==
    ASSUME Consistent, NEW p \in Procs, NEW d \in Procs
    PROVE  deadlock(p, d) <=> R!Cycle(p, d)
BY SeenAs DEF deadlock, R!Cycle

LEMMA DeliversRefines ==
    ASSUME Consistent, NEW p \in Procs, NEW dest \in Procs, NEW b \in Bodies,
           SendDelivers(p, dest, b)
    PROVE  R!Send(p, dest, b)
<1> DEFINE c == R!SendTo(dest)
           m == [source |-> p, body |-> b]
<1>0. /\ callOf[p] = R!Idle /\ dest # p /\ callOf[dest] # R!Unused
      /\ ~Sending(p) /\ ~Receiving(p) /\ ~Free(p)
  BY CallerIdle DEF SendDelivers
<1>1. Receiving(dest) /\ callOf[dest] \in {R!RecvFrom(p), R!RecvFrom(ANY)}
  BY SeenAs DEF SendDelivers, Accepts, Sources
<1>2. R!Fits([callOf EXCEPT ![p] = c], p, dest)
  BY <1>0, <1>1 DEF R!Fits, callOf
<1>3. p_flags'[dest] = {}
  BY <1>1 DEF SendDelivers, Consistent, TypeOK, CallFields
<1>4. callOf'[dest] = R!Idle
  BY <1>3 DEF callOf, Free, Sending, Receiving, Dead, R!Idle
<1>5. \A x \in Procs \ {dest} : callOf'[x] = callOf[x]
  BY SeenSame DEF SendDelivers, Consistent, TypeOK
<1>6. callOf' = [callOf EXCEPT ![p] = R!Idle, ![p] = R!Idle, ![dest] = R!Idle]
  <2>1. \A x \in Procs : callOf'[x] = [callOf EXCEPT ![p] = R!Idle,
                               ![p] = R!Idle, ![dest] = R!Idle][x]
    BY <1>0, <1>4, <1>5 DEF callOf
  <2> QED
    BY <2>1 DEF callOf
<1>7. buf' = [buf EXCEPT ![p] = m, ![dest] = IF p = p THEN m ELSE buf[p]]
  BY DEF SendDelivers
<1>8. ~R!Cycle(p, dest)
  BY SameCycle DEF SendDelivers
<1>9. c.party = dest
  BY DEF R!SendTo
<1>10. R!Make(p, c, m)
  BY <1>0, <1>2, <1>6, <1>7, <1>9 DEF R!Make
<1> QED
  BY <1>8, <1>10 DEF R!Send, SendDelivers

LEMMA SendBlocksRefines ==
    ASSUME Consistent, NoMissedRendezvous, NEW p \in Procs, NEW dest \in Procs,
           NEW b \in Bodies, SendBlocks(p, dest, b)
    PROVE  R!Send(p, dest, b)
<1> DEFINE c == R!SendTo(dest)
           m == [source |-> p, body |-> b]
<1>0. /\ callOf[p] = R!Idle /\ dest # p /\ callOf[dest] # R!Unused
      /\ ~Sending(p) /\ ~Receiving(p) /\ ~Free(p)
  BY CallerIdle DEF SendBlocks
<1>1. callOf[dest] \notin {R!RecvFrom(p), R!RecvFrom(ANY)}
  BY SeenAs DEF SendBlocks, Accepts, Sources
<1>2. ASSUME NEW s \in Procs, NEW r \in Procs,
             R!Fits([callOf EXCEPT ![p] = c], s, r)
      PROVE  FALSE
  <2>1. CASE s = p
    <3>1. r = dest
      BY <1>2, <2>1 DEF R!Fits, R!SendTo, callOf
    <3> QED
      BY <1>0, <1>1, <1>2, <2>1, <3>1 DEF R!Fits, callOf
  <2>2. CASE s # p /\ r = p
    BY <1>2, <2>2 DEF R!Fits, R!SendTo, R!RecvFrom, callOf
  <2> QED
    BY <1>2, <2>1, <2>2, OnlyTheCaller
<1>3. callOf'[p] = c
  <2>1. p_flags'[p] = {"SENDING"} /\ p_sendto'[p] = dest
    BY DEF SendBlocks, sys_sendrec, Runnable, Consistent, TypeOK
  <2> QED
    BY <2>1 DEF callOf, Free, Sending, R!SendTo
<1>4. \A x \in Procs \ {p} : callOf'[x] = callOf[x]
  BY SeenSame DEF SendBlocks, Consistent, TypeOK
<1>5. callOf' = [callOf EXCEPT ![p] = c]
  BY <1>3, <1>4 DEF callOf
<1>6. ~R!Cycle(p, dest)
  BY SameCycle DEF SendBlocks
<1>7. R!Make(p, c, m)
  BY <1>0, <1>2, <1>5 DEF R!Make, R!SendTo, SendBlocks
<1> QED
  BY <1>6, <1>7 DEF R!Send, SendBlocks

LEMMA ReceiveFromRefines ==
    ASSUME Consistent, NEW p \in Procs, NEW src \in Sources,
           NEW from \in Procs, ReceiveFrom(p, src, from)
    PROVE  R!Receive(p, src)
<1> DEFINE c == R!RecvFrom(src)
           m == [source |-> p, body |-> EMPTY]
<1>0. /\ callOf[p] = R!Idle /\ src # p
      /\ src \in Procs => callOf[src] # R!Unused
      /\ ~Sending(p) /\ ~Receiving(p) /\ ~Free(p)
  BY CallerIdle DEF ReceiveFrom
<1>1. Sending(from) /\ p_sendto[from] = p /\ src \in {from, ANY}
  <2>1. CASE src = ANY
    <3>1. Lists(q_sending[p], from)
      BY <2>1 DEF ReceiveFrom, Offers, Lists, Consistent, TypeOK
    <3> QED
      BY <2>1, <3>1 DEF Consistent, QueueIsSenders
  <2>2. CASE src # ANY
    BY <2>2 DEF ReceiveFrom, Offers
  <2> QED
    BY <2>1, <2>2
<1>2. from # p /\ callOf[from] = R!SendTo(p)
  BY <1>0, <1>1, SeenAs
<1>3. R!Fits([callOf EXCEPT ![p] = c], from, p)
  BY <1>1, <1>2 DEF R!Fits, callOf
<1>4. p_flags'[from] = {}
  BY <1>1 DEF ReceiveFrom, Consistent, TypeOK, CallFields
<1>5. callOf'[from] = R!Idle
  BY <1>4 DEF callOf, Free, Sending, Receiving, Dead, R!Idle
<1>6. \A x \in Procs \ {from} : callOf'[x] = callOf[x]
  BY SeenSame DEF ReceiveFrom, Consistent, TypeOK
<1>7. callOf' = [callOf EXCEPT ![p] = R!Idle, ![from] = R!Idle, ![p] = R!Idle]
  <2>1. \A x \in Procs : callOf'[x] = [callOf EXCEPT ![p] = R!Idle,
                               ![from] = R!Idle, ![p] = R!Idle][x]
    BY <1>0, <1>5, <1>6 DEF callOf
  <2> QED
    BY <2>1 DEF callOf
<1>8. buf' = [buf EXCEPT ![p] = m,
                         ![p] = IF from = p THEN m ELSE buf[from]]
  BY <1>2 DEF ReceiveFrom, Consistent, TypeOK
<1>9. R!Make(p, c, m)
  BY <1>0, <1>3, <1>7, <1>8 DEF R!Make, R!RecvFrom
<1> QED
  BY <1>9 DEF R!Receive, ReceiveFrom, IntReady

LEMMA ReceiveBlocksRefines ==
    ASSUME Consistent, NoMissedRendezvous, NEW p \in Procs, NEW src \in Sources,
           ReceiveBlocks(p, src)
    PROVE  R!Receive(p, src)
<1> DEFINE c == R!RecvFrom(src)
           m == [source |-> p, body |-> EMPTY]
<1>0. /\ callOf[p] = R!Idle /\ src # p
      /\ src \in Procs => callOf[src] # R!Unused
      /\ ~Sending(p) /\ ~Receiving(p) /\ ~Free(p)
  BY CallerIdle DEF ReceiveBlocks
<1>1. ASSUME NEW s \in Procs, Sending(s), p_sendto[s] = p, src \in {s, ANY}
      PROVE  FALSE
  <2>1. CASE src = ANY
    <3>1. Lists(q_sending[p], s)
      BY <1>1 DEF Consistent, QueueIsSenders
    <3>2. q_sending[p] \in Seq(Procs) /\ q_sending[p] # <<>>
      BY <3>1 DEF Lists, Consistent, TypeOK
    <3>3. Head(q_sending[p]) \in Procs
      BY <3>2
    <3> QED
      BY <2>1, <3>2, <3>3 DEF ReceiveBlocks, Offers
  <2>2. CASE src # ANY
    BY <1>1, <2>2 DEF ReceiveBlocks, Offers
  <2> QED
    BY <2>1, <2>2
<1>2. ASSUME NEW s \in Procs, NEW r \in Procs,
             R!Fits([callOf EXCEPT ![p] = c], s, r)
      PROVE  FALSE
  <2>1. CASE s = p
    BY <1>2, <2>1 DEF R!Fits, R!SendTo, R!RecvFrom, callOf
  <2>2. CASE s # p /\ r = p
    <3>1. callOf[s] = R!SendTo(p) /\ src \in {s, ANY}
      BY <1>2, <2>2 DEF R!Fits, R!RecvFrom, callOf
    <3> QED
      BY <1>1, <3>1, SeenAs
  <2> QED
    BY <1>2, <2>1, <2>2, OnlyTheCaller
<1>3. callOf'[p] = c
  <2>1. p_flags'[p] = {"RECEIVING"} /\ p_recvfrom'[p] = src /\ src # NO_TASK
    BY IpcAssumption
       DEF ReceiveBlocks, sys_sendrec, Runnable, Consistent, TypeOK, Sources
  <2> QED
    BY <2>1 DEF callOf, Free, Sending, Receiving, Dead, R!RecvFrom
<1>4. \A x \in Procs \ {p} : callOf'[x] = callOf[x]
  BY SeenSame DEF ReceiveBlocks, Consistent, TypeOK
<1>5. callOf' = [callOf EXCEPT ![p] = c]
  BY <1>3, <1>4 DEF callOf
<1>6. R!Make(p, c, m)
  BY <1>0, <1>2, <1>5 DEF R!Make, R!RecvFrom, ReceiveBlocks
<1> QED
  BY <1>6 DEF R!Receive, ReceiveBlocks, IntReady

LEMMA ReceiveIntRefines ==
    ASSUME Consistent, NEW p \in Procs, NEW src \in Sources, ReceiveInt(p, src)
    PROVE  R!Collect(p)
<1>1. callOf[p] = R!Idle
  BY CallerIdle DEF ReceiveInt
<1>2. callOf' = callOf
  BY DEF ReceiveInt, callOf, Free, Sending, Receiving, Dead
<1> QED
  BY <1>1, <1>2 DEF R!Collect, ReceiveInt, IntReady, IntMsg, R!IntMsg

LEMMA InformRefines ==
    ASSUME Consistent, NEW t \in IntTasks, inform_int(t)
    PROVE  R!Interrupt(t)
<1>0. t \in Procs /\ {INTERRUPT, ANY} \subseteq Sources
  BY IpcAssumption DEF Sources
<1>1. AcceptsInt(t) <=> callOf[t] \in {R!RecvFrom(INTERRUPT), R!RecvFrom(ANY)}
  BY <1>0, SeenAs DEF AcceptsInt
<1>2. CASE InformWakes(t)
  <2>1. p_flags'[t] = {}
    BY <1>0, <1>2 DEF InformWakes, AcceptsInt, Consistent, TypeOK, CallFields
  <2>2. callOf'[t] = R!Idle
    BY <1>0, <2>1 DEF callOf, Free, Sending, Receiving, Dead, R!Idle
  <2>3. \A x \in Procs \ {t} : callOf'[x] = callOf[x]
    BY <1>2, SeenSame DEF InformWakes, Consistent, TypeOK
  <2>4. callOf' = [callOf EXCEPT ![t] = R!Idle]
    BY <2>2, <2>3 DEF callOf
  <2> QED
    BY <1>1, <1>2, <2>4 DEF R!Interrupt, InformWakes, IntMsg, R!IntMsg
<1>3. CASE InformLatches(t)
  <2>1. callOf' = callOf
    BY <1>3 DEF InformLatches, callOf, Free, Sending, Receiving, Dead
  <2> QED
    BY <1>1, <1>3, <2>1 DEF R!Interrupt, InformLatches
<1> QED
  BY <1>2, <1>3 DEF inform_int

LEMMA AbortRefines ==
    ASSUME Consistent, NEW target \in Procs \ Native, abort_ipc(target)
    PROVE  R!Abort(target)
<1>0. target \in Procs /\ target \in Sources /\ callOf[target] # R!Unused
  BY SeenAs DEF abort_ipc, Sources
<1>1. \A p \in Procs \ {target} :
         /\ p \in AbortedSenders(target) <=> callOf[p] = R!SendTo(target)
         /\ p \in AbortedReceivers(target) <=> callOf[p] = R!RecvFrom(target)
  <2>1. AbortedSenders(target)
            = {p \in Procs : Sending(p) /\ p_sendto[p] = target}
    BY <1>0, AbortedSendersAreQueued
  <2> QED
    BY <1>0, <2>1, SeenAs DEF AbortedReceivers
<1>2. callOf'[target] = R!Dead
  <2>1. p_flags'[target] = {"RECEIVING"} /\ p_recvfrom'[target] = NO_TASK
    BY <1>0 DEF abort_ipc
  <2> QED
    BY <1>0, <2>1 DEF callOf, Free, Sending, Receiving, Dead, R!Dead
<1>3. ASSUME NEW p \in Procs \ {target},
             p \in AbortedSenders(target) \/ p \in AbortedReceivers(target)
      PROVE  callOf'[p] = R!Idle
  <2>1. p_flags'[p] = {}
    <3>1. CASE p \in AbortedSenders(target)
      <4>1. p_flags[p] = {"SENDING"}
        BY <1>1, <3>1, SeenAs DEF Consistent, CallFields
      <4> QED
        BY <3>1, <4>1 DEF abort_ipc
    <3>2. CASE p \in AbortedReceivers(target)
      <4>1. p_flags[p] = {"RECEIVING"}
        BY <3>2 DEF AbortedReceivers, Consistent, CallFields
      <4> QED
        BY <3>2, <4>1 DEF abort_ipc
    <3> QED
      BY <1>3, <3>1, <3>2
  <2> QED
    BY <2>1 DEF callOf, Free, Sending, Receiving, Dead, R!Idle
<1>4. ASSUME NEW p \in Procs \ {target},
             p \notin AbortedSenders(target), p \notin AbortedReceivers(target)
      PROVE  callOf'[p] = callOf[p]
  <2>1. /\ p_flags'[p] = p_flags[p] /\ p_sendto'[p] = p_sendto[p]
        /\ p_recvfrom'[p] = p_recvfrom[p]
    BY <1>4 DEF abort_ipc, Consistent, TypeOK
  <2> QED
    BY <2>1, SeenSame
<1>5. callOf' = [p \in Procs |->
                    IF p = target THEN R!Dead
                    ELSE IF callOf[p] \in {R!SendTo(target), R!RecvFrom(target)}
                         THEN R!Idle ELSE callOf[p]]
  BY <1>1, <1>2, <1>3, <1>4 DEF callOf
<1>6. buf' = [p \in Procs |->
                 IF p # target /\ callOf[p] = R!RecvFrom(target)
                 THEN [buf[p] EXCEPT !.body = SYSCALL_RET] ELSE buf[p]]
  <2>1. target \notin AbortedReceivers(target)
    BY DEF AbortedReceivers
  <2> QED
    BY <1>1, <2>1 DEF abort_ipc
<1> QED
  BY <1>0, <1>5, <1>6 DEF R!Abort, abort_ipc

\* Every step of the kernel is a step of Rendezvous or leaves what it shows
\* unchanged.
LEMMA NextRefines ==
    ASSUME Consistent, NoMissedRendezvous, [Next]_vars
    PROVE  [R!Next]_(R!vars)
<1>1. ASSUME NEW p \in Procs, NEW dest \in Procs, NEW b \in Bodies,
             msg_send(p, dest, b)
      PROVE  R!Next
  <2>1. ~panicked
    BY <1>1 DEF msg_send, SendDelivers, SendBlocks, SendPanics, sys_sendrec
  <2>2. CASE SendDelivers(p, dest, b) \/ SendBlocks(p, dest, b)
    BY <2>1, <2>2, DeliversRefines, SendBlocksRefines DEF R!Next
  <2>3. CASE SendPanics(p, dest)
    <3>1. callOf[p] = R!Idle /\ R!Cycle(p, dest)
      BY <2>3, CallerIdle, SameCycle DEF SendPanics
    <3>2. callOf' = callOf
      BY <2>3 DEF SendPanics, callOf, Free, Sending, Receiving, Dead
    <3>3. R!Refuse(p, dest)
      BY <2>3, <3>1, <3>2 DEF R!Refuse, SendPanics
    <3> QED
      BY <2>1, <3>3 DEF R!Next
  <2> QED
    BY <1>1, <2>2, <2>3 DEF msg_send
<1>2. ASSUME NEW p \in Procs, NEW src \in Sources, msg_receive(p, src)
      PROVE  R!Next
  <2>1. ~panicked
    BY <1>2 DEF msg_receive, ReceiveInt, ReceiveFrom, ReceiveBlocks, sys_sendrec
  <2>2. CASE ReceiveInt(p, src)
    BY <2>1, <2>2, ReceiveIntRefines DEF R!Next
  <2>3. CASE ReceiveBlocks(p, src)
    BY <2>1, <2>3, ReceiveBlocksRefines DEF R!Next, Sources
  <2>4. ASSUME NEW from \in Procs, ReceiveFrom(p, src, from)
        PROVE  R!Next
    BY <2>1, <2>4, ReceiveFromRefines DEF R!Next, Sources
  <2> QED
    BY <1>2, <2>2, <2>3, <2>4 DEF msg_receive
<1>3. ASSUME NEW t \in IntTasks, inform_int(t)
      PROVE  R!Next
  BY <1>3, InformRefines DEF R!Next, inform_int, InformWakes, InformLatches
<1>4. ASSUME NEW target \in Procs \ Native, abort_ipc(target)
      PROVE  R!Next
  BY <1>4, AbortRefines DEF R!Next, abort_ipc
<1>5. CASE UNCHANGED vars
  BY <1>5 DEF vars, R!vars, callOf, Free, Sending, Receiving, Dead
<1> QED
  BY <1>1, <1>2, <1>3, <1>4, <1>5 DEF Next

\* The kernel implements Rendezvous: through flags, message pointers and
\* sending queues its callers see only synchronous calls that end in pairs,
\* with the message passed in that very step.
THEOREM RendezvousImplemented == Spec => ImplementsRendezvous
<1>1. Init => R!Init
  <2> SUFFICES ASSUME Init PROVE R!Init
    OBVIOUS
  <2>1. Consistent
    BY InitConsistent
  <2>2. \A p \in Procs : callOf[p] \in {R!Idle, R!Unused}
                         /\ (p \in Native => callOf[p] = R!Idle)
    BY <2>1, SeenAs DEF Init, Free, Sending, Receiving
  <2>3. callOf \in [Procs -> {R!Idle, R!Unused}]
    BY <2>2 DEF callOf
  <2> QED
    BY <2>2, <2>3, IpcAssumption DEF Init, R!Init
<1>2. Consistent /\ NoMissedRendezvous /\ [Next]_vars => [R!Next]_(R!vars)
  BY NextRefines
<1> QED
  BY <1>1, <1>2, ConsistentAlways, NeverMissed, PTL
     DEF Spec, ImplementsRendezvous, R!Spec, Consistent
=============================================================================
