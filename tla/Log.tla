-------------------------------- MODULE Log ----------------------------------
(***************************************************************************)
(* The log (kernel/log.c): every task posts what it does to TASK_LOG, which *)
(* keeps the last MAX_LOG_CNT entries in a ring; command/logman.c asks for  *)
(* entries and switches the log.                                            *)
(*                                                                          *)
(* A post carries a pointer to the poster's stack.  The poster goes on as   *)
(* soon as TASK_LOG has received the message, so the text TASK_LOG copies   *)
(* may be that of the poster's next post.  A text is the number of the post *)
(* it was made for.  What else the poster puts on its stack meanwhile, the  *)
(* copy of entries to an asker and roll, which nothing reads, are left out. *)
(***************************************************************************)
EXTENDS Integers, SequencesExt

CONSTANTS
    LogPids,        \* the processes that post
    LogMen,         \* those that run logman
    MAX_LOG_CNT,
    LogAnswers,     \* entries in an answer, 10 in the code
    MaxPosts,       \* bound: posts
    MaxAsked        \* bound: the other requests

ASSUME LogAssumption ==
    /\ LogPids \subseteq Nat \ {0} /\ LogMen \subseteq LogPids
    /\ {MAX_LOG_CNT, LogAnswers} \subseteq Nat \ {0}
    /\ LogAnswers <= MAX_LOG_CNT
    /\ {MaxPosts, MaxAsked} \subseteq Nat

VARIABLES
    ring,         \* TASK_LOG's logs, log_cnt, enabled and black_list
    log_enable,   \* the kernel's switch for posts
    mail,         \* requests sent to TASK_LOG and not received, in order
    got,          \* the one it works on
    stack,        \* the text in real_buf of each process
    ans,          \* the answer each process has got
    posts, requests,
    hist          \* what TASK_LOG has written since it was cleared, newest first

logVars == <<ring, log_enable, mail, got, stack, ans, posts, requests, hist>>

Slots     == 0..MAX_LOG_CNT - 1
Blank     == [pid |-> 0, text |-> 0]     \* memset: it looks like a post of TTY
NoRequest == [type |-> "none", src |-> 0, CNT |-> 0]
Types     == {"SWITCH_LOG", "CLEAR_LOG", "RECENT_LOG", "GET_PID_LOG", "BLOCK_LOG", "FREEZE_LOG"}

LogInit ==
    /\ ring = [logs |-> [s \in Slots |-> Blank], log_cnt |-> 0,
               enabled |-> TRUE, black_list |-> {}]
    /\ log_enable = FALSE
    /\ mail = <<>> /\ got = NoRequest
    /\ stack = [p \in LogPids |-> 0]
    /\ ans = [p \in LogPids |-> <<>>]
    /\ posts = 0 /\ requests = 0
    /\ hist = <<>>

\* Blocked in its SEND, or (RECENT_LOG, GET_PID_LOG) waiting for the answer.
Awaits(r) == r.type \in {"RECENT_LOG", "GET_PID_LOG"}
Blocked(p) ==
    \/ \E i \in DOMAIN mail : mail[i].src = p
    \/ got.src = p /\ Awaits(got)

-----------------------------------------------------------------------------
(* The processes                                                           *)

post_log2(p) ==
    /\ ~ Blocked(p) /\ posts < MaxPosts
    /\ log_enable
    /\ posts' = posts + 1
    /\ stack' = [stack EXCEPT ![p] = posts']
    /\ mail' = Append(mail, [type |-> "POST_LOG", src |-> p, CNT |-> 0])
    /\ UNCHANGED <<ring, log_enable, got, ans, requests, hist>>

\* logman; its stack is not the one of a post.
logman(p, type, id) ==
    /\ ~ Blocked(p) /\ requests < MaxAsked
    /\ requests' = requests + 1
    /\ mail' = Append(mail, [type |-> type, src |-> p, CNT |-> id])
    /\ ans' = [ans EXCEPT ![p] = <<>>]
    /\ UNCHANGED <<ring, log_enable, got, stack, posts, hist>>

-----------------------------------------------------------------------------
(* TASK_LOG                                                                *)

Receive ==
    /\ got = NoRequest /\ mail # <<>>
    /\ got' = Head(mail)
    /\ mail' = Tail(mail)
    /\ UNCHANGED <<ring, log_enable, stack, ans, posts, requests, hist>>

Refuses == ~ ring.enabled \/ got.src \in ring.black_list

\* Mutant: log_cnt reaches MAX_LOG_CNT before it starts again.
Next_cnt_Late(cnt) == IF cnt + 1 > MAX_LOG_CNT THEN 0 ELSE cnt + 1

Next_cnt(cnt) == IF cnt + 1 >= MAX_LOG_CNT THEN 0 ELSE cnt + 1

Newest(entries, n) == SubSeq(entries, 1, IF Len(entries) < n THEN Len(entries) ELSE n)

Keeps ==
    LET entry == [pid |-> got.src, text |-> stack[got.src]]
    IN  /\ got.type = "POST_LOG" /\ ~ Refuses
        /\ ring' = [ring EXCEPT !.logs[ring.log_cnt] = entry,
                                !.log_cnt = Next_cnt(ring.log_cnt)]
        /\ hist' = Newest(<<entry>> \o hist, MAX_LOG_CNT)
        /\ UNCHANGED <<log_enable, ans>>

Drops ==
    /\ got.type = "POST_LOG" /\ Refuses
    /\ UNCHANGED <<ring, log_enable, ans, hist>>

Clears ==
    /\ got.type = "CLEAR_LOG"
    /\ ring' = [ring EXCEPT !.logs = [s \in Slots |-> Blank], !.log_cnt = 0]
    /\ hist' = <<>>
    /\ UNCHANGED <<log_enable, ans>>

Switches ==
    /\ got.type \in {"SWITCH_LOG", "BLOCK_LOG", "FREEZE_LOG"}
    /\ ring' = [ring EXCEPT
           !.enabled = IF got.type = "SWITCH_LOG" THEN ~ @ ELSE @,
           !.black_list = IF got.type = "BLOCK_LOG" THEN SymDiff(@, {got.CNT}) ELSE @]
    /\ log_enable' = (IF got.type = "FREEZE_LOG" THEN ~ log_enable ELSE log_enable)
    /\ UNCHANGED <<ans, hist>>

LogEntry(k) == ring.logs[k % MAX_LOG_CNT]

\* ans[1] to ans[10] of RECENT_LOG.
Recent == [i \in 1..LogAnswers |-> LogEntry(ring.log_cnt + MAX_LOG_CNT - i)]

\* The loop of GET_PID_LOG: the entry before the one just taken, or, when that
\* is another process's, the one after it, at most MAX_LOG_CNT times.
Scanned(id) ==
    LET found[at \in (1..LogAnswers + 1) \X (0..MAX_LOG_CNT)] ==
            LET i == at[1]
                base == at[2]
                entry == LogEntry(base + ring.log_cnt + MAX_LOG_CNT - i)
            IN  IF i > LogAnswers \/ base >= MAX_LOG_CNT THEN <<>>
                ELSE IF entry.pid # id THEN found[<<i, base + 1>>]
                ELSE <<entry>> \o found[<<i + 1, base>>]
    IN  found
Scan(id) == Scanned(id)[<<1, 0>>]

Answers ==
    /\ Awaits(got)
    /\ ans' = [ans EXCEPT ![got.src] =
                  IF got.type = "RECENT_LOG" THEN Recent ELSE Scan(got.CNT)]
    /\ UNCHANGED <<ring, log_enable, hist>>

task_log(Handle) ==
    /\ got # NoRequest /\ Handle
    /\ got' = NoRequest
    /\ UNCHANGED <<mail, stack, posts, requests>>

LogNext ==
    \/ \E p \in LogPids : post_log2(p)
    \/ \E p \in LogMen, type \in Types \ {"GET_PID_LOG", "BLOCK_LOG"} : logman(p, type, 0)
    \/ \E p \in LogMen, id \in LogPids, type \in {"GET_PID_LOG", "BLOCK_LOG"} : logman(p, type, id)
    \/ Receive
    \/ task_log(Keeps)
    \/ task_log(Drops)
    \/ task_log(Clears)
    \/ task_log(Switches)
    \/ task_log(Answers)

LogSpec == LogInit /\ [][LogNext]_logVars

-----------------------------------------------------------------------------
(* Properties                                                              *)

\* The ring is the log: read backwards from log_cnt it gives what was written
\* since the last clearing, newest first, and blank entries after that,
\* wherever the ring has wrapped round.
RingIsLog ==
    \A i \in 1..MAX_LOG_CNT :
        LogEntry(ring.log_cnt + MAX_LOG_CNT - i) = IF i <= Len(hist) THEN hist[i] ELSE Blank

\* A step that answers GET_PID_LOG tells only entries of the process asked
\* for, and tells one if the log has one: the search reaches every slot.
ScanFinds ==
    got.type = "GET_PID_LOG" =>
        LET found == Scan(got.CNT)
        IN  /\ \A i \in DOMAIN found : found[i].pid = got.CNT
            /\ found = <<>> => \A i \in DOMAIN hist : hist[i].pid # got.CNT

LogSound == RingIsLog /\ ScanFinds
=============================================================================
