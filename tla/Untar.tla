------------------------------- MODULE Untar ---------------------------------
(***************************************************************************)
(* INIT extracts cmd.tar (kernel/main.c, untar): a header of one sector     *)
(* says how long the next member is, the member fills up its last sector,   *)
(* an empty sector ends the archive.  Members are read and written a chunk  *)
(* at a time.  The archive is any sequence of lengths; byte i of a member   *)
(* is the number i.  A file takes no more than its sectors hold, and write  *)
(* does not say so (fs/read_write.c, do_rdwt).                              *)
(***************************************************************************)
EXTENDS Naturals, SequencesExt

CONSTANTS
    Archives,      \* sequences of lengths
    TarSect,       \* SECTOR_SIZE
    ChunkSects,    \* sectors in buf
    FileBytes      \* bytes in the sectors of a file

ASSUME UntarAssumption ==
    /\ {TarSect, ChunkSects, FileBytes} \subseteq Nat \ {0}
    /\ \A lens \in Archives : lens \in Seq(Nat)

VARIABLES
    archive,     \* the lengths of the members
    tarpos,      \* the sector fd comes to
    member,      \* how many headers have been read
    bytes_left,  \* what is to be copied of the member
    extracted,   \* the files that have been made, the last of them open
    tarend       \* "", "done" or "aborted"

utVars == <<archive, tarpos, member, bytes_left, extracted, tarend>>

Sectors(len) == (len + TarSect - 1) \div TarSect
\* Where the header of member k is: the archive's layout.
RECURSIVE HeaderAt(_)
HeaderAt(k) == IF k = 1 THEN 0 ELSE HeaderAt(k - 1) + 1 + Sectors(archive[k - 1])

\* What a sector of the archive holds.
IsHeader(s, k) == k \in DOMAIN archive /\ s = HeaderAt(k)
ByteAt(s, i) ==
    LET k == Max({m \in DOMAIN archive : HeaderAt(m) < s})
    IN  (s - HeaderAt(k) - 1) * TarSect + i

UtInit ==
    /\ archive \in Archives
    /\ tarpos = 0 /\ member = 0 /\ bytes_left = 0
    /\ extracted = <<>> /\ tarend = ""

\* The next header and the file for it, if it can be opened.
NextMember ==
    /\ tarend = "" /\ bytes_left = 0
    /\ tarpos' = tarpos + 1
    /\ IF \E k \in DOMAIN archive : IsHeader(tarpos, k)
       THEN \E k \in DOMAIN archive :
              /\ IsHeader(tarpos, k) /\ member' = k
              /\ \/ bytes_left' = archive[k] /\ extracted' = Append(extracted, <<>>) /\ tarend' = ""
                 \/ tarend' = "aborted" /\ UNCHANGED <<bytes_left, extracted>>
       ELSE tarend' = "done" /\ UNCHANGED <<member, bytes_left, extracted>>
    /\ UNCHANGED archive

\* Mutant: a chunk that ends with a sector takes one sector more.
SectsOf_More(bytes) == bytes \div TarSect + 1

SectsOf(bytes) == (bytes - 1) \div TarSect + 1

\* One chunk: buf is read, written as far as the file has room.
Copies ==
    /\ tarend = "" /\ bytes_left > 0
    /\ LET iobytes == Min({ChunkSects * TarSect, bytes_left})
           buf     == [i \in 1..iobytes |-> ByteAt(tarpos + (i - 1) \div TarSect, ((i - 1) % TarSect) + 1)]
           room    == FileBytes - Len(Last(extracted))
       IN  /\ tarpos' = tarpos + SectsOf(iobytes)
           /\ bytes_left' = bytes_left - iobytes
           /\ extracted' = Front(extracted) \o <<Last(extracted) \o SubSeq(buf, 1, Min({room, iobytes}))>>
    /\ UNCHANGED <<archive, member, tarend>>

UtNext == NextMember \/ Copies

-----------------------------------------------------------------------------
(* Properties                                                              *)

\* What has been extracted is what was packed, member by member and byte by
\* byte, up to what a file can take; nothing is left out on the way.
Extracted ==
    /\ Len(extracted) = IF tarend = "aborted" THEN member - 1 ELSE member
    /\ \A k \in DOMAIN extracted :
          LET copied == archive[k] - (IF k = Len(extracted) THEN bytes_left ELSE 0)
          IN  extracted[k] = [i \in 1..Min({copied, FileBytes}) |-> i]

AllExtracted == tarend = "done" => member = Len(archive)

UntarSound == Extracted /\ AllExtracted
=============================================================================
