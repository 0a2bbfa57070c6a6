------------------------------ MODULE DiskLog --------------------------------
(***************************************************************************)
(* Where FS keeps the log of its graphs (fs/disklog.c, disklog): in the     *)
(* last sectors of the device, which the first call takes out of the sector *)
(* map.  A string goes on where the last one ended, over as many sectors as *)
(* it needs; the first sector says where the text ends, and a copy of it    *)
(* fills the last sector.                                                   *)
(*                                                                          *)
(* The first call stops the system when a file has one of its bits already, *)
(* and pos does not come back at the end.  The bits it sets are those of    *)
(* sectors n_1st_sect - 1 further on: a file may get bits in front of them  *)
(* and so sectors of the log, and what is written to that file goes over    *)
(* the log.  Of a file's life only this is here (the rest is in Files);     *)
(* none is removed.                                                         *)
(***************************************************************************)
EXTENDS Naturals, FiniteSets, FiniteSetsExt

CONSTANTS
    DevSects,          \* nr_sects of the device
    NR_SECTS_FOR_LOG,
    FirstSect,         \* n_1st_sect, the sector of bit 1 of the map
    FileSects,         \* NR_DEFAULT_FILE_SECTS
    MapBits,           \* bits in the sectors of the sector map
    LogSectSize,       \* SECTOR_SIZE
    HeadSize,          \* 0x40
    StringLens,        \* lengths of strings
    MaxLogged          \* bound: characters logged

ASSUME DiskLogAssumption ==
    /\ {DevSects, NR_SECTS_FOR_LOG, FirstSect, FileSects, MapBits, LogSectSize,
        HeadSize, MaxLogged} \subseteq Nat \ {0}
    /\ StringLens \subseteq Nat \ {0}
    /\ NR_SECTS_FOR_LOG < DevSects /\ DevSects <= MapBits /\ HeadSize <= LogSectSize

VARIABLES
    secmap,     \* the bits of the sector map that are set
    filesects,  \* the sectors of the files
    log_pos,    \* disklog's pos, 0 before the first call
    call,       \* the call in progress: the sector it comes to, characters left
    disksects,  \* what the sectors from the log on hold: numbers of characters,
                \* HeadChar, PadChar, FileChar, or what was there before
    logged,     \* characters logged
    stopped     \* an assertion has failed

dlVars == <<secmap, filesects, log_pos, call, disksects, logged, stopped>>

Log0      == DevSects - NR_SECTS_FOR_LOG      \* nr_log_blk0_nr
LogArea   == Log0..DevSects - 1
AfterLog  == DevSects..DevSects + 1           \* bound: what of the disk is behind it
OtherChar == 0
PadChar   == MaxLogged + 1
HeadChar  == MaxLogged + 2
FileChar  == MaxLogged + 3
Offsets   == 0..LogSectSize - 1
Filled(b) == [o \in Offsets |-> b]
NoCall    == [sect |-> 0, left |-> 0]

\* The sectors of a file whose first bit is b, i_start_sect and what follows it.
SectsFrom(b) == FirstSect + b - 1..FirstSect + b - 1 + FileSects - 1

DlInit ==
    /\ secmap = 0..FileSects      \* mkfs: the reserved bit, "/"; no cmd.tar
    /\ filesects = SectsFrom(1)
    /\ log_pos = 0 /\ call = NoCall
    /\ disksects = [s \in LogArea \cup AfterLog |-> Filled(OtherChar)]
    /\ logged = 0 /\ stopped = FALSE

\* alloc_smap_bit, for a new file; FS is not in the middle of a call.
FreeMapBits == 0..MapBits - 1 \ secmap
Creates ==
    /\ ~ stopped /\ call = NoCall
    /\ Cardinality(FreeMapBits) >= FileSects
    /\ secmap' = secmap \cup
         {b \in FreeMapBits : Cardinality({c \in FreeMapBits : c < b}) < FileSects}
    /\ filesects' = filesects \cup SectsFrom(Min(FreeMapBits))
    /\ UNCHANGED <<log_pos, call, disksects, logged, stopped>>

\* do_rdwt: a sector of a file is written.  (Bits without a sector on the device
\* lead to sectors behind it.)
WritesFile(s) ==
    /\ ~ stopped /\ call = NoCall
    /\ s \in filesects
    /\ disksects' = [disksects EXCEPT ![s] = Filled(FileChar)]
    /\ UNCHANGED <<secmap, filesects, log_pos, call, logged, stopped>>

\* The bits the loop over the sectors of the map sets.
Reserved == Log0..Log0 + NR_SECTS_FOR_LOG - 1

\* disklog() is called with a string.
LogBegins(len) ==
    /\ ~ stopped /\ call = NoCall /\ logged + len <= MaxLogged
    /\ IF log_pos # 0
       THEN /\ call' = [sect |-> Log0 + log_pos \div LogSectSize, left |-> len]
            /\ UNCHANGED <<secmap, log_pos, disksects, stopped>>
       ELSE IF secmap \cap Reserved # {}
       THEN stopped' = TRUE /\ UNCHANGED <<secmap, log_pos, call, disksects>>
       ELSE /\ secmap' = secmap \cup Reserved
            /\ disksects' = [s \in DOMAIN disksects |->
                               IF s \in LogArea THEN Filled(PadChar) ELSE disksects[s]]
            /\ log_pos' = HeadSize
            /\ call' = [sect |-> Log0 + HeadSize \div LogSectSize, left |-> len]
            /\ UNCHANGED stopped
    /\ UNCHANGED <<filesects, logged>>

\* Mutant: the offset in the first sector is forgotten.
Bytes_Whole(left, off) == Min({left, LogSectSize})

Bytes(left, off) == Min({left, LogSectSize - off})

\* One round of the loop over the sectors.
WritesText ==
    /\ call.left > 0 /\ call.sect \in DOMAIN disksects
    /\ LET off == log_pos % LogSectSize
           n   == Bytes(call.left, off)
       IN  /\ disksects' = [disksects EXCEPT ![call.sect] =
                  [o \in Offsets |-> IF o \in off..off + n - 1 THEN logged + 1 + o - off ELSE @[o]]]
           /\ call' = [sect |-> call.sect + 1, left |-> call.left - n]
           /\ log_pos' = log_pos + n /\ logged' = logged + n
    /\ UNCHANGED <<secmap, filesects, stopped>>

\* After the last: the header, and its copy, filled up, over the last sector.
WritesHead ==
    /\ call.left = 0 /\ call # NoCall
    /\ disksects' = [disksects EXCEPT
          ![Log0] = [o \in Offsets |-> IF o < HeadSize THEN HeadChar ELSE @[o]],
          ![DevSects - 1] = [o \in Offsets |-> IF o < HeadSize THEN HeadChar ELSE PadChar]]
    /\ call' = NoCall
    /\ UNCHANGED <<secmap, filesects, log_pos, logged, stopped>>

DlNext ==
    \/ Creates
    \/ \E s \in LogArea \cup AfterLog : WritesFile(s)
    \/ \E len \in StringLens : LogBegins(len)
    \/ WritesText
    \/ WritesHead

DlSpec == DlInit /\ [][DlNext]_dlVars

-----------------------------------------------------------------------------
(* Properties                                                              *)

\* What was logged can be read where the header says, sector by sector, but for
\* the last sector of the log and for the sectors that a file has got.  (There
\* should be none of these: disklog reserves the log's sectors "so that other
\* files cannot use" them, but sets other bits.)
TextKept ==
    \A k \in 1..logged :
        LET at == HeadSize + k - 1
            s  == Log0 + at \div LogSectSize
        IN  s \notin filesects \cup {DevSects - 1} => disksects[s][at % LogSectSize] = k

\* disklog writes no sector behind the log before the log is full.
NothingBehind ==
    \A s \in AfterLog :
        disksects[s] \notin {Filled(OtherChar), Filled(FileChar)} => HeadSize + logged > NR_SECTS_FOR_LOG * LogSectSize

DiskLogSound == TextKept /\ NothingBehind
=============================================================================
