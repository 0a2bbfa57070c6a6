------------------------------ MODULE Keyboard -------------------------------
(***************************************************************************)
(* From scan codes to keys (kernel/keyboard.c).  The keyboard sends one to *)
(* six bytes for a key that goes down or up; the interrupt handler stores  *)
(* them in kb_in; keyboard_read, called by TTY now and then, takes them    *)
(* apart, waiting for the rest of a key when it has to.                    *)
(*                                                                         *)
(* A byte is a code and whether its break bit is set.  One key stands for  *)
(* each way a key is treated; PAD_1 and END share a code and differ by the *)
(* prefix E0, and so do the two Alts, of which only the right one is here. *)
(***************************************************************************)
EXTENDS Naturals, SequencesExt

CONSTANTS
    KbKeys,        \* the keys the user has
    KB_IN_SIZE,    \* KB_IN_BYTES of the keyboard driver
    MaxEvents      \* bound: keys going down or up

ASSUME KeyboardAssumption ==
    /\ KbKeys \subseteq {"a", "PAD_1", "END", "SHIFT_L", "ALT_R", "CAPS_LOCK",
                         "NUM_LOCK", "PRINTSCREEN", "PAUSEBREAK"}
    /\ {KB_IN_SIZE, MaxEvents} \subseteq Nat \ {0}

VARIABLES
    down,      \* the keys that are down
    locks,     \* the lock keys that are on, as the user sees it
    wire,      \* bytes the keyboard has still to send
    kb_buf,    \* kb_in
    kbd,       \* keyboard_read: where it is, and its locals key and make
    mods,      \* shift_l, alt_l, caps_lock, num_lock
    due,       \* what the user typed and the terminal has not got yet
    lost,      \* a byte was dropped, or swallowed after a special key
    wrong,     \* the terminal got something else
    events

kbVars == <<down, locks, wire, kb_buf, kbd, mods, due, lost, wrong, events>>

Byte(c)    == [code |-> c, break |-> FALSE]
Brk(c)     == [code |-> c, break |-> TRUE]
E0         == Byte("E0")
PauseCodes == <<Byte("E1"), Byte("CTRL_L"), Byte("NUM_LOCK"),
                Byte("E1"), Brk("CTRL_L"), Brk("NUM_LOCK")>>

\* What the keyboard sends when a key goes down and when it goes up.
Sends(key, up) ==
    LET b(c) == [code |-> c, break |-> up]
    IN  CASE key = "PRINTSCREEN" ->
                 IF up THEN <<E0, Brk("PAD_STAR"), E0, Brk("SHIFT_L")>>
                       ELSE <<E0, Byte("SHIFT_L"), E0, Byte("PAD_STAR")>>
          [] key = "PAUSEBREAK" -> IF up THEN <<>> ELSE PauseCodes
          [] key = "ALT_R"      -> <<E0, b("ALT")>>
          [] key = "END"        -> <<E0, b("PAD_1")>>
          [] OTHER              -> <<b(key)>>

NoMods == [shift_l |-> 0, alt_l |-> 0, caps_lock |-> 0, num_lock |-> 1]
Idle   == [at |-> "idle", key |-> "none", make |-> FALSE]

\* init_keyboard.
KbInit ==
    /\ down = {} /\ locks = {"NUM_LOCK"} /\ wire = <<>> /\ kb_buf = <<>>
    /\ kbd = Idle
    /\ mods = NoMods
    /\ due = <<>> /\ lost = FALSE /\ wrong = FALSE
    /\ events = 0

-----------------------------------------------------------------------------
(* The user, the keyboard and the interrupt                                *)

\* What a key means with modifiers m, for one who looks at the keyboard.
Meaning(key, m) ==
    CASE key = "a"     -> IF m.shift_l # m.caps_lock THEN "A" ELSE "a"
      [] key = "PAD_1" -> IF m.num_lock = 1 \/ m.shift_l = 1 THEN "1" ELSE "END"
      [] OTHER         -> key
Meant == {"a", "PAD_1", "END"}

\* The modifiers as the user sees them.
UserMods ==
    LET bit(b) == IF b THEN 1 ELSE 0
    IN  [shift_l   |-> bit("SHIFT_L" \in down), alt_l    |-> bit("ALT_R" \in down),
         caps_lock |-> bit("CAPS_LOCK" \in locks), num_lock |-> bit("NUM_LOCK" \in locks)]

\* A key goes down or up when the keyboard has sent what came before.  After a
\* loss nothing more is asked, and no key goes down.
KeyEvent(key) ==
    LET up == key \in down IN
    /\ wire = <<>> /\ events < MaxEvents /\ ~lost
    /\ wire' = Sends(key, up)
    /\ down' = IF up THEN down \ {key} ELSE down \cup {key}
    /\ locks' = IF up \/ key \notin {"CAPS_LOCK", "NUM_LOCK"} THEN locks
                ELSE IF key \in locks THEN locks \ {key} ELSE locks \cup {key}
    /\ due' = IF up \/ key \notin Meant THEN due ELSE Append(due, Meaning(key, UserMods))
    /\ events' = events + 1
    /\ UNCHANGED <<kb_buf, kbd, mods, lost, wrong>>

\* keyboard_handler: the byte is stored, or dropped when kb_in is full.
KbInterrupt ==
    /\ wire # <<>>
    /\ wire' = Tail(wire)
    /\ IF Len(kb_buf) < KB_IN_SIZE
       THEN kb_buf' = Append(kb_buf, Head(wire)) /\ UNCHANGED <<lost, due>>
       ELSE lost' = TRUE /\ due' = <<>> /\ UNCHANGED kb_buf
    /\ UNCHANGED <<down, locks, kbd, mods, wrong, events>>

-----------------------------------------------------------------------------
(* keyboard_read                                                           *)

\* TTY calls it when there are bytes.  `make' is not initialised.
Begins ==
    /\ kbd.at = "idle" /\ kb_buf # <<>>
    /\ \E m \in BOOLEAN : kbd' = [at |-> "top", key |-> "none", make |-> m]
    /\ UNCHANGED <<down, locks, wire, kb_buf, mods, due, lost, wrong, events>>

Ends ==
    /\ kbd.at = "top" /\ kb_buf = <<>>
    /\ kbd' = Idle
    /\ UNCHANGED <<down, locks, wire, kb_buf, mods, due, lost, wrong, events>>

\* get_byte_from_kb_buf: where the code is `at', it takes the byte b, waiting
\* until there is one.
Takes(loc, b) ==
    /\ kbd.at = loc /\ kb_buf # <<>>
    /\ b = Head(kb_buf)
    /\ kb_buf' = Tail(kb_buf)
    /\ UNCHANGED <<down, locks, wire, events>>

\* ... and needs another one to go on.
Goes(loc) == kbd' = [kbd EXCEPT !.at = loc] /\ UNCHANGED <<mods, due, lost, wrong>>

Special(key) == key \in {"PAUSEBREAK", "PRINTSCREEN"}

\* Mutant: a break code of Shift is ignored like the others.
Modified_MakeOnly(key, make) ==
    LET bit == IF make THEN 1 ELSE 0
    IN  CASE key = "SHIFT_L" -> IF make THEN [mods EXCEPT !.shift_l = 1] ELSE mods
          [] key \in {"ALT_L", "ALT_R"} -> [mods EXCEPT !.alt_l = bit]
          [] key = "CAPS_LOCK" /\ make -> [mods EXCEPT !.caps_lock = 1 - @]
          [] key = "NUM_LOCK" /\ make  -> [mods EXCEPT !.num_lock = 1 - @]
          [] OTHER -> mods

\* The modifiers after a key.  (Both Alts set alt_l.)
Modified(key, make) ==
    LET bit == IF make THEN 1 ELSE 0
    IN  CASE key = "SHIFT_L" -> [mods EXCEPT !.shift_l = bit]
          [] key \in {"ALT_L", "ALT_R"} -> [mods EXCEPT !.alt_l = bit]
          [] key = "CAPS_LOCK" /\ make -> [mods EXCEPT !.caps_lock = 1 - @]
          [] key = "NUM_LOCK" /\ make  -> [mods EXCEPT !.num_lock = 1 - @]
          [] OTHER -> mods

\* keymap: the row of the code, the column of Shift, Caps Lock or E0.
KeyMap(code, e0) ==
    IF e0 THEN CASE code = "PAD_1" -> "END"
                 [] code = "ALT"   -> "ALT_R"
                 [] OTHER          -> "none"
    ELSE CASE code = "a"     -> IF mods.shift_l # mods.caps_lock THEN "A" ELSE "a"
           [] code = "PAD_1" -> IF mods.shift_l = 1 THEN "1" ELSE "PAD_1"
           [] code = "ALT"   -> "ALT_L"
           [] OTHER          -> code

\* The keys of the number pad.
Pad(key) == IF key # "PAD_1" THEN key ELSE IF mods.num_lock = 1 THEN "1" ELSE "END"

\* in_process gets the key of a make code.
in_process(key) ==
    IF key \notin {"a", "A", "1", "END"} \/ lost THEN UNCHANGED <<due, wrong>>
    ELSE IF due # <<>> /\ Head(due) = key
         THEN due' = Tail(due) /\ UNCHANGED wrong
         ELSE wrong' = TRUE /\ UNCHANGED due

\* The end of an iteration in which a special key has been recognised, or in
\* which it is still in `key' from an earlier one and the byte is swallowed.
\* A modifier that is set changes `key' in the end.
Finish(key, make) ==
    /\ kbd' = [at |-> "top", make |-> make,
               key |-> IF make /\ (mods.shift_l = 1 \/ mods.alt_l = 1) THEN "none" ELSE key]
    /\ UNCHANGED <<mods, wrong>>
FinishSpecial(key, make) == Finish(key, make) /\ UNCHANGED <<due, lost>>
Swallow == Finish(kbd.key, kbd.make) /\ lost' = TRUE /\ due' = <<>>

\* An iteration that decodes the byte b.
Decode(b, e0) ==
    LET key == KeyMap(b.code, e0) IN
    IF Special(kbd.key) THEN Swallow
    ELSE /\ mods' = Modified(key, ~b.break)
         /\ IF b.break THEN UNCHANGED <<due, wrong>> ELSE in_process(Pad(key))
         /\ kbd' = [at |-> "top", key |-> "none", make |-> ~b.break]
         /\ UNCHANGED lost

\* The first byte of a key ...
FirstByte ==
    \E b \in ToSet(kb_buf) :
        /\ Takes("top", b)
        /\ IF b.code = "E1" THEN Goes("E1-2")
           ELSE IF b.code = "E0" THEN Goes("E0")
           ELSE Decode(b, FALSE)

\* ... the rest of Pause ...
PauseSteps == <<"E1-2", "E1-3", "E1-4", "E1-5", "E1-6">>
PauseByte ==
    \E i \in 1..5, b \in ToSet(kb_buf) :
        /\ Takes(PauseSteps[i], b)
        /\ IF b # PauseCodes[i + 1] THEN Decode(Brk("E1"), FALSE)
           ELSE IF i < 5 THEN Goes(PauseSteps[i + 1])
           ELSE FinishSpecial("PAUSEBREAK", kbd.make)

AndE0 == [pressed |-> "pressed E0", released |-> "released E0"]

\* ... and what follows E0: PrintScreen is pressed, or released, or another
\* key.
ExtendedByte ==
    \E b \in ToSet(kb_buf) :
        \/ /\ Takes("E0", b)
           /\ IF b = Byte("SHIFT_L") THEN Goes("pressed")
              ELSE IF b = Brk("PAD_STAR") THEN Goes("released")
              ELSE Decode(b, TRUE)
        \/ \E loc \in {"pressed", "released"} :
              /\ Takes(loc, b)
              /\ IF b = E0 THEN Goes(AndE0[loc]) ELSE Decode(b, FALSE)
        \/ /\ Takes("pressed E0", b)
           /\ IF b = Byte("PAD_STAR") THEN FinishSpecial("PRINTSCREEN", TRUE)
                                      ELSE Decode(b, TRUE)
        \/ /\ Takes("released E0", b)
           /\ IF b = Brk("SHIFT_L") THEN FinishSpecial("PRINTSCREEN", FALSE)
                                    ELSE Decode(b, TRUE)

KbNext ==
    \/ \E key \in KbKeys : KeyEvent(key)
    \/ KbInterrupt
    \/ Begins \/ FirstByte \/ PauseByte \/ ExtendedByte \/ Ends

KbSpec == KbInit /\ [][KbNext]_kbVars

-----------------------------------------------------------------------------
KbTypeOK ==
    /\ down \subseteq KbKeys
    /\ Len(kb_buf) <= KB_IN_SIZE
    /\ mods \in [{"shift_l", "alt_l", "caps_lock", "num_lock"} -> {0, 1}]
    /\ events \in 0..MaxEvents

\* Every byte has been read.
AllRead == wire = <<>> /\ kb_buf = <<>> /\ kbd.at = "idle"

\* The terminal gets what was typed, in order and with the modifiers of the
\* moment, however the bytes of several keys and the reading interleave; and
\* when all has been read no modifier is stuck and nothing is missing.  Bytes
\* are lost only when kb_in is full, or after Pause or PrintScreen.
KeysFaithful ==
    ~lost => /\ ~wrong
             /\ AllRead => due = <<>> /\ mods = UserMods

KeyboardSound == KbTypeOK /\ KeysFaithful
=============================================================================
