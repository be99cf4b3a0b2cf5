------------------------- MODULE Terminal_proofs ----------------------------
(***************************************************************************)
(* The two components that share a session with the terminal.  Prompts,    *)
(* for any prompts, any number of requests and any number of failures: the *)
(* types, that what is pressed for a prompt lands on it, and that the      *)
(* watcher accepts only what plainly accepts.  The transcript, for any     *)
(* number of polls, turns and questions, any window and any number of      *)
(* failed writes: what the terminal says is stored once, in its order, and *)
(* nothing behind the offset is missing but for what skips and failed      *)
(* writes are recorded to have taken.                                      *)
(***************************************************************************)
EXTENDS Prompts, TranscriptSync, SequenceTheorems,
        FiniteSetTheorems, WellFoundedInduction, TLAPS

-----------------------------------------------------------------------------
(***************************************************************************)
(* Prompts and the keys pressed for them (Prompts).                        *)
(***************************************************************************)

Looking == {"look", "look_again", "move", "enter", "escape"}
Spots == {"idle", "transcript", "screen", "options", "find"} \cup Looking
Words == {"none", "yes", "recommended"}
PromptIds == 0..Len(Script)

Rows == [at : Spots, purpose : {"none", "answer", "dismiss"} \cup Modes, label : Words,
         pending : PromptIds, needle : BOOLEAN, on : PromptIds,
         want : Nat, saw : Nat, moves : 0..MaxMoves, alone : BOOLEAN]

KeyRows == [press : {"up", "down", "enter", "escape"}, by : Actors \cup {Person},
            want : Nat, label : Words, on : PromptIds, meant : PromptIds, alone : BOOLEAN]

SessionInv ==
    /\ asked \in PromptIds /\ raised \in 0..asked
    /\ results \cup lost \subseteq 1..asked
    /\ shown \in {0, raised} /\ (shown # 0 => cursor \in DOMAIN Labels(shown))
    /\ above \subseteq (1..asked) \ {shown}
    /\ armed \in Modes

RowInv(d) ==
    /\ d.at = "move" => d.moves < MaxMoves
    /\ d.at = "enter" => d.saw = d.want
    /\ d.at \in Looking => d.on # 0

TypeInv ==
    /\ SessionInv
    /\ keys \in Seq(KeyRows)
    /\ doing \in [Actors -> Rows]
    /\ \A p \in Actors : RowInv(doing[p])

OwnKeys(p) == {i \in DOMAIN keys : keys[i].by = p}

\* While nobody else's key was taken since the target was found: it is still on
\* screen, with the words that were looked for, and the highlight is where it was
\* last seen, but for a move of one's own that the terminal has taken and nobody
\* has looked at yet.
AloneRow(p, d) ==
    d.alone =>
        /\ d.at \in Looking \/ (d.at = "find" /\ p = Watcher)
        /\ shown # 0
        /\ p = Watcher => Chosen(shown, d.label) = {d.want}
        /\ d.at \in Looking => d.on = shown /\ (d.needle => Readable(d.pending))
        /\ d.at \in {"look", "move", "enter"} => cursor = d.saw
        /\ d.at # "look_again" => OwnKeys(p) = {}
        /\ d.at = "look_again" => \A i \in OwnKeys(p) : /\ keys[i].press \in {"up", "down"}
                                                        /\ cursor = d.saw
                                                        /\ \A j \in OwnKeys(p) : i = j

AloneInv == \A p \in Actors : AloneRow(p, doing[p])

\* What a key closes a prompt with is still so.
Lands(key) ==
    /\ shown # 0 /\ shown = key.on /\ Readable(key.meant)
    /\ key.press = "enter" => /\ cursor = key.want
                              /\ key.by = Watcher => Chosen(shown, key.label) = {key.want}

\* A last key that was pressed alone is the next one the terminal takes.
KeysInv == \A i \in DOMAIN keys : keys[i].alone => i = 1 /\ Lands(keys[i])

IInv == TypeInv /\ KeysInv /\ AloneInv

-----------------------------------------------------------------------------
(* The prompts and their options. *)

LEMMA ScriptTypes ==
  /\ Len(Script) \in Nat /\ Ids \subseteq PromptIds
  /\ \A n \in Ids : /\ Labels(n) \in Seq(STRING)
                     /\ Len(Labels(n)) \in Nat \ {0}
                     /\ DOMAIN Labels(n) = 1..Len(Labels(n))
<1>1. Len(Script) \in Nat /\ Ids \subseteq PromptIds
  BY ScriptIsPrompts DEF Ids, PromptIds
<1>2. ASSUME NEW n \in Ids
      PROVE  Labels(n) \in Seq(STRING)
  <2> DEFINE Prompt == [kind : {"question", "plan", "permission"}, labels : Seq(STRING),
                        words : STRING]
  <2>1. Script \in Seq(Prompt)
    BY ScriptIsPrompts
  <2>2. Script[n] \in Prompt
    <3> HIDE DEF Prompt
    <3> QED
      BY <2>1 DEF Ids
  <2> QED
    BY <2>2 DEF Labels
<1>3. ASSUME NEW n \in Ids
      PROVE  Len(Labels(n)) \in Nat \ {0} /\ DOMAIN Labels(n) = 1..Len(Labels(n))
  BY <1>2, ScriptIsPrompts
<1> QED
  BY <1>1, <1>2, <1>3

\* A set of positions that is not empty has a last one.
LEMMA LastExists ==
  ASSUME NEW n \in Nat, NEW S, S \subseteq 1..n, S # {}
  PROVE  Max(S) \in S
<1> DEFINE T == {n - x : x \in S}
<1>1. T \subseteq Nat /\ T # {}
  <2>1. \A x \in S : n - x \in Nat
    OBVIOUS
  <2>2. PICK x : x \in S
    OBVIOUS
  <2>3. n - x \in T
    BY <2>2
  <2> QED
    BY <2>1, <2>3
<1>2. PICK t \in T : \A y \in T : ~ (<<y, t>> \in OpToRel(<, Nat))
  BY <1>1, NatLessThanWellFounded, WFMin
<1>3. PICK x \in S : t = n - x
  BY <1>2
<1>4. ASSUME NEW y \in S
      PROVE  x >= y
  <2>1. n - y \in T /\ n - y \in Nat /\ t \in Nat
    BY <1>1
  <2>2. ~ (n - y < t)
    BY <2>1, <1>2 DEF OpToRel
  <2> QED
    BY <2>1, <2>2, <1>3
<1> QED
  BY <1>3, <1>4 DEF Max

LEMMA ChosenIsOne ==
  ASSUME NEW n \in Ids, NEW label, Chosen(n, label) # {}
  PROVE  \E x \in DOMAIN Labels(n) :
             /\ Chosen(n, label) = {x} /\ Max(Chosen(n, label)) = x
             /\ {i \in DOMAIN Labels(n) : Labels(n)[i] = label} = {x}
<1> DEFINE right == {i \in DOMAIN Labels(n) : Labels(n)[i] = label}
<1>1. Cardinality(right) = 1 /\ Chosen(n, label) = right
  BY DEF Chosen
<1>2. IsFiniteSet(right)
  <2>1. IsFiniteSet(1..Len(Labels(n)))
    BY FS_Interval, ScriptTypes
  <2>2. right \subseteq 1..Len(Labels(n))
    BY ScriptTypes
  <2> QED
    BY <2>1, <2>2, FS_Subset
<1>3. PICK x : right = {x}
  BY <1>1, <1>2, FS_Singleton
<1>4. x \in DOMAIN Labels(n)
  BY <1>3
<1>5. Max({x}) = x
  BY <1>4, ScriptTypes DEF Max
<1> QED
  BY <1>1, <1>3, <1>4, <1>5

LEMMA TypesFollow == TypeInv => TypeOK
<1> SUFFICES ASSUME TypeInv
             PROVE  TypeOK
  OBVIOUS
<1>1. \A i \in DOMAIN keys : keys[i] \in KeyRows
  BY DEF TypeInv
<1>2. \A p \in Actors : doing[p] \in Rows /\ RowInv(doing[p])
  BY DEF TypeInv
<1>3. \A i \in DOMAIN keys : /\ keys[i].press \in {"up", "down", "enter", "escape"}
                             /\ keys[i].by \in Actors \cup {Person}
  BY <1>1 DEF KeyRows
<1>4. \A p \in Actors : /\ {doing[p].pending, doing[p].on} \subseteq 0..Len(Script)
                        /\ doing[p].at = "enter" => doing[p].saw = doing[p].want
                        /\ doing[p].moves \in 0..MaxMoves
  BY <1>2 DEF Rows, RowInv, PromptIds
<1> QED
  BY <1>3, <1>4 DEF TypeInv, SessionInv, TypeOK, PromptIds

LEMMA IdleShape ==
  /\ Idle \in Rows /\ Idle.at = "idle" /\ ~Idle.alone
  /\ RowInv(Idle) /\ \A p : AloneRow(p, Idle)
<1>1. Idle \in Rows /\ Idle.at = "idle" /\ ~Idle.alone
  BY ScriptTypes, MovesAreCounted DEF Idle, Rows, Spots, Words, PromptIds
<1> QED
  BY <1>1 DEF RowInv, AloneRow, Looking

LEMMA InitIInv == Init => IInv
<1> SUFFICES ASSUME Init
             PROVE  IInv
  OBVIOUS
<1>1. SessionInv
  BY ScriptTypes DEF Init, SessionInv, PromptIds
<1>2. \A p \in Actors : doing[p] = Idle
  BY DEF Init
<1>3. doing \in [Actors -> Rows] /\ \A p \in Actors : RowInv(doing[p])
  BY <1>2, IdleShape DEF Init
<1>4. keys \in Seq(KeyRows) /\ DOMAIN keys = {}
  BY DEF Init
<1>5. KeysInv
  BY <1>4 DEF KeysInv
<1>6. AloneInv
  BY <1>2, IdleShape DEF AloneInv
<1> QED
  BY <1>1, <1>3, <1>4, <1>5, <1>6 DEF IInv, TypeInv

-----------------------------------------------------------------------------
(* What a step leaves alone. *)

LEMMA AloneKept ==
  ASSUME NEW q, NEW d, AloneRow(q, d), UNCHANGED screen,
         OwnKeys(q)' = OwnKeys(q), \A i \in OwnKeys(q) : keys'[i] = keys[i]
  PROVE  AloneRow(q, d)'
<1>1. shown' = shown /\ cursor' = cursor /\ above' = above
  BY DEF screen
<1>2. \A n : Readable(n)' <=> Readable(n)
  BY <1>1 DEF Readable
<1> QED
  BY <1>1, <1>2 DEF AloneRow

LEMMA OwnKeysKept ==
  ASSUME NEW q, UNCHANGED keys
  PROVE  OwnKeys(q)' = OwnKeys(q) /\ \A i \in OwnKeys(q) : keys'[i] = keys[i]
BY DEF OwnKeys

LEMMA OwnKeysAppend ==
  ASSUME keys \in Seq(KeyRows), NEW key \in KeyRows, keys' = Append(keys, key), NEW q
  PROVE  /\ keys' \in Seq(KeyRows)
         /\ DOMAIN keys' = DOMAIN keys \cup {Len(keys) + 1}
         /\ \A i \in DOMAIN keys : keys'[i] = keys[i]
         /\ keys'[Len(keys) + 1] = key
         /\ OwnKeys(q)' = OwnKeys(q) \cup (IF key.by = q THEN {Len(keys) + 1} ELSE {})
<1>1. /\ keys' \in Seq(KeyRows)
      /\ DOMAIN keys' = DOMAIN keys \cup {Len(keys) + 1}
      /\ \A i \in DOMAIN keys : keys'[i] = keys[i]
      /\ keys'[Len(keys) + 1] = key
  OBVIOUS
<1>2. OwnKeys(q)' = {i \in DOMAIN keys' : keys'[i].by = q}
  BY DEF OwnKeys
<1> QED
  BY <1>1, <1>2 DEF OwnKeys

LEMMA RowsBecome ==
  ASSUME doing \in [Actors -> Rows], NEW p \in Actors, NEW d \in Rows, Become(p, d)
  PROVE  /\ doing' \in [Actors -> Rows]
         /\ doing'[p] = d
         /\ \A q \in Actors \ {p} : doing'[q] = doing[q]
BY DEF Become

LEMMA SessionKept ==
  ASSUME SessionInv, UNCHANGED <<session, screen, armed>>
  PROVE  SessionInv'
BY DEF SessionInv, session, screen

LEMMA KeysKept ==
  ASSUME KeysInv, UNCHANGED <<screen, keys>>
  PROVE  KeysInv'
<1>1. shown' = shown /\ cursor' = cursor /\ above' = above /\ keys' = keys
  BY DEF screen
<1>2. \A i : Lands(keys[i])' <=> Lands(keys[i])
  BY <1>1 DEF Lands, Readable
<1> QED
  BY <1>1, <1>2 DEF KeysInv

\* The session moves on, and neither screen nor keys do.
LEMMA SessionMoves ==
  ASSUME IInv, SessionInv', UNCHANGED <<screen, keys, doing>>
  PROVE  IInv'
<1>1. TypeInv'
  BY DEF IInv, TypeInv
<1>2. KeysInv'
  BY KeysKept DEF IInv
<1>3. AloneInv'
  <2> SUFFICES ASSUME NEW q \in Actors
               PROVE  AloneRow(q, doing[q])'
    BY DEF AloneInv
  <2>1. PICK d : d = doing[q]
    OBVIOUS
  <2>2. AloneRow(q, d)
    BY <2>1 DEF IInv, AloneInv
  <2>3. OwnKeys(q)' = OwnKeys(q) /\ \A i \in OwnKeys(q) : keys'[i] = keys[i]
    BY OwnKeysKept
  <2>4. AloneRow(q, d)'
    BY <2>2, <2>3, AloneKept
  <2> QED
    BY <2>1, <2>4
<1> QED
  BY <1>1, <1>2, <1>3 DEF IInv

\* An actor goes on, and presses nothing.
LEMMA ActorMoves ==
  ASSUME IInv, NEW p \in Actors, NEW d \in Rows, Become(p, d), RowInv(d), AloneRow(p, d),
         UNCHANGED <<session, screen, armed, keys>>
  PROVE  IInv'
<1>1. /\ doing' \in [Actors -> Rows] /\ doing'[p] = d
      /\ \A q \in Actors \ {p} : doing'[q] = doing[q]
  BY RowsBecome DEF IInv, TypeInv
<1>2. TypeInv'
  <2>1. SessionInv'
    BY SessionKept DEF IInv, TypeInv
  <2>2. \A q \in Actors : RowInv(doing'[q])
    BY <1>1 DEF IInv, TypeInv
  <2> QED
    BY <1>1, <2>1, <2>2 DEF IInv, TypeInv
<1>3. KeysInv'
  BY KeysKept DEF IInv
<1>4. AloneInv'
  <2> SUFFICES ASSUME NEW q \in Actors
               PROVE  AloneRow(q, doing[q])'
    BY DEF AloneInv
  <2>1. PICK c : c = doing'[q]
    OBVIOUS
  <2>2. AloneRow(q, c)
    BY <2>1, <1>1 DEF IInv, AloneInv
  <2>3. OwnKeys(q)' = OwnKeys(q) /\ \A i \in OwnKeys(q) : keys'[i] = keys[i]
    BY OwnKeysKept
  <2>4. AloneRow(q, c)'
    BY <2>2, <2>3, AloneKept
  <2> QED
    BY <2>1, <2>4
<1> QED
  BY <1>2, <1>3, <1>4 DEF IInv

\* A key is pressed, by an actor or not: it is the last one, and the first where
\* it is pressed alone.
LEMMA KeysAppend ==
  ASSUME IInv, NEW key \in KeyRows, keys' = Append(keys, key), UNCHANGED screen,
         key.alone => keys = <<>> /\ Lands(key)
  PROVE  KeysInv'
<1>1. /\ DOMAIN keys' = DOMAIN keys \cup {Len(keys) + 1}
      /\ \A i \in DOMAIN keys : keys'[i] = keys[i]
      /\ keys'[Len(keys) + 1] = key
  BY OwnKeysAppend DEF IInv, TypeInv
<1>2. shown' = shown /\ cursor' = cursor /\ above' = above
  BY DEF screen
<1>3. \A k : Lands(k) => Lands(k)'
  <2>1. \A n : Readable(n)' <=> Readable(n)
    BY <1>2 DEF Readable
  <2> QED
    BY <1>2, <2>1 DEF Lands
<1>4. ASSUME NEW i \in DOMAIN keys, keys'[i].alone
      PROVE  i = 1 /\ Lands(keys[i])'
  <2>1. PICK k : k = keys[i]
    OBVIOUS
  <2>2. i = 1 /\ Lands(k)
    BY <1>1, <1>4, <2>1 DEF IInv, KeysInv
  <2> QED
    BY <1>1, <1>3, <2>1, <2>2 DEF Lands
<1>5. ASSUME key.alone
      PROVE  Len(keys) + 1 = 1 /\ Lands(key)'
  BY <1>3, <1>5
<1> QED
  <2> SUFFICES ASSUME NEW i \in DOMAIN keys', keys'[i].alone
               PROVE  i = 1 /\ Lands(keys[i])'
    BY DEF KeysInv
  <2>1. CASE i \in DOMAIN keys
    BY <1>4, <2>1
  <2>2. CASE i = Len(keys) + 1
    BY <1>1, <1>5, <2>2 DEF Lands
  <2> QED
    BY <1>1, <2>1, <2>2

LEMMA ActorPresses ==
  ASSUME IInv, NEW p \in Actors, NEW d \in Rows, Become(p, d), RowInv(d), AloneRow(p, d)',
         NEW key \in KeyRows, keys' = Append(keys, key), key.by = p,
         key.alone => keys = <<>> /\ Lands(key),
         UNCHANGED <<session, screen, armed>>
  PROVE  IInv'
<1>1. /\ doing' \in [Actors -> Rows] /\ doing'[p] = d
      /\ \A q \in Actors \ {p} : doing'[q] = doing[q]
  BY RowsBecome DEF IInv, TypeInv
<1>2. TypeInv'
  <2>1. SessionInv'
    BY SessionKept DEF IInv, TypeInv
  <2>2. \A q \in Actors : RowInv(doing'[q])
    BY <1>1 DEF IInv, TypeInv
  <2>3. keys' \in Seq(KeyRows)
    BY OwnKeysAppend DEF IInv, TypeInv
  <2> QED
    BY <1>1, <2>1, <2>2, <2>3 DEF TypeInv
<1>3. KeysInv'
  BY KeysAppend
<1>4. AloneInv'
  <2> SUFFICES ASSUME NEW q \in Actors
               PROVE  AloneRow(q, doing[q])'
    BY DEF AloneInv
  <2>1. CASE q = p
    BY <2>1, <1>1 DEF AloneRow
  <2>2. CASE q # p
    <3>1. PICK c : c = doing[q]
      OBVIOUS
    <3>2. AloneRow(q, c)
      BY <3>1 DEF IInv, AloneInv
    <3>3. /\ OwnKeys(q)' = OwnKeys(q) \cup (IF key.by = q THEN {Len(keys) + 1} ELSE {})
          /\ \A i \in DOMAIN keys : keys'[i] = keys[i]
      BY OwnKeysAppend DEF IInv, TypeInv
    <3>4. OwnKeys(q)' = OwnKeys(q) /\ \A i \in OwnKeys(q) : keys'[i] = keys[i]
      BY <2>2, <3>3 DEF OwnKeys
    <3>5. AloneRow(q, c)'
      BY <3>2, <3>4, AloneKept
    <3> QED
      BY <2>2, <3>1, <3>5, <1>1
  <2> QED
    BY <2>1, <2>2
<1> QED
  BY <1>2, <1>3, <1>4 DEF IInv
-----------------------------------------------------------------------------
(* The session and its terminal. *)

LEMMA WriteIInv ==
  ASSUME IInv, Write
  PROVE  IInv'
<1>1. SessionInv'
  BY ScriptTypes DEF IInv, TypeInv, Write, SessionInv, screen, PromptIds
<1> QED
  BY <1>1, SessionMoves DEF Write

LEMMA ResultIInv ==
  ASSUME IInv, NEW n \in Ids, Result(n)
  PROVE  IInv'
<1>1. SessionInv'
  BY ScriptTypes DEF IInv, TypeInv, Result, SessionInv, screen, PromptIds, Ids
<1> QED
  BY <1>1, SessionMoves DEF Result

LEMMA ArmedIInv ==
  ASSUME IInv, NEW to \in Modes, handle_chat_auto_answer_set(to)
  PROVE  IInv'
<1>1. SessionInv'
  BY DEF IInv, TypeInv, handle_chat_auto_answer_set, SessionInv, screen, session
<1> QED
  BY <1>1, SessionMoves DEF handle_chat_auto_answer_set

LEMMA NobodyAlone ==
  ASSUME \A q \in Actors : ~doing'[q].alone, \A i \in DOMAIN keys' : ~keys'[i].alone
  PROVE  KeysInv' /\ AloneInv'
BY DEF KeysInv, AloneInv, AloneRow

LEMMA RaiseIInv ==
  ASSUME IInv, Raise
  PROVE  IInv'
<1>1. \A q \in Actors : ~doing'[q].alone
  BY DEF IInv, AloneInv, AloneRow, Raise
<1>2. \A i \in DOMAIN keys' : ~keys'[i].alone
  BY DEF IInv, KeysInv, Lands, Raise
<1>3. SessionInv'
  <2>1. raised + 1 \in Ids /\ raised + 1 \in 0..asked
    BY ScriptTypes DEF IInv, TypeInv, SessionInv, Raise, PromptIds, Ids
  <2>2. 1 \in DOMAIN Labels(raised + 1)
    BY <2>1, ScriptTypes
  <2>3. Sought \subseteq 1..asked
    BY DEF Sought
  <2>4. above' \subseteq (1..asked) \ {shown'}
    BY <2>3 DEF Raise
  <2> QED
    BY <2>1, <2>2, <2>4 DEF IInv, TypeInv, SessionInv, Raise
<1>4. TypeInv'
  BY <1>3 DEF IInv, TypeInv, Raise
<1> QED
  BY <1>1, <1>2, <1>4, NobodyAlone DEF IInv

LEMMA DieIInv ==
  ASSUME IInv, Die
  PROVE  IInv'
<1>1. \A q \in Actors : doing'[q] = [doing[q] EXCEPT !.alone = FALSE]
  BY DEF Die
<1>2. ASSUME NEW q \in Actors
      PROVE  doing'[q] \in Rows /\ ~doing'[q].alone /\ RowInv(doing'[q])
  <2>1. PICK d \in Rows : d = doing[q]
    BY DEF IInv, TypeInv
  <2> DEFINE e == [d EXCEPT !.alone = FALSE]
  <2>2. RowInv(d) /\ doing'[q] = e
    BY <1>1, <2>1 DEF IInv, TypeInv
  <2>3. e \in Rows /\ ~e.alone /\ RowInv(e)
    BY <2>2 DEF Rows, RowInv
  <2> HIDE DEF e
  <2> QED
    BY <2>2, <2>3
<1>3. doing' \in [Actors -> Rows]
  BY <1>2 DEF Die
<1>4. keys' \in Seq(KeyRows) /\ DOMAIN keys' = {}
  BY DEF Die
<1>5. SessionInv'
  BY DEF IInv, TypeInv, Die, SessionInv, PromptIds
<1>6. TypeInv'
  BY <1>2, <1>3, <1>4, <1>5 DEF TypeInv
<1> QED
  BY <1>2, <1>4, <1>6, NobodyAlone DEF IInv

LEMMA PressIInv ==
  ASSUME IInv, NEW press \in Presses, Press(press)
  PROVE  IInv'
<1>1. Key(Person, press) \in KeyRows /\ ~Key(Person, press).alone /\ Key(Person, press).by = Person
  BY PressesAreKeys, ScriptTypes DEF Key, KeyRows, Words, PromptIds
<1>2. keys' = Append(keys, Key(Person, press)) /\ UNCHANGED <<session, screen, armed, doing>>
  BY DEF Press
<1>3. KeysInv'
  BY <1>1, <1>2, KeysAppend
<1>4. keys' \in Seq(KeyRows)
  BY <1>1, <1>2, OwnKeysAppend DEF IInv, TypeInv
<1>5. SessionInv'
  BY <1>2, SessionKept DEF IInv, TypeInv
<1>6. TypeInv'
  BY <1>2, <1>4, <1>5 DEF IInv, TypeInv
<1>7. AloneInv'
  <2> SUFFICES ASSUME NEW q \in Actors
               PROVE  AloneRow(q, doing[q])'
    BY DEF AloneInv
  <2>1. PICK c : c = doing[q]
    OBVIOUS
  <2>2. AloneRow(q, c)
    BY <2>1 DEF IInv, AloneInv
  <2>3. q # Person
    BY ActorsDiffer DEF Actors
  <2>4. OwnKeys(q)' = OwnKeys(q) /\ \A i \in OwnKeys(q) : keys'[i] = keys[i]
    BY <1>1, <1>2, <2>3, OwnKeysAppend DEF IInv, TypeInv, OwnKeys
  <2>5. AloneRow(q, c)'
    BY <1>2, <2>2, <2>4, AloneKept
  <2> QED
    BY <1>2, <2>1, <2>5
<1> QED
  BY <1>3, <1>6, <1>7 DEF IInv

LEMMA KeysTail ==
  ASSUME IInv, keys # <<>>, keys' = Tail(keys)
  PROVE  /\ keys' \in Seq(KeyRows)
         /\ 1 \in DOMAIN keys /\ Head(keys) = keys[1] /\ keys[1] \in KeyRows
         /\ \A i \in DOMAIN keys' : i \in Nat \ {0} /\ i + 1 \in DOMAIN keys /\ keys'[i] = keys[i + 1]
         /\ \A i \in DOMAIN keys' : ~keys'[i].alone
<1>1. keys \in Seq(KeyRows)
  BY DEF IInv, TypeInv
<1>2. /\ keys' \in Seq(KeyRows)
      /\ 1 \in DOMAIN keys /\ Head(keys) = keys[1] /\ keys[1] \in KeyRows
      /\ \A i \in DOMAIN keys' : i \in Nat \ {0} /\ i + 1 \in DOMAIN keys /\ keys'[i] = keys[i + 1]
  BY <1>1
<1>3. \A i \in DOMAIN keys' : ~keys'[i].alone
  BY <1>2 DEF IInv, KeysInv
<1> QED
  BY <1>2, <1>3

LEMMA UnheededIInv ==
  ASSUME IInv, Unheeded
  PROVE  IInv'
<1>1. keys # <<>> /\ keys' = Tail(keys) /\ UNCHANGED <<session, screen, armed, doing>>
  BY DEF Unheeded
<1>2. /\ keys' \in Seq(KeyRows)
      /\ \A i \in DOMAIN keys' : i \in Nat \ {0} /\ i + 1 \in DOMAIN keys /\ keys'[i] = keys[i + 1]
      /\ \A i \in DOMAIN keys' : ~keys'[i].alone
  BY <1>1, KeysTail
<1>3. KeysInv'
  BY <1>2 DEF KeysInv
<1>4. TypeInv'
  BY <1>1, <1>2, SessionKept DEF IInv, TypeInv
<1>5. AloneInv'
  <2> SUFFICES ASSUME NEW q \in Actors
               PROVE  AloneRow(q, doing[q])'
    BY DEF AloneInv
  <2>1. PICK c : c = doing[q]
    OBVIOUS
  <2>2. AloneRow(q, c)
    BY <2>1 DEF IInv, AloneInv
  <2>3. OwnKeys(q)' = {i \in DOMAIN keys' : keys'[i].by = q}
    BY DEF OwnKeys
  <2>4. \A i \in OwnKeys(q)' : i \in Nat /\ i + 1 \in OwnKeys(q) /\ keys'[i] = keys[i + 1]
    BY <1>2, <2>3 DEF OwnKeys
  <2>5. \A i, j \in OwnKeys(q)' : i + 1 = j + 1 => i = j
    BY <2>4
  <2>6. /\ shown' = shown /\ cursor' = cursor
        /\ \A n : Readable(n)' <=> Readable(n)
    BY <1>1 DEF screen, Readable
  <2>7. AloneRow(q, c)'
    <3> SUFFICES ASSUME c.alone
                 PROVE  AloneRow(q, c)'
      BY DEF AloneRow
    <3>1. CASE c.at = "look_again"
      BY <2>2, <2>4, <2>5, <2>6, <3>1 DEF AloneRow
    <3>2. CASE c.at # "look_again"
      BY <2>2, <2>4, <2>6, <3>2 DEF AloneRow
    <3> QED
      BY <3>1, <3>2
  <2> QED
    BY <1>1, <2>1, <2>7
<1> QED
  BY <1>3, <1>4, <1>5 DEF IInv

LEMMA ProcessIInv ==
  ASSUME IInv, Process
  PROVE  IInv'
<1> DEFINE key == keys[1]
<1>1. keys # <<>> /\ keys' = Tail(keys) /\ UNCHANGED <<session, armed>>
  BY DEF Process
<1>2. /\ keys' \in Seq(KeyRows)
      /\ 1 \in DOMAIN keys /\ Head(keys) = key /\ key \in KeyRows
      /\ \A i \in DOMAIN keys' : i \in Nat \ {0} /\ i + 1 \in DOMAIN keys /\ keys'[i] = keys[i + 1]
      /\ \A i \in DOMAIN keys' : ~keys'[i].alone
  BY <1>1, KeysTail
<1>3. shown' = IF key.press \in {"enter", "escape"} THEN 0 ELSE shown
  BY <1>2 DEF Process
<1>4. key.press \notin {"enter", "escape"} =>
          /\ above' = above
          /\ cursor' = CASE shown # 0 /\ key.press = "down" /\ cursor < Len(Labels(shown)) -> cursor + 1
                         [] shown # 0 /\ key.press = "up" /\ cursor > 1 -> cursor - 1
                         [] OTHER -> cursor
  BY <1>2 DEF Process
<1>5. \A q \in Actors : doing'[q] = [doing[q] EXCEPT !.alone = doing[q].alone /\ q = key.by]
  BY <1>2 DEF Process
<1>6. KeysInv'
  BY <1>2 DEF KeysInv
<1>7. ASSUME NEW q \in Actors, NEW d \in Rows, d = doing[q]
      PROVE  /\ doing'[q] \in Rows
             /\ doing'[q].alone = (d.alone /\ q = key.by)
             /\ RowInv(doing'[q])
             /\ q = key.by => doing'[q] = d
  <2>1. RowInv(d)
    BY <1>7 DEF IInv, TypeInv
  <2>2. PICK b \in BOOLEAN : b = (d.alone /\ q = key.by)
    OBVIOUS
  <2> DEFINE e == [d EXCEPT !.alone = b]
  <2>3. doing'[q] = e
    BY <1>5, <1>7, <2>2
  <2>4. e \in Rows /\ e.alone = b /\ RowInv(e)
    BY <2>1 DEF Rows, RowInv
  <2>5. d.alone = b => e = d
    BY DEF Rows
  <2>6. q = key.by => d.alone = b
    <3>1. d.alone \in BOOLEAN
      BY DEF Rows
    <3> QED
      BY <2>2, <3>1
  <2> HIDE DEF e
  <2> QED
    BY <2>2, <2>3, <2>4, <2>5, <2>6
<1>8. SessionInv'
  <2>1. shown # 0 => shown \in Ids
    BY ScriptTypes DEF IInv, TypeInv, SessionInv, PromptIds, Ids
  <2>2. shown' # 0 => cursor' \in DOMAIN Labels(shown)
    BY <1>3, <1>4, <2>1, ScriptTypes DEF IInv, TypeInv, SessionInv
  <2>3. above' \subseteq (1..asked) \ {shown'}
    BY <1>2, <1>3 DEF IInv, TypeInv, SessionInv, Process
  <2> QED
    BY <1>1, <1>3, <2>2, <2>3 DEF IInv, TypeInv, SessionInv, session
<1>9. TypeInv'
  <2>1. \A q \in Actors : doing'[q] \in Rows /\ RowInv(doing'[q])
    BY <1>7 DEF IInv, TypeInv
  <2>2. doing' \in [Actors -> Rows]
    BY <2>1 DEF Process
  <2> QED
    BY <1>2, <1>8, <2>1, <2>2 DEF TypeInv
<1>10. AloneInv'
  <2> SUFFICES ASSUME NEW q \in Actors, doing'[q].alone
               PROVE  AloneRow(q, doing[q])'
    BY DEF AloneInv, AloneRow
  <2>1. PICK c \in Rows : c = doing[q]
    BY DEF IInv, TypeInv
  <2>2. AloneRow(q, c)
    BY <2>1 DEF IInv, AloneInv
  <2>3. c.alone /\ q = key.by /\ doing'[q] = c
    <3>1. c.alone \in BOOLEAN
      BY DEF Rows
    <3> QED
      BY <1>7, <2>1, <3>1
  <2>4. 1 \in OwnKeys(q)
    BY <1>2, <2>3 DEF OwnKeys
  <2>5. /\ c.at = "look_again" /\ key.press \in {"up", "down"}
        /\ \A i \in OwnKeys(q) : i = 1
    BY <2>2, <2>3, <2>4 DEF AloneRow
  <2>6. shown' = shown /\ above' = above
    BY <1>3, <1>4, <2>5
  <2>7. OwnKeys(q)' = {}
    <3>1. OwnKeys(q)' = {i \in DOMAIN keys' : keys'[i].by = q}
      BY DEF OwnKeys
    <3>2. \A i \in OwnKeys(q)' : i \in Nat \ {0} /\ i + 1 \in OwnKeys(q)
      BY <1>2, <3>1 DEF OwnKeys
    <3> QED
      BY <2>5, <3>2
  <2>8. \A n : Readable(n)' <=> Readable(n)
    BY <2>6 DEF Readable
  <2>9. AloneRow(q, c)'
    BY <2>2, <2>5, <2>6, <2>7, <2>8 DEF AloneRow
  <2> QED
    BY <2>3, <2>9
<1> QED
  BY <1>6, <1>9, <1>10 DEF IInv
-----------------------------------------------------------------------------
(* What is pending. *)

LEMMA RowOf ==
  ASSUME IInv, NEW p \in Actors
  PROVE  doing[p] \in Rows /\ RowInv(doing[p]) /\ AloneRow(p, doing[p])
BY DEF IInv, TypeInv, AloneInv

LEMMA ScreenTypes ==
  ASSUME IInv
  PROVE  /\ shown \in PromptIds /\ asked \in PromptIds
         /\ shown # 0 => shown \in Ids /\ cursor \in Nat
<1>1. shown \in PromptIds /\ asked \in PromptIds /\ (shown # 0 => shown \in Ids)
  BY ScriptTypes DEF IInv, TypeInv, SessionInv, PromptIds, Ids
<1> QED
  BY <1>1, ScriptTypes DEF IInv, TypeInv, SessionInv

LEMMA BecomesIdle ==
  ASSUME IInv, NEW p \in Actors, Become(p, Idle), UNCHANGED <<session, screen, armed, keys>>
  PROVE  IInv'
BY IdleShape, ActorMoves

LEMMA RequestIInv ==
  ASSUME IInv, NEW p \in Handlers, NEW purpose \in {"answer", "dismiss"}, NEW want \in Nat,
         Request(p, purpose, want)
  PROVE  IInv'
<1>1. PICK c \in Rows : c = Idle
  BY IdleShape
<1> DEFINE d == [c EXCEPT !.at = "transcript", !.purpose = purpose, !.want = want]
<1>2. Become(p, d) /\ UNCHANGED <<session, screen, armed, keys>>
  BY <1>1 DEF Request, Step
<1>3. d \in Rows /\ ~d.alone /\ d.at = "transcript"
  BY <1>1, IdleShape DEF Rows, Spots
<1> HIDE DEF d
<1>4. RowInv(d) /\ AloneRow(p, d)
  BY <1>3 DEF RowInv, AloneRow, Looking
<1> QED
  BY <1>2, <1>3, <1>4, ActorMoves DEF Actors

LEMMA WatchIInv ==
  ASSUME IInv, chats_with_auto_answer
  PROVE  IInv'
<1>1. PICK c \in Rows : c = Idle
  BY IdleShape
<1> DEFINE d == [c EXCEPT !.at = "transcript", !.purpose = armed]
<1>2. Become(Watcher, d) /\ UNCHANGED <<session, screen, armed, keys>>
  BY <1>1 DEF chats_with_auto_answer, Step
<1>3. d \in Rows /\ ~d.alone /\ d.at = "transcript"
  <2>1. armed \in Modes
    BY DEF IInv, TypeInv, SessionInv
  <2> QED
    BY <1>1, <2>1, IdleShape DEF Rows, Spots
<1> HIDE DEF d
<1>4. RowInv(d) /\ AloneRow(Watcher, d)
  BY <1>3 DEF RowInv, AloneRow, Looking
<1> QED
  BY <1>2, <1>3, <1>4, ActorMoves DEF Actors

LEMMA FoundIInv ==
  ASSUME IInv, NEW p \in Actors, doing[p].at \in {"transcript", "screen"},
         NEW n \in PromptIds, NEW needle \in BOOLEAN, NEW approval \in BOOLEAN,
         Found(p, n, needle, approval), UNCHANGED <<session, screen, armed, keys>>
  PROVE  IInv'
<1>1. PICK c \in Rows : c = doing[p]
  BY RowOf
<1>2. ~c.alone
  BY <1>1, RowOf DEF AloneRow, Looking
<1> DEFINE d == [c EXCEPT !.pending = n, !.needle = needle]
           find == [d EXCEPT !.at = "find"]
           yes == [d EXCEPT !.at = "options", !.label = "yes", !.needle = FALSE]
           recommended == [d EXCEPT !.at = "options", !.label = "recommended", !.needle = FALSE]
<1>3. d \in Rows /\ ~d.alone
  BY <1>2 DEF Rows
<1>4. Become(p, find) \/ Become(p, yes) \/ Become(p, recommended) \/ Become(p, Idle)
  BY <1>1 DEF Found
<1> HIDE DEF d
<1>5. /\ find \in Rows /\ ~find.alone /\ find.at = "find"
      /\ yes \in Rows /\ ~yes.alone /\ yes.at = "options"
      /\ recommended \in Rows /\ ~recommended.alone /\ recommended.at = "options"
  BY <1>3 DEF Rows, Spots, Words
<1> HIDE DEF find, yes, recommended
<1>6. \A e \in {find, yes, recommended} : e \in Rows /\ RowInv(e) /\ AloneRow(p, e)
  BY <1>5 DEF RowInv, AloneRow, Looking
<1>7. ASSUME NEW e \in {find, yes, recommended}, Become(p, e)
      PROVE  IInv'
  BY <1>6, <1>7, ActorMoves
<1> QED
  BY <1>4, <1>7, BecomesIdle

LEMMA pending_questionIInv ==
  ASSUME IInv, NEW p \in Actors, pending_question(p)
  PROVE  IInv'
<1>1. doing[p].at = "transcript" /\ UNCHANGED <<session, screen, armed, keys>>
  BY DEF pending_question, Step
<1>2. CASE Open # {}
  <2> DEFINE n == Max(Open)
             needle == Kind(n) = "question"
             approval == Kind(n) = "plan"
  <2>1. n \in PromptIds
    <3>1. asked \in Nat /\ Open \subseteq 1..asked
      BY ScreenTypes, ScriptTypes DEF Open, PromptIds
    <3>2. n \in 1..asked
      BY <1>2, <3>1, LastExists
    <3> QED
      BY <3>2, ScreenTypes, ScriptTypes DEF PromptIds
  <2>2. Found(p, n, needle, approval)
    BY <1>2 DEF pending_question
  <2>3. needle \in BOOLEAN /\ approval \in BOOLEAN
    OBVIOUS
  <2> HIDE DEF n, needle, approval
  <2> QED
    BY <1>1, <2>1, <2>2, <2>3, FoundIInv
<1>3. CASE Open = {}
  <2>1. PICK c \in Rows : c = doing[p]
    BY RowOf
  <2> DEFINE d == [c EXCEPT !.at = "screen"]
  <2>2. Become(p, d)
    BY <1>3, <2>1 DEF pending_question
  <2>3. ~c.alone
    BY <1>1, <2>1, RowOf DEF AloneRow, Looking
  <2>4. d \in Rows /\ ~d.alone /\ d.at = "screen"
    BY <2>3 DEF Rows, Spots
  <2> HIDE DEF d
  <2>5. RowInv(d) /\ AloneRow(p, d)
    BY <2>4 DEF RowInv, AloneRow, Looking
  <2> QED
    BY <1>1, <2>2, <2>4, <2>5, ActorMoves
<1> QED
  BY <1>2, <1>3

LEMMA read_promptIInv ==
  ASSUME IInv, NEW p \in Actors, read_prompt(p)
  PROVE  IInv'
<1>1. doing[p].at = "screen" /\ UNCHANGED <<session, screen, armed, keys>>
  BY DEF read_prompt, Step
<1>2. CASE shown # 0
  <2>1. Found(p, shown, TRUE, TRUE)
    BY <1>2 DEF read_prompt
  <2> QED
    BY <1>1, <2>1, ScreenTypes, FoundIInv
<1>3. CASE shown = 0
  BY <1>1, <1>3, BecomesIdle DEF read_prompt
<1> QED
  BY <1>2, <1>3

-----------------------------------------------------------------------------
(* The window, and the keys. *)

LEMMA find_targetIInv ==
  ASSUME IInv, NEW p \in Actors, find_target(p)
  PROVE  IInv'
<1>1. doing[p].at = "find" /\ UNCHANGED <<session, screen, armed, keys>>
  BY DEF find_target, Step
<1>2. CASE ~Target(p)
  BY <1>1, <1>2, BecomesIdle DEF find_target
<1>3. CASE Target(p)
  <2>1. PICK c \in Rows : c = doing[p]
    BY RowOf
  <2> DEFINE at == IF c.purpose = "dismiss" THEN "escape" ELSE "look"
  <2>2. PICK alone \in BOOLEAN : alone = IF p = Watcher THEN c.alone ELSE keys = <<>>
    <3>1. c.alone \in BOOLEAN
      BY DEF Rows
    <3> QED
      BY <3>1
  <2> DEFINE d == [c EXCEPT !.at = at, !.on = shown, !.saw = cursor, !.alone = alone]
  <2>3. Become(p, d)
    BY <1>3, <2>1, <2>2 DEF find_target
  <2>4. shown # 0 /\ (c.needle => Readable(c.pending))
    BY <1>3, <2>1 DEF Target
  <2>5. /\ d \in Rows /\ d.at \in {"look", "escape"} /\ d.on = shown /\ d.saw = cursor
        /\ d.alone = alone /\ d.needle = c.needle /\ d.pending = c.pending
        /\ d.label = c.label /\ d.want = c.want
    BY <2>4, ScreenTypes DEF Rows, Spots, Looking
  <2> HIDE DEF d
  <2>6. RowInv(d)
    BY <2>4, <2>5 DEF RowInv
  <2>7. AloneRow(p, d)
    <3>1. CASE p = Watcher
      <4>1. d.alone => c.alone
        BY <2>2, <2>5, <3>1
      <4>2. AloneRow(p, c)
        BY <2>1, RowOf
      <4> QED
        BY <1>1, <2>1, <2>4, <2>5, <4>1, <4>2 DEF AloneRow, Looking
    <3>2. CASE p # Watcher
      <4>1. d.alone => keys = <<>>
        BY <2>2, <2>5, <3>2
      <4>2. keys = <<>> => OwnKeys(p) = {}
        BY DEF OwnKeys
      <4> QED
        BY <2>4, <2>5, <3>2, <4>1, <4>2 DEF AloneRow, Looking
    <3> QED
      BY <3>1, <3>2
  <2> QED
    BY <1>1, <2>3, <2>5, <2>6, <2>7, ActorMoves
<1> QED
  BY <1>2, <1>3

LEMMA pending_optionsIInv ==
  ASSUME IInv, pending_options
  PROVE  IInv'
<1> DEFINE right == IF shown = 0 THEN {} ELSE Chosen(shown, doing[Watcher].label)
<1>1. Watcher \in Actors
  BY DEF Actors
<1>2. UNCHANGED <<session, screen, armed, keys>>
  BY DEF pending_options, Step
<1>3. CASE right = {}
  <2>1. Become(Watcher, Idle)
    BY <1>3 DEF pending_options
  <2> QED
    BY <1>1, <1>2, <2>1, BecomesIdle
<1>4. CASE right # {}
  <2>1. PICK c \in Rows : c = doing[Watcher]
    BY <1>1, RowOf
  <2>2. shown \in Ids /\ right = Chosen(shown, c.label) /\ shown # 0
    BY <1>4, <2>1, ScreenTypes
  <2>3. PICK x \in DOMAIN Labels(shown) : Chosen(shown, c.label) = {x} /\ Max(Chosen(shown, c.label)) = x
    BY <1>4, <2>2, ChosenIsOne
  <2>4. PICK alone \in BOOLEAN : alone = (keys = <<>>)
    OBVIOUS
  <2> DEFINE d == [c EXCEPT !.at = "find", !.want = x, !.alone = alone]
  <2>5. Become(Watcher, d)
    BY <1>4, <2>1, <2>2, <2>3, <2>4 DEF pending_options
  <2>6. /\ d \in Rows /\ d.at = "find" /\ d.alone = alone
        /\ d.label = c.label /\ d.want = x
    <3>1. x \in Nat
      BY <2>2, ScriptTypes
    <3> QED
      BY <3>1 DEF Rows, Spots
  <2> HIDE DEF d
  <2>7. d.alone => OwnKeys(Watcher) = {}
    <3>1. d.alone => keys = <<>>
      BY <2>4, <2>6
    <3>2. keys = <<>> => OwnKeys(Watcher) = {}
      BY DEF OwnKeys
    <3> QED
      BY <3>1, <3>2
  <2>8. RowInv(d) /\ AloneRow(Watcher, d)
    BY <2>2, <2>3, <2>6, <2>7 DEF RowInv, AloneRow, Looking
  <2> QED
    BY <1>1, <1>2, <2>5, <2>6, <2>8, ActorMoves
<1> QED
  BY <1>3, <1>4

LEMMA TowardsIInv ==
  ASSUME IInv, NEW p \in Actors, doing[p].at \in Looking, NEW saw \in Nat, Towards(p, saw),
         doing[p].alone => cursor = saw /\ OwnKeys(p) = {},
         UNCHANGED <<session, screen, armed, keys>>
  PROVE  IInv'
<1>1. PICK c \in Rows : c = doing[p]
  BY RowOf
<1>2. RowInv(c) /\ AloneRow(p, c)
  BY <1>1, RowOf
<1> DEFINE to(at) == [c EXCEPT !.saw = saw, !.at = at]
<1>3. \/ Become(p, to("enter")) /\ saw = c.want
      \/ Become(p, to("move")) /\ c.moves < MaxMoves
      \/ Become(p, Idle)
  BY <1>1 DEF Towards
<1>4. ASSUME NEW at \in {"enter", "move"}, at = "enter" => saw = c.want, at = "move" => c.moves < MaxMoves,
             Become(p, to(at))
      PROVE  IInv'
  <2> DEFINE d == to(at)
  <2>1. /\ d \in Rows /\ d.at = at /\ d.saw = saw /\ d.want = c.want /\ d.moves = c.moves
        /\ d.on = c.on /\ d.alone = c.alone /\ d.needle = c.needle /\ d.pending = c.pending
        /\ d.label = c.label
    BY DEF Rows, Spots, Looking
  <2>2. Become(p, d)
    BY <1>4
  <2> HIDE DEF d
  <2>3. RowInv(d)
    BY <1>1, <1>2, <1>4, <2>1 DEF RowInv
  <2>4. AloneRow(p, d)
    BY <1>1, <1>2, <1>4, <2>1 DEF AloneRow, Looking
  <2> QED
    BY <2>1, <2>2, <2>3, <2>4, ActorMoves
<1> HIDE DEF to
<1> QED
  BY <1>3, <1>4, BecomesIdle

LEMMA LookIInv ==
  ASSUME IInv, NEW p \in Actors, Look(p)
  PROVE  IInv'
<1>1. doing[p].at = "look" /\ UNCHANGED <<session, screen, armed, keys>>
  BY DEF Look, Step
<1>2. doing[p].alone => OwnKeys(p) = {}
  BY <1>1, RowOf DEF AloneRow
<1>3. (shown # 0 /\ Towards(p, cursor)) \/ Become(p, Idle)
  BY DEF Look
<1>4. CASE shown # 0 /\ Towards(p, cursor)
  BY <1>1, <1>2, <1>4, ScreenTypes, TowardsIInv DEF Looking
<1> QED
  BY <1>1, <1>3, <1>4, BecomesIdle

LEMMA LookAtOldIInv ==
  ASSUME IInv, NEW p \in Actors, LookAtOld(p)
  PROVE  IInv'
<1>1. doing[p].at = "look" /\ UNCHANGED <<session, screen, armed, keys>>
  BY DEF LookAtOld, Step
<1>2. doing[p].alone => OwnKeys(p) = {} /\ cursor = doing[p].saw
  BY <1>1, RowOf DEF AloneRow
<1>3. Towards(p, doing[p].saw) \/ Become(p, Idle)
  BY DEF LookAtOld
<1>4. doing[p].saw \in Nat
  BY RowOf DEF Rows
<1>5. CASE Towards(p, doing[p].saw)
  BY <1>1, <1>2, <1>4, <1>5, TowardsIInv DEF Looking
<1> QED
  BY <1>1, <1>3, <1>5, BecomesIdle

LEMMA LookAgainIInv ==
  ASSUME IInv, NEW p \in Actors, LookAgain(p)
  PROVE  IInv'
<1>1. doing[p].at = "look_again" /\ UNCHANGED <<session, screen, armed, keys>>
  BY DEF LookAgain, Step
<1>2. \/ shown # 0 /\ cursor # doing[p].saw /\ Towards(p, cursor)
      \/ Become(p, Idle)
  BY DEF LookAgain, Moved
<1>3. CASE shown # 0 /\ cursor # doing[p].saw /\ Towards(p, cursor)
  <2>1. doing[p].alone => OwnKeys(p) = {}
    BY <1>1, <1>3, RowOf DEF AloneRow
  <2> QED
    BY <1>1, <1>3, <2>1, ScreenTypes, TowardsIInv DEF Looking
<1> QED
  BY <1>1, <1>2, <1>3, BecomesIdle

LEMMA KeyShape ==
  ASSUME NEW p \in Actors \cup {Person}, NEW press \in {"up", "down", "enter", "escape"}
  PROVE  /\ Key(p, press) \in KeyRows /\ Key(p, press).by = p /\ Key(p, press).press = press
         /\ ~Key(p, press).alone
BY ScriptTypes DEF Key, KeyRows, Words, PromptIds

LEMMA MoveIInv ==
  ASSUME IInv, NEW p \in Actors, Move(p)
  PROVE  IInv'
<1>1. doing[p].at = "move" /\ UNCHANGED <<session, screen, armed>>
  BY DEF Move, Step
<1>2. PICK c \in Rows : c = doing[p]
  BY RowOf
<1>3. RowInv(c) /\ AloneRow(p, c)
  BY <1>2, RowOf
<1> DEFINE d == [c EXCEPT !.at = "look_again", !.moves = c.moves + 1]
           press == IF c.want > c.saw THEN "down" ELSE "up"
           key == Key(p, press)
<1>4. Become(p, d) /\ keys' = Append(keys, key)
  BY <1>2 DEF Move
<1>5. key \in KeyRows /\ key.by = p /\ key.press \in {"up", "down"} /\ ~key.alone
  BY KeyShape
<1>6. /\ d \in Rows /\ d.at = "look_again" /\ d.on = c.on /\ d.alone = c.alone
      /\ d.needle = c.needle /\ d.pending = c.pending /\ d.label = c.label
      /\ d.want = c.want /\ d.saw = c.saw
  <2>1. c.moves \in 0..MaxMoves /\ c.moves < MaxMoves
    BY <1>1, <1>2, <1>3 DEF RowInv, Rows
  <2>2. c.moves + 1 \in 0..MaxMoves
    BY <2>1, MovesAreCounted
  <2> QED
    BY <2>2 DEF Rows, Spots, Looking
<1> HIDE DEF d, key
<1>7. RowInv(d)
  BY <1>1, <1>2, <1>3, <1>6 DEF RowInv, Looking
<1>8. AloneRow(p, d)'
  <2> SUFFICES ASSUME d.alone
               PROVE  AloneRow(p, d)'
    BY DEF AloneRow
  <2>1. /\ OwnKeys(p)' = OwnKeys(p) \cup {Len(keys) + 1}
        /\ keys'[Len(keys) + 1] = key
    BY <1>4, <1>5, OwnKeysAppend DEF IInv, TypeInv
  <2>2. OwnKeys(p) = {} /\ cursor = c.saw
    BY <1>1, <1>2, <1>3, <1>6 DEF AloneRow
  <2>3. shown' = shown /\ cursor' = cursor /\ above' = above
    BY <1>1 DEF screen
  <2>4. \A n : Readable(n)' <=> Readable(n)
    BY <2>3 DEF Readable
  <2> QED
    BY <1>1, <1>2, <1>3, <1>5, <1>6, <2>1, <2>2, <2>3, <2>4 DEF AloneRow, Looking
<1> QED
  BY <1>1, <1>4, <1>5, <1>6, <1>7, <1>8, ActorPresses

LEMMA ConfirmIInv ==
  ASSUME IInv, NEW p \in Actors, NEW press \in {"enter", "escape"}, Confirm(p, press, press)
  PROVE  IInv'
<1>1. /\ doing[p].at = press /\ UNCHANGED <<session, screen, armed>>
      /\ keys' = Append(keys, LastKey(p, press)) /\ Become(p, Idle)
  BY DEF Confirm, Step
<1>2. PICK c \in Rows : c = doing[p]
  BY RowOf
<1>3. RowInv(c) /\ AloneRow(p, c)
  BY <1>2, RowOf
<1>4. PICK b \in KeyRows : b = Key(p, press)
  BY KeyShape
<1>5. b.press = press /\ b.by = p
  BY <1>4, KeyShape
<1>6. PICK alone \in BOOLEAN : alone = (c.alone /\ \A i \in DOMAIN keys : keys[i].by = p)
  OBVIOUS
<1> DEFINE meant == IF c.needle THEN c.pending ELSE c.on
           key == [b EXCEPT !.want = c.want, !.label = c.label, !.on = c.on,
                            !.meant = meant, !.alone = alone]
<1>7. key = LastKey(p, press)
  BY <1>2, <1>4, <1>6 DEF LastKey
<1>8. /\ key \in KeyRows /\ key.press = press /\ key.by = p /\ key.want = c.want
      /\ key.label = c.label /\ key.on = c.on /\ key.meant = meant /\ key.alone = alone
  BY <1>5 DEF KeyRows, Rows
<1> HIDE DEF key
<1>9. ASSUME key.alone
      PROVE  keys = <<>> /\ Lands(key)
  <2>1. c.alone /\ \A i \in DOMAIN keys : keys[i].by = p
    BY <1>6, <1>8, <1>9
  <2>2. OwnKeys(p) = {}
    BY <1>1, <1>2, <1>3, <2>1 DEF AloneRow
  <2>3. DOMAIN keys = {}
    BY <2>1, <2>2 DEF OwnKeys
  <2>4. keys = <<>>
    BY <2>3 DEF IInv, TypeInv
  <2>5. shown # 0 /\ c.on = shown /\ (c.needle => Readable(c.pending))
    BY <1>1, <1>2, <1>3, <2>1 DEF AloneRow, Looking
  <2>6. Readable(meant)
    <3>1. CASE c.needle
      BY <2>5, <3>1
    <3>2. CASE ~c.needle
      BY <2>5, <3>2 DEF Readable
    <3> QED
      BY <3>1, <3>2
  <2>7. Lands(key)
    BY <1>1, <1>2, <1>3, <1>8, <2>1, <2>5, <2>6 DEF AloneRow, RowInv, Lands, Looking
  <2> QED
    BY <2>4, <2>7
<1>10. AloneRow(p, Idle)'
  BY IdleShape DEF AloneRow
<1> QED
  BY <1>1, <1>7, <1>8, <1>9, <1>10, IdleShape, ActorPresses

LEMMA FailsIInv ==
  ASSUME IInv, NEW p \in Actors, Fails(p)
  PROVE  IInv'
<1>1. Become(p, Idle) /\ UNCHANGED <<session, screen, armed, keys>>
  BY DEF Fails, Step
<1> QED
  BY <1>1, BecomesIdle

-----------------------------------------------------------------------------
(* The theorems. *)

LEMMA DoIInv ==
  ASSUME IInv, NEW p \in Actors, Do(p)
  PROVE  IInv'
<1>1. CASE pending_question(p)
  BY <1>1, pending_questionIInv
<1>2. CASE read_prompt(p)
  BY <1>2, read_promptIInv
<1>3. CASE find_target(p)
  BY <1>3, find_targetIInv
<1>4. CASE Look(p)
  BY <1>4, LookIInv
<1>5. CASE Move(p)
  BY <1>5, MoveIInv
<1>6. CASE LookAgain(p)
  BY <1>6, LookAgainIInv
<1>7. CASE Confirm(p, "enter", "enter") \/ Confirm(p, "escape", "escape")
  BY <1>7, ConfirmIInv
<1> QED
  BY <1>1, <1>2, <1>3, <1>4, <1>5, <1>6, <1>7 DEF Do

LEMMA StutterIInv ==
  ASSUME IInv, UNCHANGED vars
  PROVE  IInv'
<1>1. SessionInv'
  BY DEF vars, IInv, TypeInv, SessionInv
<1> QED
  BY <1>1, SessionMoves DEF vars, screen

LEMMA NextIInv ==
  ASSUME IInv, [Next]_vars
  PROVE  IInv'
<1>1. CASE Write \/ Raise \/ Die \/ Process \/ Unheeded
  BY <1>1, WriteIInv, RaiseIInv, DieIInv, ProcessIInv, UnheededIInv
<1>2. CASE \E n \in Ids : Result(n)
  BY <1>2, ResultIInv
<1>3. CASE \E press \in Presses : Press(press)
  BY <1>3, PressIInv
<1>4. ASSUME NEW p \in Handlers,
             \/ Request(p, "dismiss", 0)
             \/ \E n \in Ids : \E want \in DOMAIN Labels(n) : Request(p, "answer", want)
             \/ Do(p)
      PROVE  IInv'
  <2>1. CASE Request(p, "dismiss", 0)
    BY <2>1, RequestIInv
  <2>2. CASE \E n \in Ids : \E want \in DOMAIN Labels(n) : Request(p, "answer", want)
    <3>1. PICK n \in Ids : \E want \in DOMAIN Labels(n) : Request(p, "answer", want)
      BY <2>2
    <3>2. PICK want \in DOMAIN Labels(n) : Request(p, "answer", want)
      BY <3>1
    <3>3. want \in Nat
      BY ScriptTypes
    <3> QED
      BY <3>2, <3>3, RequestIInv
  <2>3. CASE Do(p)
    BY <2>3, DoIInv DEF Actors
  <2> QED
    BY <1>4, <2>1, <2>2, <2>3
<1>5. CASE \E p \in Actors : LookAtOld(p) \/ Fails(p)
  BY <1>5, LookAtOldIInv, FailsIInv
<1>6. CASE \E to \in Modes \ {armed} : handle_chat_auto_answer_set(to)
  BY <1>6, ArmedIInv
<1>7. CASE Watch
  BY <1>7, WatchIInv, pending_optionsIInv, DoIInv DEF Watch, Actors
<1>8. CASE UNCHANGED vars
  BY <1>8, StutterIInv
<1> QED
  BY <1>1, <1>2, <1>3, <1>4, <1>5, <1>6, <1>7, <1>8 DEF Next

LEMMA Invariance == Spec => []IInv
<1>1. Init => IInv
  BY InitIInv
<1>2. IInv /\ [Next]_vars => IInv'
  BY NextIInv
<1> QED
  BY <1>1, <1>2, PTL DEF Spec

\* Every variable keeps to its values; the highlight is on an option of the
\* prompt on screen, and enter is pressed only where it was seen on the wanted
\* one (prompts.answer).
THEOREM TypeCorrect == Spec => []TypeOK
<1>1. IInv => TypeOK
  BY TypesFollow DEF IInv
<1> QED
  BY <1>1, Invariance, PTL

\* The key that the terminal is about to take, where it was pressed alone, is
\* the first of the queue, and lands.
LEMMA TakenLands ==
  ASSUME IInv, Taken.alone
  PROVE  keys # <<>> /\ Lands(Taken)
<1>1. keys # <<>>
  BY DEF Taken
<1>2. keys \in Seq(KeyRows)
  BY DEF IInv, TypeInv
<1>3. 1 \in DOMAIN keys /\ Taken = keys[1]
  BY <1>1, <1>2 DEF Taken
<1> QED
  BY <1>1, <1>3 DEF IInv, KeysInv

\* The prompt that is confirmed, or dismissed, is the one that was on screen as
\* the window was found, on the option that was meant, whenever the terminal
\* takes the key; and it is the prompt that the key was meant for, whatever the
\* transcript says is pending, where no other prompt's words on screen are the
\* same.  Unless somebody else's key came between: however many requests there
\* are, whatever is left on screen over a prompt, and however often the session
\* is stopped or a key goes unheeded (prompts.find_target, answer, dismiss).
THEOREM KeysAlwaysLand == Spec => []KeysLand
<1>1. IInv => KeysLand
  <2> SUFFICES ASSUME IInv
               PROVE  KeysLand
    OBVIOUS
  <2>1. TypeOK
    BY TypesFollow DEF IInv
  <2>2. Taken.alone => shown # 0 /\ Lands(Taken)
    BY TakenLands DEF Lands
  <2>3. ASSUME Taken.alone, Told(Taken.meant)
        PROVE  shown = Taken.meant
    <3>1. PICK m \in above \cup {shown} : Needle(m) = Needle(Taken.meant)
      BY <2>2, <2>3 DEF Lands, Readable, Told
    <3> QED
      BY <2>3, <3>1 DEF Told
  <2> QED
    BY <2>1, <2>2, <2>3 DEF KeysLand, Lands
<1> QED
  BY <1>1, Invariance, PTL

\* What the watcher of armed chats accepts is the one option of its kind, on the
\* prompt that is on screen when the key is taken, which need not be the one
\* that the transcript called pending (auto_answer.consider, choose_affirmative,
\* choose_recommended).
THEOREM WatcherAccepts == Spec => []AutoAccepts
<1>1. IInv => AutoAccepts
  <2> SUFFICES ASSUME IInv, Taken.alone, Taken.press = "enter", Taken.by = Watcher
               PROVE  {i \in DOMAIN Labels(shown) : Labels(shown)[i] = Taken.label} = {cursor}
    BY DEF AutoAccepts
  <2>1. /\ shown # 0 /\ cursor = Taken.want
        /\ Chosen(shown, Taken.label) = {Taken.want}
    BY TakenLands DEF Lands
  <2>2. shown \in Ids
    BY <2>1, ScreenTypes
  <2>3. {i \in DOMAIN Labels(shown) : Labels(shown)[i] = Taken.label} = Chosen(shown, Taken.label)
    BY <2>1, <2>2, ChosenIsOne
  <2> QED
    BY <2>1, <2>3
<1> QED
  BY <1>1, Invariance, PTL

-----------------------------------------------------------------------------
(***************************************************************************)
(* Following a transcript (TranscriptSync).                                *)
(***************************************************************************)

Said(line) == line[1] = "say"
History == [skipped: SUBSET Line, rewound: SUBSET Line, lost: SUBSET Row,
            taken: SUBSET (Row \X Row)]

\* One poll at a time, and only a poll that is under way has anything read.
OnePoll ==
    \A p \in Pollers :
        /\ pc[p] = "idle" => local[p] = Nothing
        /\ pc[p] # "idle" => lock = p
        /\ pc[p] \in {"skip", "move", "store"} => local[p].from <= local[p].to
        /\ pc[p] \in {"read", "skip"} => local[p].rows = <<>>

\* The terminal numbers what it says, so every line of it has one place in the
\* file and the numbers grow along it.
Numbered ==
    /\ \A i \in DOMAIN file : Said(file[i]) => file[i][2] <= Says
    /\ \A i, j \in DOMAIN file :
            i < j /\ Said(file[i]) /\ Said(file[j]) => file[i][2] < file[j][2]

\* What a poll read lies between its two offsets and in the file's order.
ReadRows(d) ==
    /\ \A i \in DOMAIN d.rows : Said(d.rows[i]) =>
            \E k \in (d.from + 1)..d.to : d.rows[i] = file[k]
    /\ \A i, j \in DOMAIN d.rows :
            i < j /\ Said(d.rows[i]) /\ Said(d.rows[j]) => d.rows[i][2] < d.rows[j][2]

\* A line no poll reads again, unless a skip went back behind it.
Behind(k) ==
    \/ file[k] \in history.rewound
    \/ k <= offset /\ \A p \in Pollers : pc[p] # "idle" => k <= local[p].from

\* All that stands before a stored line is behind.
StoredIsBehind ==
    \A i \in DOMAIN messages : Said(messages[i]) =>
        \E n \in DOMAIN file : file[n] = messages[i] /\ \A k \in 1..n : Behind(k)

InOrder ==
    \A i, j \in DOMAIN messages :
        Said(messages[i]) /\ Said(messages[j]) /\ messages[i] \notin history.rewound =>
            /\ messages[i][2] = messages[j][2] => i = j
            /\ messages[i][2] < messages[j][2] => i < j

HasOrExcused(line) == line \in ToSet(messages) \cup Excused

\* Where a poll is, its rows, the offset it began at and the stored one fit.
PollFits(p) ==
    /\ pc[p] \in {"move", "store"} => ReadRows(local[p])
    /\ pc[p] # "idle" =>
            \A k \in 1..local[p].from :
                /\ Said(file[k]) => HasOrExcused(file[k])
                /\ file[k] \in history.rewound \/ k <= offset
    /\ pc[p] = "move" =>
            \A k \in (local[p].from + 1)..local[p].to : file[k] \in ToSet(local[p].rows)
    /\ pc[p] = "store" =>
            \A k \in 1..local[p].to : file[k] \in history.rewound \/ k <= offset

PollsFit == \A p \in Pollers : PollFits(p)

\* A line behind the stored offset is stored or excused, or in the hands of the
\* poll that is about to store it.
Covered ==
    \A k \in 1..offset : Said(file[k]) =>
        \/ HasOrExcused(file[k])
        \/ \E p \in Pollers : pc[p] = "store" /\ file[k] \in ToSet(local[p].rows)

SyncInv ==
    /\ SyncTypeOK /\ OnePoll /\ Numbered
    /\ StoredIsBehind /\ InOrder /\ PollsFit /\ Covered
----------------------------------------------------------------------------
\* A line the terminal said is its number.
LEMMA SaidIsNumber ==
  ASSUME NEW line \in Row, Said(line)
  PROVE  line = <<"say", line[2]>> /\ line[2] \in 1..MaxLines
BY DEF Row, Line, Texts, Said

LEMMA LinesAreRows == Line \subseteq Row
BY DEF Row

LEMMA WroteCounts ==
  ASSUME NEW kinds, file \in Seq(Line), NEW line \in Line, file' = Append(file, line)
  PROVE  /\ Wrote(kinds) \in Nat
         /\ Wrote(kinds)' = IF line[1] \in kinds THEN Wrote(kinds) + 1 ELSE Wrote(kinds)
<1> DEFINE S == {i \in DOMAIN file : file[i][1] \in kinds}
           T == {i \in DOMAIN file' : file'[i][1] \in kinds}
           n == Len(file) + 1
<1>1. IsFiniteSet(S) /\ Cardinality(S) \in Nat
  <2>1. S \subseteq 1..Len(file) /\ Len(file) \in Nat
    OBVIOUS
  <2>2. IsFiniteSet(1..Len(file))
    BY <2>1, FS_Interval
  <2> QED
    BY <2>1, <2>2, FS_Subset, FS_CardinalityType
<1>2. /\ DOMAIN file' = 1..n /\ file'[n] = line /\ n \notin S
      /\ \A i \in DOMAIN file : i \in DOMAIN file' /\ file'[i] = file[i]
      /\ \A i \in DOMAIN file' : i \in DOMAIN file \/ i = n
  OBVIOUS
<1>3. T = IF line[1] \in kinds THEN S \cup {n} ELSE S
  BY <1>2
<1>4. Cardinality(S \cup {n}) = Cardinality(S) + 1
  BY <1>1, <1>2, FS_AddElement
<1>5. Wrote(kinds) = Cardinality(S) /\ Wrote(kinds)' = Cardinality(T)
  BY DEF Wrote
<1> QED
  BY <1>1, <1>3, <1>4, <1>5

LEMMA SaysAreLines ==
  ASSUME file \in Seq(Line)
  PROVE  Says \in Nat /\ Says <= Wrote({"say", "ask", "answer"})
<1> DEFINE S == {i \in DOMAIN file : file[i][1] \in {"say"}}
           T == {i \in DOMAIN file : file[i][1] \in {"say", "ask", "answer"}}
<1>1. S \subseteq T /\ T \subseteq 1..Len(file) /\ IsFiniteSet(1..Len(file))
  BY FS_Interval
<1>2. IsFiniteSet(T)
  BY <1>1, FS_Subset
<1>3. IsFiniteSet(S) /\ Cardinality(S) <= Cardinality(T)
  BY <1>1, <1>2, FS_Subset
<1>4. Cardinality(S) \in Nat
  BY <1>3, FS_CardinalityType
<1> QED
  BY <1>3, <1>4 DEF Says, Wrote

LEMMA MaxIsIn ==
  ASSUME NEW N \in Nat, NEW S, S \subseteq 0..N, S # {}
  PROVE  Max(S) \in S
<1> DEFINE T == {N - x : x \in S}
<1>1. T \subseteq Nat /\ T # {}
  <2>1. \A x \in S : x \in Nat /\ x <= N
    OBVIOUS
  <2>2. \A x \in S : N - x \in Nat
    BY <2>1
  <2> QED
    BY <2>2
<1>2. PICK t \in T : \A y \in T : ~ (<<y, t>> \in OpToRel(<, Nat))
  BY <1>1, NatLessThanWellFounded, WFMin
<1>3. PICK x \in S : t = N - x
  OBVIOUS
<1>4. ASSUME NEW y \in S
      PROVE  x >= y
  <2>1. N - y \in T /\ N - y \in Nat /\ t \in Nat
    BY <1>1
  <2>2. ~ (N - y < t)
    BY <2>1, <1>2 DEF OpToRel
  <2> QED
    BY <2>2, <1>3
<1> QED
  BY <1>4 DEF Max

\* What _drop_already_stored drops says what the end of the tail says.
LEMMA OverlapIsStored ==
  ASSUME NEW tail \in Seq(Row), NEW rows \in Seq(Row)
  PROVE  /\ Overlap(tail, rows) \in 0..Len(rows)
         /\ \A i \in 1..Overlap(tail, rows) :
                /\ Twin(tail, Overlap(tail, rows), i) \in ToSet(tail)
                /\ text[rows[i]] = text[Twin(tail, Overlap(tail, rows), i)]
<1> DEFINE S == {n \in 1..Len(rows) : n <= Len(tail)
                    /\ \A i \in 1..n : text[Twin(tail, n, i)] = text[rows[i]]}
           d == Overlap(tail, rows)
<1>1. d \in {0} \cup S
  <2>1. {0} \cup S \subseteq 0..Len(rows) /\ {0} \cup S # {} /\ Len(rows) \in Nat
    OBVIOUS
  <2> QED
    BY <2>1, MaxIsIn DEF Overlap
<1>2. ASSUME d \in S, NEW i \in 1..d
      PROVE  Twin(tail, d, i) \in ToSet(tail) /\ text[rows[i]] = text[Twin(tail, d, i)]
  <2>1. d <= Len(tail) /\ d \in Nat /\ text[Twin(tail, d, i)] = text[rows[i]]
    BY <1>2
  <2> HIDE DEF d
  <2>2. Len(tail) - d + i \in DOMAIN tail
    BY <1>2, <2>1
  <2> QED
    BY <2>1, <2>2 DEF Twin, ToSet
<1> QED
  BY <1>1, <1>2

LEMMA TailIsStored ==
  ASSUME messages \in Seq(Row)
  PROVE  StoredTail \in Seq(Row) /\ ToSet(StoredTail) \subseteq ToSet(messages)
<1> DEFINE n == Len(messages)
           m == Max({1, n - DedupWindow + 1})
<1>1. n \in Nat /\ m \in Nat /\ m >= 1
  <2>1. n \in Nat /\ n - DedupWindow + 1 \in Int
    BY BoundsAreNat
  <2>2. \A x \in Int : Max({1, x}) \in Int /\ Max({1, x}) >= 1
    <3> SUFFICES ASSUME NEW x \in Int
                 PROVE  Max({1, x}) \in Int /\ Max({1, x}) >= 1
      OBVIOUS
    <3>1. \E y \in {1, x} : \A z \in {1, x} : y >= z
      OBVIOUS
    <3>2. Max({1, x}) \in {1, x} /\ \A z \in {1, x} : Max({1, x}) >= z
      BY <3>1 DEF Max
    <3> QED
      BY <3>2
  <2>3. m \in Int /\ m >= 1
    BY <2>1, <2>2
  <2> QED
    BY <2>1, <2>3
<1>2. /\ StoredTail \in Seq(Row) /\ Len(StoredTail) = IF m <= n THEN n - m + 1 ELSE 0
      /\ \A i \in 1..(n - m + 1) : StoredTail[i] = messages[m + i - 1]
  <2> HIDE DEF m
  <2>1. \A i \in m..n : messages[i] \in Row
    BY <1>1
  <2>2. StoredTail = SubSeq(messages, m, n)
    BY DEF StoredTail, m
  <2> HIDE DEF n
  <2> QED
    BY <1>1, <2>1, <2>2, SubSeqProperties
<1>3. ASSUME NEW i \in DOMAIN StoredTail
      PROVE  StoredTail[i] \in ToSet(messages)
  <2> HIDE DEF m
  <2>1. i \in 1..(n - m + 1) /\ m + i - 1 \in DOMAIN messages
    BY <1>1, <1>2
  <2> QED
    BY <1>2, <2>1 DEF ToSet
<1> QED
  BY <1>2, <1>3 DEF ToSet

\* The new rows are what was read without a beginning that was taken for rows
\* already stored.
LEMMA NewIsASuffix ==
  ASSUME SyncTypeOK, NEW p \in Pollers
  PROVE  /\ New(p) \in Seq(Row)
         /\ Dropped(p) \in 0..Len(local[p].rows)
         /\ Len(New(p)) = Len(local[p].rows) - Dropped(p)
         /\ \A i \in DOMAIN New(p) : New(p)[i] = local[p].rows[Dropped(p) + i]
         /\ \A i \in 1..Dropped(p) :
                /\ Twin(StoredTail, Dropped(p), i) \in ToSet(messages)
                /\ text[local[p].rows[i]] = text[Twin(StoredTail, Dropped(p), i)]
<1> DEFINE rows == local[p].rows
           d == Dropped(p)
<1>1. rows \in Seq(Row) /\ messages \in Seq(Row)
  BY DEF SyncTypeOK, Local
<1>2. /\ d \in 0..Len(rows)
      /\ \A i \in 1..d : /\ Twin(StoredTail, d, i) \in ToSet(messages)
                         /\ text[rows[i]] = text[Twin(StoredTail, d, i)]
  BY <1>1, OverlapIsStored, TailIsStored DEF Dropped
<1>3. New(p) = SubSeq(rows, d + 1, Len(rows))
  BY DEF New
<1> HIDE DEF d, rows
<1>4. /\ New(p) \in Seq(Row) /\ Len(New(p)) = Len(rows) - d
      /\ \A i \in 1..(Len(rows) - d) : New(p)[i] = rows[d + i]
  <2>1. \A i \in (d + 1)..Len(rows) : rows[i] \in Row
    BY <1>1, <1>2
  <2>2. d + 1 \in Int /\ Len(rows) \in Int
    BY <1>1, <1>2
  <2> QED
    BY <1>1, <1>2, <1>3, <2>1, <2>2, SubSeqProperties
<1>5. DOMAIN New(p) = 1..(Len(rows) - d)
  BY <1>4
<1>6. \A i \in DOMAIN New(p) : New(p)[i] = rows[d + i]
  BY <1>4, <1>5
<1> QED
  BY <1>2, <1>4, <1>6 DEF rows, d

\* A row that is dropped is stored itself or noted with the row it was taken for.
LEMMA DropsNote ==
  ASSUME SyncTypeOK, NEW p \in Pollers, Drops(p)
  PROVE  /\ history' \in History
         /\ history'.skipped = history.skipped /\ history'.rewound = history.rewound
         /\ history'.lost = history.lost /\ history.taken \subseteq history'.taken
         /\ Excused \subseteq Excused'
         /\ \A i \in 1..Dropped(p) : local[p].rows[i] \in ToSet(messages) \cup Excused'
         /\ \A q \in history'.taken :
                \/ q \in history.taken
                \/ q[2] \in ToSet(messages) /\ text[q[1]] = text[q[2]]
<1> DEFINE rows == local[p].rows
           d == Dropped(p)
           twin(i) == Twin(StoredTail, d, i)
           N == {q \in Pairs(p) : q[1] # q[2]}
<1>1. /\ rows \in Seq(Row) /\ messages \in Seq(Row) /\ history \in History
  BY DEF SyncTypeOK, Local, History
<1>2. /\ d \in 0..Len(rows)
      /\ \A i \in 1..d : twin(i) \in ToSet(messages) /\ text[rows[i]] = text[twin(i)]
  BY NewIsASuffix
<1>3. \A q \in N : \E i \in 1..d : q = <<rows[i], twin(i)>>
  BY DEF Pairs
<1>4. \A i \in 1..d : rows[i] = twin(i) \/ <<rows[i], twin(i)>> \in N
  BY DEF Pairs
<1>5. history' = [history EXCEPT !.taken = @ \cup N]
  BY DEF Drops
<1> HIDE DEF N, d, rows, twin
<1>6. \A i \in 1..d : rows[i] \in Row
  BY <1>1, <1>2
<1>7. \A x \in ToSet(messages) : x \in Row
  BY <1>1 DEF ToSet
<1>8. N \subseteq Row \X Row
  BY <1>2, <1>3, <1>6, <1>7
<1>9. /\ history' \in History /\ history'.taken = history.taken \cup N
      /\ history'.skipped = history.skipped /\ history'.rewound = history.rewound
      /\ history'.lost = history.lost
  BY <1>1, <1>5, <1>8 DEF History
<1>10. Excused \subseteq Excused'
  BY <1>9 DEF Excused
<1>11. ASSUME NEW i \in 1..d
       PROVE  rows[i] \in ToSet(messages) \cup Excused'
  <2>1. CASE rows[i] = twin(i)
    BY <1>2, <2>1
  <2>2. CASE <<rows[i], twin(i)>> \in N
    <3>1. <<rows[i], twin(i)>>[1] \in Excused'
      BY <1>9, <2>2 DEF Excused
    <3> QED
      BY <3>1
  <2> QED
    BY <1>4, <2>1, <2>2
<1>12. ASSUME NEW q \in N
       PROVE  q[2] \in ToSet(messages) /\ text[q[1]] = text[q[2]]
  BY <1>2, <1>3
<1> QED
  BY <1>9, <1>10, <1>11, <1>12 DEF rows, d

LEMMA FreshTypes ==
  ASSUME NEW Q \in SUBSET Questions
  PROVE  NewestFirst(Q) \subseteq Seq(Questions)
<1>1. Cardinality(Q) \in Nat
  BY QuestionsAreFinite, FS_Subset, FS_CardinalityType
<1>2. [1..Cardinality(Q) -> Q] \subseteq [1..Cardinality(Q) -> Questions]
  OBVIOUS
<1> QED
  BY <1>1, <1>2, SeqDef DEF NewestFirst

----------------------------------------------------------------------------
LEMMA InitSyncInv == SyncInit => SyncInv
<1> SUFFICES ASSUME SyncInit
             PROVE  SyncInv
  OBVIOUS
<1> USE DEF SyncInit
<1>1. SyncTypeOK
  <2>1. <<>> \in Seq(Line) /\ <<>> \in Seq(Row) /\ <<>> \in Seq(Questions) /\ Len(file) = 0
    OBVIOUS
  <2>2. Nothing \in Local
    BY <2>1 DEF Nothing, Local
  <2> QED
    BY <2>1, <2>2, BoundsAreNat DEF SyncTypeOK, Nothing
<1>2. DOMAIN file = {} /\ DOMAIN messages = {}
  OBVIOUS
<1>3. OnePoll /\ Numbered /\ StoredIsBehind /\ InOrder
  BY <1>2 DEF OnePoll, Numbered, StoredIsBehind, InOrder
<1>4. PollsFit /\ Covered
  BY DEF PollsFit, PollFits, Nothing, Covered
<1> QED
  BY <1>1, <1>3, <1>4 DEF SyncInv

\* The file's lines stay where they are when one is added.
LEMMA LinesStay ==
  ASSUME file \in Seq(Line), NEW line \in Line, Writes(line)
  PROVE  /\ file' \in Seq(Line) /\ Len(file') = Len(file) + 1 /\ Len(file) \in Nat
         /\ \A i \in 1..Len(file) : file'[i] = file[i]
         /\ file'[Len(file) + 1] = line
BY DEF Writes

LEMMA NumberedGrows ==
  ASSUME file \in Seq(Line), Numbered, NEW line \in Line, Writes(line),
         Said(line) => line[2] = Says + 1
  PROVE  Numbered'
<1> DEFINE n == Len(file) + 1
<1>1. /\ Says \in Nat
      /\ Says' = IF Said(line) THEN Says + 1 ELSE Says
  BY WroteCounts DEF Says, Writes, Said
<1>2. /\ DOMAIN file = 1..Len(file) /\ DOMAIN file' = 1..n /\ Len(file) \in Nat
      /\ \A i \in 1..Len(file) : file'[i] = file[i]
      /\ file'[n] = line
  BY LinesStay
<1>3. ASSUME NEW i \in 1..Len(file), Said(file[i])
      PROVE  file[i][2] \in Nat /\ file[i][2] <= Says
  BY <1>2, <1>3, SaidIsNumber, LinesAreRows, BoundsAreNat DEF Numbered
<1>4. ASSUME NEW i \in DOMAIN file', Said(file'[i])
      PROVE  file'[i][2] <= Says'
  <2>1. CASE i = n
    BY <1>1, <1>2, <1>4, <2>1
  <2>2. CASE i \in 1..Len(file)
    BY <1>1, <1>2, <1>3, <1>4, <2>2
  <2> QED
    BY <1>2, <2>1, <2>2
<1>5. ASSUME NEW i \in DOMAIN file', NEW j \in DOMAIN file', i < j,
             Said(file'[i]), Said(file'[j])
      PROVE  file'[i][2] < file'[j][2]
  <2>1. i \in 1..Len(file)
    BY <1>2, <1>5
  <2>2. CASE j = n
    BY <1>1, <1>2, <1>3, <1>5, <2>1, <2>2
  <2>3. CASE j \in 1..Len(file)
    BY <1>2, <1>5, <2>1, <2>3 DEF Numbered
  <2> QED
    BY <1>2, <2>2, <2>3
<1> QED
  BY <1>4, <1>5 DEF Numbered

LEMMA FileGrows ==
  ASSUME SyncInv, NEW line \in Line, Writes(line), Said(line) => line[2] = Says + 1,
         turn' \in [Turns -> {"idle", "prompted", "replied", "stored", "read", "over"}],
         UNCHANGED <<messages, offset, seen, lock, pc, local, mark, history, faults, text>>
  PROVE  SyncInv'
<1>1. file \in Seq(Line) /\ offset \in 0..Len(file) /\ messages \in Seq(Row)
  BY DEF SyncInv, SyncTypeOK
<1>2. /\ file' \in Seq(Line) /\ Len(file') = Len(file) + 1 /\ Len(file) \in Nat
      /\ \A i \in 1..Len(file) : file'[i] = file[i]
  BY <1>1, LinesStay
<1>3. SyncTypeOK'
  <2>1. \A p \in Pollers : local[p].from \in Nat /\ local[p].to \in Nat
    BY DEF SyncInv, SyncTypeOK, Local
  <2>2. \A p \in Pollers : local'[p].from <= Len(file') /\ local'[p].to <= Len(file')
    BY <1>2, <2>1 DEF SyncInv, SyncTypeOK
  <2>3. mark' \in [Turns -> 0..Len(file')] /\ offset' \in 0..Len(file')
    BY <1>2 DEF SyncInv, SyncTypeOK
  <2> QED
    BY <1>2, <2>2, <2>3 DEF SyncInv, SyncTypeOK
<1>4. OnePoll'
  BY DEF SyncInv, OnePoll
<1>5. Numbered'
  BY <1>1, NumberedGrows DEF SyncInv
<1>6. ASSUME NEW k \in 1..Len(file), Behind(k)
      PROVE  Behind(k)'
  BY <1>2, <1>6 DEF Behind
<1>7. StoredIsBehind'
  <2>1. ASSUME NEW i \in DOMAIN messages, Said(messages[i])
        PROVE  \E n \in DOMAIN file' : file'[n] = messages[i] /\ \A k \in 1..n : Behind(k)'
    <3>1. PICK n \in DOMAIN file : file[n] = messages[i] /\ \A k \in 1..n : Behind(k)
      BY <2>1 DEF SyncInv, StoredIsBehind
    <3>2. n \in 1..Len(file) /\ n \in DOMAIN file' /\ file'[n] = file[n]
      BY <1>1, <1>2
    <3>3. \A k \in 1..n : k \in 1..Len(file)
      BY <1>2, <3>2
    <3> QED
      BY <1>6, <3>1, <3>2, <3>3
  <2> QED
    BY <2>1 DEF StoredIsBehind
<1>8. InOrder'
  BY DEF SyncInv, InOrder
<1>9. PollsFit'
  <2> SUFFICES ASSUME NEW p \in Pollers
               PROVE  PollFits(p)'
    BY DEF PollsFit
  <2>1. PollFits(p) /\ local[p].from \in 0..Len(file) /\ local[p].to \in 0..Len(file)
    BY <1>2 DEF SyncInv, PollsFit, SyncTypeOK, Local
  <2>2. /\ \A k \in 1..local[p].from : file'[k] = file[k]
        /\ \A k \in 1..local[p].to : file'[k] = file[k]
        /\ \A k \in (local[p].from + 1)..local[p].to : file'[k] = file[k]
    <3>1. PICK from, to \in 0..Len(file) : from = local[p].from /\ to = local[p].to
      BY <2>1
    <3>2. /\ \A k \in 1..from : file'[k] = file[k]
          /\ \A k \in 1..to : file'[k] = file[k]
          /\ \A k \in (from + 1)..to : file'[k] = file[k]
      BY <1>2
    <3> QED
      BY <3>1, <3>2
  <2>3. ReadRows(local[p]) => ReadRows(local[p])'
    <3>1. PICK d : d = local[p]
      OBVIOUS
    <3>2. /\ d = local'[p]
          /\ \A k \in (d.from + 1)..d.to : file'[k] = file[k]
      BY <2>2, <3>1
    <3>3. ReadRows(d) => ReadRows(d)'
      BY <3>2 DEF ReadRows
    <3> QED
      BY <3>1, <3>2, <3>3 DEF ReadRows
  <2> QED
    BY <2>1, <2>2, <2>3 DEF PollFits, HasOrExcused, Excused
<1>10. Covered'
  <2>1. \A k \in 1..offset : file'[k] = file[k]
    BY <1>1, <1>2
  <2> QED
    BY <2>1 DEF SyncInv, Covered, HasOrExcused, Excused
<1> QED
  BY <1>3, <1>4, <1>5, <1>7, <1>8, <1>9, <1>10 DEF SyncInv

\* Rows are stored behind those there are.
LEMMA RowsAppended ==
  ASSUME messages \in Seq(Row), NEW rows \in Seq(Row), messages' = messages \o rows
  PROVE  /\ messages' \in Seq(Row) /\ Len(messages) \in Nat
         /\ \A i \in DOMAIN messages : i \in DOMAIN messages' /\ messages'[i] = messages[i]
         /\ \A i \in DOMAIN messages' : i \in DOMAIN messages
               \/ \E j \in DOMAIN rows : i = Len(messages) + j /\ messages'[i] = rows[j]
         /\ ToSet(messages) \subseteq ToSet(messages') /\ ToSet(rows) \subseteq ToSet(messages')
<1>1. /\ messages' \in Seq(Row) /\ Len(messages') = Len(messages) + Len(rows)
      /\ Len(messages) \in Nat /\ Len(rows) \in Nat
      /\ \A i \in 1..Len(messages) : messages'[i] = messages[i]
      /\ \A j \in 1..Len(rows) : messages'[Len(messages) + j] = rows[j]
  OBVIOUS
<1>2. /\ DOMAIN messages' = 1..(Len(messages) + Len(rows))
      /\ DOMAIN messages = 1..Len(messages) /\ DOMAIN rows = 1..Len(rows)
  BY <1>1
<1>3. ASSUME NEW i \in DOMAIN messages', i \notin DOMAIN messages
      PROVE  \E j \in DOMAIN rows : i = Len(messages) + j /\ messages'[i] = rows[j]
  <2>1. i - Len(messages) \in DOMAIN rows /\ i = Len(messages) + (i - Len(messages))
    BY <1>1, <1>2, <1>3
  <2> QED
    BY <1>1, <1>2, <2>1
<1>4. /\ \A i \in DOMAIN messages : i \in DOMAIN messages' /\ messages'[i] = messages[i]
      /\ \A j \in DOMAIN rows : Len(messages) + j \in DOMAIN messages'
                                /\ messages'[Len(messages) + j] = rows[j]
  BY <1>1, <1>2
<1>5. ToSet(messages) \subseteq ToSet(messages') /\ ToSet(rows) \subseteq ToSet(messages')
  BY <1>4 DEF ToSet
<1> QED
  BY <1>1, <1>3, <1>4, <1>5

\* A turn's own rows say nothing the terminal said.
LEMMA QuietStep ==
  ASSUME SyncInv, NEW rows \in Seq(Row), \A i \in DOMAIN rows : ~Said(rows[i]),
         messages' = messages \o rows,
         turn' \in [Turns -> {"idle", "prompted", "replied", "stored", "read", "over"}],
         mark' \in [Turns -> 0..Len(file)], faults' \in 0..MaxWriteFaults,
         UNCHANGED <<file, offset, seen, lock, pc, local, history, text>>
  PROVE  SyncInv'
<1>1. /\ messages' \in Seq(Row)
      /\ \A i \in DOMAIN messages : i \in DOMAIN messages' /\ messages'[i] = messages[i]
      /\ \A i \in DOMAIN messages' : Said(messages'[i]) => i \in DOMAIN messages
      /\ ToSet(messages) \subseteq ToSet(messages')
  <2>1. messages \in Seq(Row)
    BY DEF SyncInv, SyncTypeOK
  <2> QED
    BY <2>1, RowsAppended
<1>2. SyncTypeOK'
  BY <1>1 DEF SyncInv, SyncTypeOK
<1>3. OnePoll' /\ Numbered'
  BY DEF SyncInv, OnePoll, Numbered, Says, Wrote
<1>4. StoredIsBehind'
  BY <1>1 DEF SyncInv, StoredIsBehind, Behind
<1>5. InOrder'
  BY <1>1 DEF SyncInv, InOrder
<1>6. PollsFit' /\ Covered'
  BY <1>1 DEF SyncInv, PollsFit, PollFits, ReadRows, Covered, HasOrExcused, Excused
<1> QED
  BY <1>2, <1>3, <1>4, <1>5, <1>6 DEF SyncInv

LEMMA StutterSyncInv ==
  ASSUME SyncInv, UNCHANGED syncVars
  PROVE  SyncInv'
<1>1. <<>> \in Seq(Row) /\ messages' = messages \o <<>>
  BY DEF SyncInv, SyncTypeOK, syncVars
<1>2. /\ turn' \in [Turns -> {"idle", "prompted", "replied", "stored", "read", "over"}]
      /\ mark' \in [Turns -> 0..Len(file)] /\ faults' \in 0..MaxWriteFaults
  BY DEF SyncInv, SyncTypeOK, syncVars
<1>3. \A i \in DOMAIN <<>> : ~Said(<<>>[i])
  OBVIOUS
<1> QED
  BY <1>1, <1>2, <1>3, QuietStep DEF syncVars

\* A skip: what it goes back behind is rewound, what it steps over is skipped.
LEMMA Jumps ==
  ASSUME SyncTypeOK, NEW to \in 0..Len(file), Jump(to)
  PROVE  /\ offset' = to /\ offset \in 0..Len(file) /\ Len(file) \in Nat
         /\ history' \in History
         /\ history.rewound \subseteq history'.rewound /\ Excused \subseteq Excused'
         /\ \A k \in 1..offset : k <= to \/ file[k] \in history'.rewound
         /\ \A k \in 1..to : k <= offset \/ file[k] \in Excused'
<1>1. /\ offset \in 0..Len(file) /\ Len(file) \in Nat
      /\ \A k \in 1..Len(file) : file[k] \in Line
      /\ history \in History
  BY DEF SyncTypeOK, History
<1> DEFINE S == {file[i] : i \in (offset + 1)..to}
           R == {file[i] : i \in (to + 1)..offset}
<1>2. S \subseteq Line /\ R \subseteq Line
  BY <1>1
<1>3. /\ \A k \in 1..offset : k <= to \/ file[k] \in R
      /\ \A k \in 1..to : k <= offset \/ file[k] \in S
  BY <1>1
<1>4. history' = [history EXCEPT !.skipped = @ \cup S, !.rewound = @ \cup R]
  BY DEF Jump
<1> HIDE DEF S, R
<1>5. /\ history'.skipped = history.skipped \cup S
      /\ history'.rewound = history.rewound \cup R
      /\ history'.lost = history.lost /\ history'.taken = history.taken
      /\ history' \in History
  BY <1>1, <1>2, <1>4 DEF History
<1> QED
  BY <1>1, <1>3, <1>5 DEF Jump, Excused

\* Where nothing is stored, what is stored stays in order and behind.
LEMMA StoredStays ==
  ASSUME SyncInv, UNCHANGED <<file, messages>>, history.rewound \subseteq history'.rewound,
         \A k \in 1..Len(file) : Behind(k) => Behind(k)'
  PROVE  StoredIsBehind' /\ InOrder'
<1>1. ASSUME NEW i \in DOMAIN messages, Said(messages[i])
      PROVE  \E n \in DOMAIN file : file[n] = messages[i] /\ \A k \in 1..n : Behind(k)'
  <2>1. PICK n \in DOMAIN file : file[n] = messages[i] /\ \A k \in 1..n : Behind(k)
    BY <1>1 DEF SyncInv, StoredIsBehind
  <2>2. n \in 1..Len(file) /\ Len(file) \in Nat
    BY DEF SyncInv, SyncTypeOK
  <2>3. \A k \in 1..n : k \in 1..Len(file)
    BY <2>2
  <2> QED
    BY <2>1, <2>3
<1>2. StoredIsBehind'
  BY <1>1 DEF StoredIsBehind
<1>3. InOrder'
  BY DEF SyncInv, InOrder
<1> QED
  BY <1>2, <1>3

LEMMA FinishSkipsSyncInv ==
  ASSUME SyncInv, NEW t \in Turns, FinishSkips(t)
  PROVE  SyncInv'
<1> DEFINE to == mark[t]
<1>1. /\ UNCHANGED <<file, messages, mark, faults, seen, lock, pc, local, text>>
      /\ Jump(to) /\ to \in 0..Len(file)
      /\ turn' \in [Turns -> {"idle", "prompted", "replied", "stored", "read", "over"}]
  BY DEF FinishSkips, TurnGoes, SyncInv, SyncTypeOK
<1> HIDE DEF to
<1>2. /\ offset' = to /\ offset \in 0..Len(file) /\ Len(file) \in Nat
      /\ history' \in History
      /\ history.rewound \subseteq history'.rewound /\ Excused \subseteq Excused'
      /\ \A k \in 1..offset : k <= to \/ file[k] \in history'.rewound
      /\ \A k \in 1..to : k <= offset \/ file[k] \in Excused'
  BY <1>1, Jumps DEF SyncInv
<1>3. SyncTypeOK'
  BY <1>1, <1>2 DEF SyncInv, SyncTypeOK, History
<1>4. OnePoll' /\ Numbered'
  BY <1>1 DEF SyncInv, OnePoll, Numbered, Says, Wrote
<1>5. ASSUME NEW k \in 1..Len(file), Behind(k)
      PROVE  Behind(k)'
  BY <1>1, <1>2, <1>5 DEF Behind
<1>6. StoredIsBehind' /\ InOrder'
  BY <1>1, <1>2, <1>5, StoredStays
<1>7. \A line : HasOrExcused(line) => HasOrExcused(line)'
  BY <1>1, <1>2 DEF HasOrExcused
<1>8. PollsFit'
  <2> SUFFICES ASSUME NEW p \in Pollers
               PROVE  PollFits(p)'
    BY DEF PollsFit
  <2>1. PollFits(p) /\ local[p].to \in Nat /\ local[p].from \in Nat
    BY DEF SyncInv, PollsFit, SyncTypeOK, Local
  <2>2. \A k \in Nat \ {0} : file[k] \in history.rewound \/ k <= offset
                             => file[k] \in history'.rewound \/ k <= to
    BY <1>2
  <2>3. /\ \A k \in 1..local[p].from : k \in Nat \ {0}
        /\ \A k \in 1..local[p].to : k \in Nat \ {0}
    BY <2>1
  <2> QED
    BY <1>1, <1>2, <1>7, <2>1, <2>2, <2>3 DEF PollFits, ReadRows
<1>9. Covered'
  <2>1. \A k \in 1..to : k \in 1..offset \/ file[k] \in Excused'
    BY <1>1, <1>2
  <2> QED
    BY <1>1, <1>2, <1>7, <2>1 DEF SyncInv, Covered, HasOrExcused
<1> QED
  BY <1>3, <1>4, <1>6, <1>8, <1>9 DEF SyncInv

\* The lock: while one poll is under way every other poller is idle.
LEMMA Holder ==
  ASSUME SyncInv, NEW p \in Pollers, pc[p] # "idle"
  PROVE  lock = p /\ \A q \in Pollers \ {p} : pc[q] = "idle"
BY DEF SyncInv, OnePoll

LEMMA LocalTypes ==
  ASSUME SyncInv, NEW p \in Pollers
  PROVE  /\ local[p] \in Local /\ Len(file) \in Nat /\ offset \in 0..Len(file)
         /\ local[p].from \in 0..Len(file) /\ local[p].to \in 0..Len(file)
         /\ local[p].rows \in Seq(Row) /\ local[p].fresh \in Seq(Questions)
         /\ local[p].open \subseteq Questions
<1>1. local[p] \in Local /\ Len(file) \in Nat /\ offset \in 0..Len(file)
      /\ local[p].from <= Len(file) /\ local[p].to <= Len(file)
  BY DEF SyncInv, SyncTypeOK
<1> QED
  BY <1>1 DEF Local

LEMMA NothingTypes ==
  Nothing \in Local /\ Nothing.from = 0 /\ Nothing.to = 0 /\ Nothing.rows = <<>>
<1>1. <<>> \in Seq(Row) /\ <<>> \in Seq(Questions)
  OBVIOUS
<1> QED
  BY <1>1 DEF Nothing, Local

\* A step of one poll, with the lock: where it goes and what it then holds.
PollAt == {"idle", "read", "skip", "move", "store"}

StepsTo(p, a, d) ==
    /\ \A q \in Pollers \ {p} : pc[q] = "idle"
    /\ pc' = [pc EXCEPT ![p] = a] /\ local' = [local EXCEPT ![p] = d]
    /\ lock' = IF a = "idle" THEN None ELSE p
    /\ UNCHANGED <<file, turn, mark, text>>
    /\ d.from <= Len(file) /\ d.to <= Len(file)
    /\ a = "idle" => d = Nothing
    /\ a \in {"skip", "move", "store"} => d.from <= d.to
    /\ a \in {"read", "skip"} => d.rows = <<>>
    /\ messages' \in Seq(Row) /\ offset' \in 0..Len(file) /\ seen' \subseteq Questions
    /\ history' \in History /\ faults' \in 0..MaxWriteFaults

LEMMA PollSteps ==
  ASSUME SyncInv, NEW p \in Pollers, NEW d \in Local, NEW a \in PollAt, StepsTo(p, a, d)
  PROVE  /\ SyncTypeOK' /\ OnePoll' /\ Numbered'
         /\ pc'[p] = a /\ local'[p] = d /\ \A q \in Pollers \ {p} : pc'[q] = "idle"
         /\ PollFits(p)' => PollsFit'
<1> USE DEF StepsTo, PollAt, History
<1>1. pc \in [Pollers -> PollAt] /\ local \in [Pollers -> Local]
  BY DEF SyncInv, SyncTypeOK
<1>2. /\ pc'[p] = a /\ local'[p] = d
      /\ \A q \in Pollers \ {p} : pc'[q] = "idle" /\ local'[q] = local[q]
      /\ pc' \in [Pollers -> PollAt]
      /\ local' \in [Pollers -> Local]
  BY <1>1
<1>3. \A q \in Pollers : local'[q].from <= Len(file) /\ local'[q].to <= Len(file)
  BY <1>2 DEF SyncInv, SyncTypeOK
<1>4. SyncTypeOK'
  <2>1. lock' \in Pollers \cup {None}
    OBVIOUS
  <2> QED
    BY <1>2, <1>3, <2>1 DEF SyncInv, SyncTypeOK
<1>5. OnePoll'
  <2>1. \A q \in Pollers \ {p} : local'[q] = Nothing
    BY <1>2 DEF SyncInv, OnePoll
  <2> QED
    BY <1>2, <2>1 DEF OnePoll
<1>6. Numbered'
  BY DEF SyncInv, Numbered, Says, Wrote
<1>7. ASSUME NEW q \in Pollers \ {p}
      PROVE  PollFits(q)'
  BY <1>2 DEF PollFits
<1>8. PollFits(p)' => PollsFit'
  BY <1>7 DEF PollsFit
<1> QED
  BY <1>2, <1>4, <1>5, <1>6, <1>8

LEMMA EnterSyncInv ==
  ASSUME SyncInv, NEW p \in Pollers, Enter(p)
  PROVE  SyncInv'
<1>1. PICK fresh \in NewestFirst(Unanswered \ seen) :
        local' = [local EXCEPT ![p] = [from |-> offset, open |-> Unanswered, fresh |-> fresh,
                                       rows |-> <<>>, to |-> 0]]
  BY DEF Enter, Begins
<1> DEFINE d == [from |-> offset, open |-> Unanswered, fresh |-> fresh,
                 rows |-> <<>>, to |-> 0]
<1>2. /\ lock = None /\ lock' = p /\ pc' = [pc EXCEPT ![p] = "read"]
      /\ UNCHANGED <<file, turn, mark, text, messages, offset, seen, history, faults>>
  BY DEF Enter, Goes
<1>3. \A q \in Pollers : pc[q] = "idle"
  BY <1>2, NoneIsNoPoller DEF SyncInv, OnePoll
<1>4. Len(file) \in Nat /\ offset \in 0..Len(file)
  BY LocalTypes
<1>5. d \in Local
  <2>1. Unanswered \in SUBSET Questions /\ Unanswered \ seen \in SUBSET Questions
    BY DEF Unanswered
  <2>2. fresh \in Seq(Questions) /\ <<>> \in Seq(Row)
    BY <2>1, FreshTypes
  <2> QED
    BY <1>4, <2>1, <2>2 DEF Local
<1>6. d.from = offset /\ d.to = 0 /\ d.rows = <<>>
  OBVIOUS
<1> HIDE DEF d
<1>7. /\ messages \in Seq(Row) /\ seen \subseteq Questions /\ faults \in 0..MaxWriteFaults
      /\ history \in History
  BY DEF SyncInv, SyncTypeOK, History
<1>8. /\ SyncTypeOK' /\ OnePoll' /\ Numbered'
      /\ pc'[p] = "read" /\ local'[p] = d /\ \A q \in Pollers \ {p} : pc'[q] = "idle"
      /\ PollFits(p)' => PollsFit'
  <2>1. local' = [local EXCEPT ![p] = d]
    BY <1>1 DEF d
  <2>2. StepsTo(p, "read", d)
    BY <1>2, <1>3, <1>4, <1>6, <1>7, <2>1 DEF StepsTo
  <2> QED
    BY <1>5, <2>2, PollSteps DEF PollAt
<1>9. StoredIsBehind' /\ InOrder'
  <2>1. ASSUME NEW k \in 1..Len(file), Behind(k)
        PROVE  Behind(k)'
    BY <1>2, <1>6, <1>8, <2>1 DEF Behind
  <2> QED
    BY <1>2, <2>1, StoredStays
<1>10. \A k \in 1..offset : Said(file[k]) => HasOrExcused(file[k])
  BY <1>3 DEF SyncInv, Covered
<1>11. PollFits(p)'
  BY <1>2, <1>6, <1>8, <1>10 DEF PollFits, HasOrExcused, Excused
<1>12. Covered'
  BY <1>2, <1>10 DEF Covered, HasOrExcused, Excused
<1> QED
  BY <1>8, <1>9, <1>11, <1>12 DEF SyncInv

LEMMA SkipReadsSyncInv ==
  ASSUME SyncInv, NEW p \in Pollers, SkipReads(p)
  PROVE  SyncInv'
<1> DEFINE d == [local[p] EXCEPT !.to = Len(file)]
<1>1. /\ pc[p] = "read" /\ pc' = [pc EXCEPT ![p] = "skip"]
      /\ UNCHANGED <<file, turn, mark, text, messages, offset, seen, lock, history, faults>>
  BY DEF SkipReads, Goes
<1>2. lock = p /\ \A q \in Pollers \ {p} : pc[q] = "idle"
  BY <1>1, Holder
<1>3. local[p] \in Local /\ Len(file) \in Nat /\ offset \in 0..Len(file)
      /\ local[p].from \in 0..Len(file)
  BY LocalTypes
<1>4. d \in Local /\ d.from = local[p].from /\ d.to = Len(file) /\ d.rows = local[p].rows
  BY <1>3 DEF Local
<1>5. local' = [local EXCEPT ![p] = d]
  BY <1>3 DEF SkipReads, SyncInv, SyncTypeOK
<1> HIDE DEF d
<1>6. local[p].rows = <<>>
  BY <1>1 DEF SyncInv, OnePoll
<1>7. /\ messages \in Seq(Row) /\ seen \subseteq Questions /\ faults \in 0..MaxWriteFaults
      /\ history \in History
  BY DEF SyncInv, SyncTypeOK, History
<1>8. /\ SyncTypeOK' /\ OnePoll' /\ Numbered'
      /\ pc'[p] = "skip" /\ local'[p] = d /\ \A q \in Pollers \ {p} : pc'[q] = "idle"
      /\ PollFits(p)' => PollsFit'
  <2>1. StepsTo(p, "skip", d)
    BY <1>1, <1>2, <1>3, <1>4, <1>5, <1>6, <1>7 DEF StepsTo
  <2> QED
    BY <1>4, <2>1, PollSteps DEF PollAt
<1>9. StoredIsBehind' /\ InOrder'
  <2>1. ASSUME NEW k \in 1..Len(file), Behind(k)
        PROVE  Behind(k)'
    BY <1>1, <1>4, <1>8, <2>1 DEF Behind
  <2> QED
    BY <1>1, <2>1, StoredStays
<1>10. PollFits(p)'
  BY <1>1, <1>4, <1>8 DEF SyncInv, PollsFit, PollFits, HasOrExcused, Excused
<1>11. Covered'
  BY <1>1, <1>2 DEF SyncInv, Covered, HasOrExcused, Excused
<1> QED
  BY <1>8, <1>9, <1>10, <1>11 DEF SyncInv

\* A poll that leaves leaves nobody under way.
LEMMA PollLeaves ==
  ASSUME SyncInv, NEW p \in Pollers, NEW a \in PollAt \ {"idle"}, Leaves(p, a),
         messages' \in Seq(Row), offset' \in 0..Len(file), seen' \subseteq Questions,
         history' \in History, faults' \in 0..MaxWriteFaults
  PROVE  /\ SyncTypeOK' /\ OnePoll' /\ Numbered' /\ PollsFit'
         /\ \A q \in Pollers : pc[q] # "idle" => q = p
         /\ \A q \in Pollers : pc'[q] = "idle"
<1>1. \A q \in Pollers \ {p} : pc[q] = "idle"
  BY Holder DEF Leaves, Goes
<1>2. StepsTo(p, "idle", Nothing)
  BY <1>1, NothingTypes, LocalTypes DEF StepsTo, Leaves, Goes
<1>3. /\ SyncTypeOK' /\ OnePoll' /\ Numbered' /\ pc'[p] = "idle"
      /\ \A q \in Pollers \ {p} : pc'[q] = "idle"
      /\ PollFits(p)' => PollsFit'
  BY <1>2, NothingTypes, PollSteps DEF PollAt
<1>4. PollFits(p)'
  BY <1>3 DEF PollFits
<1> QED
  BY <1>1, <1>3, <1>4

\* After it, behind is what the offset has passed.
LEMMA StoredStaysBehind ==
  ASSUME SyncInv, UNCHANGED <<file, messages>>, history.rewound \subseteq history'.rewound,
         \A q \in Pollers : pc'[q] = "idle",
         \A k \in 1..Len(file) : Behind(k) => k <= offset' \/ file[k] \in history'.rewound
  PROVE  StoredIsBehind' /\ InOrder'
<1>1. \A k \in 1..Len(file) : Behind(k) => Behind(k)'
  BY DEF Behind
<1> QED
  BY <1>1, StoredStays

LEMMA SkipWritesSyncInv ==
  ASSUME SyncInv, NEW p \in Pollers, NEW blocked \in BOOLEAN, SkipWrites(p, blocked)
  PROVE  SyncInv'
<1> DEFINE to == local[p].to
<1>1. Leaves(p, "skip") /\ Jump(to) /\ UNCHANGED <<file, messages, faults>>
  BY DEF SkipWrites, Leaves, Goes
<1>2. to \in 0..Len(file) /\ local[p].fresh \in Seq(Questions)
  BY LocalTypes
<1> HIDE DEF to
<1>3. /\ offset' = to /\ offset \in 0..Len(file) /\ Len(file) \in Nat
      /\ history' \in History
      /\ history.rewound \subseteq history'.rewound /\ Excused \subseteq Excused'
      /\ \A k \in 1..offset : k <= to \/ file[k] \in history'.rewound
      /\ \A k \in 1..to : k <= offset \/ file[k] \in Excused'
  BY <1>1, <1>2, Jumps DEF SyncInv, History
<1>4. ToSet(local[p].fresh) \subseteq Questions
  BY <1>2 DEF ToSet
<1>5. /\ messages' \in Seq(Row) /\ seen' \subseteq Questions /\ faults' \in 0..MaxWriteFaults
  BY <1>1, <1>4 DEF SkipWrites, SyncInv, SyncTypeOK
<1>6. /\ SyncTypeOK' /\ OnePoll' /\ Numbered' /\ PollsFit'
      /\ \A q \in Pollers : pc[q] # "idle" => q = p
      /\ \A q \in Pollers : pc'[q] = "idle"
  BY <1>1, <1>2, <1>3, <1>5, PollLeaves DEF PollAt
<1>7. StoredIsBehind' /\ InOrder'
  <2>1. ASSUME NEW k \in 1..Len(file), Behind(k)
        PROVE  k <= offset' \/ file[k] \in history'.rewound
    BY <1>3, <2>1 DEF Behind
  <2> QED
    BY <1>1, <1>3, <1>6, <2>1, StoredStaysBehind
<1>8. Covered'
  <2>1. pc[p] = "skip"
    BY <1>1 DEF Leaves, Goes
  <2>2. \A k \in 1..offset : Said(file[k]) => HasOrExcused(file[k])
    BY <1>6, <2>1 DEF SyncInv, Covered
  <2>3. \A k \in 1..to : k \in 1..offset \/ file[k] \in Excused'
    BY <1>2, <1>3
  <2> QED
    BY <1>1, <1>3, <2>2, <2>3 DEF Covered, HasOrExcused
<1> QED
  BY <1>6, <1>7, <1>8 DEF SyncInv

LEMMA MoveFailsSyncInv ==
  ASSUME SyncInv, NEW p \in Pollers, MoveFails(p)
  PROVE  SyncInv'
<1>1. /\ Leaves(p, "move") /\ UNCHANGED <<file, messages, offset, seen, history>>
      /\ faults < MaxWriteFaults /\ faults' = faults + 1
  BY DEF MoveFails, WriteFault, Leaves, Goes
<1>2. /\ messages' \in Seq(Row) /\ offset' \in 0..Len(file) /\ seen' \subseteq Questions
      /\ history' \in History /\ faults' \in 0..MaxWriteFaults
  BY <1>1, BoundsAreNat DEF SyncInv, SyncTypeOK, History
<1>3. /\ SyncTypeOK' /\ OnePoll' /\ Numbered' /\ PollsFit'
      /\ \A q \in Pollers : pc[q] # "idle" => q = p
      /\ \A q \in Pollers : pc'[q] = "idle"
  BY <1>1, <1>2, PollLeaves DEF PollAt
<1>4. StoredIsBehind' /\ InOrder'
  <2>1. ASSUME NEW k \in 1..Len(file), Behind(k)
        PROVE  k <= offset' \/ file[k] \in history'.rewound
    BY <1>1, <2>1 DEF Behind
  <2> QED
    BY <1>1, <1>3, <2>1, StoredStaysBehind
<1>5. pc[p] = "move"
  BY <1>1 DEF Leaves, Goes
<1>6. Covered'
  BY <1>1, <1>3, <1>5 DEF SyncInv, Covered, HasOrExcused, Excused
<1> QED
  BY <1>3, <1>4, <1>6 DEF SyncInv

\* What a poll reads: the lines past its offset, then its new questions.
TailFrom(f, ids) == SubSeq(file, f + 1, Len(file)) \o Attached(ids)

LEMMA TailRead ==
  ASSUME SyncInv, NEW f \in Nat, f <= Len(file), NEW ids \in Seq(Questions), NEW rows,
         rows = TailFrom(f, ids)
  PROVE  /\ rows \in Seq(Row)
         /\ \A k \in (f + 1)..Len(file) : file[k] \in ToSet(rows)
         /\ \A i \in DOMAIN rows : Said(rows[i]) =>
                i \in Nat /\ f + i \in (f + 1)..Len(file) /\ rows[i] = file[f + i]
<1> DEFINE n == Len(file)
           read == SubSeq(file, f + 1, n)
           asked_rows == Attached(ids)
<1>1. n \in Nat /\ f <= n /\ file \in Seq(Line)
  BY DEF SyncInv, SyncTypeOK
<1>2. /\ read \in Seq(Row) /\ Len(read) = n - f
      /\ \A i \in 1..(n - f) : read[i] = file[f + i]
  <2>1. \A i \in (f + 1)..n : file[i] \in Row
    BY <1>1, LinesAreRows
  <2>2. f + 1 \in Int /\ n \in Int
    BY <1>1
  <2> HIDE DEF n
  <2> QED
    BY <1>1, <2>1, <2>2, SubSeqProperties
<1>3. /\ asked_rows \in Seq(Row) /\ Len(asked_rows) = Len(ids) /\ Len(ids) \in Nat
      /\ \A i \in 1..Len(ids) : ~Said(asked_rows[i])
  BY DEF Attached, Row, Texts, Said
<1>4. rows = read \o asked_rows
  BY DEF TailFrom
<1> HIDE DEF read, asked_rows, n
<1>5. /\ rows \in Seq(Row) /\ DOMAIN rows = 1..(n - f + Len(ids))
      /\ \A i \in 1..(n - f) : rows[i] = file[f + i]
      /\ \A i \in 1..Len(ids) : rows[n - f + i] = asked_rows[i]
  <2>1. \A a, b \in Seq(Row) : \A i \in 1..Len(a), j \in 1..Len(b) :
            (a \o b)[i] = a[i] /\ (a \o b)[Len(a) + j] = b[j]
    OBVIOUS
  <2>2. rows \in Seq(Row) /\ Len(rows) = n - f + Len(ids)
    <3>1. \A a, b \in Seq(Row) : a \o b \in Seq(Row) /\ Len(a \o b) = Len(a) + Len(b)
      OBVIOUS
    <3> QED
      BY <1>2, <1>3, <1>4, <3>1
  <2>3. \A i \in 1..(n - f) : rows[i] = read[i]
    BY <1>2, <1>3, <1>4, <2>1
  <2>4. \A i \in 1..Len(ids) : rows[Len(read) + i] = asked_rows[i]
    BY <1>2, <1>3, <1>4, <2>1
  <2>5. DOMAIN rows = 1..(n - f + Len(ids))
    BY <2>2
  <2> QED
    BY <1>2, <2>2, <2>3, <2>4, <2>5
<1>6. ASSUME NEW k \in (f + 1)..n
      PROVE  file[k] \in ToSet(rows)
  <2>1. k - f \in 1..(n - f) /\ k - f \in DOMAIN rows /\ f + (k - f) = k
    BY <1>1, <1>3, <1>5
  <2> QED
    BY <1>5, <2>1 DEF ToSet
<1>7. ASSUME NEW i \in DOMAIN rows, Said(rows[i])
      PROVE  i \in Nat /\ f + i \in (f + 1)..n /\ rows[i] = file[f + i]
  <2>1. i \in 1..(n - f + Len(ids))
    BY <1>5
  <2>2. CASE i \in 1..(n - f)
    <3>1. rows[i] = file[f + i]
      BY <1>5, <2>2
    <3>2. i \in Nat /\ f + i \in (f + 1)..n
      BY <1>1, <2>2
    <3> QED
      BY <3>1, <3>2
  <2>3. CASE ~(i \in 1..(n - f))
    <3>1. i - (n - f) \in 1..Len(ids) /\ n - f + (i - (n - f)) = i
      BY <1>1, <1>3, <2>1, <2>3
    <3> QED
      BY <1>3, <1>5, <1>7, <3>1
  <2> QED
    BY <2>2, <2>3
<1> QED
  BY <1>5, <1>6, <1>7 DEF n

LEMMA ReadTailSyncInv ==
  ASSUME SyncInv, NEW p \in Pollers, ReadTail(p)
  PROVE  SyncInv'
<1> DEFINE f == local[p].from
           rows == SubSeq(file, f + 1, Len(file)) \o Attached(local[p].fresh)
           d == [local[p] EXCEPT !.to = Len(file), !.rows = rows]
<1>1. /\ pc[p] = "read" /\ pc' = [pc EXCEPT ![p] = "move"]
      /\ UNCHANGED <<file, turn, mark, text, messages, offset, seen, lock, history, faults>>
      /\ local' = [local EXCEPT ![p] = d]
  BY DEF ReadTail, Goes, SyncInv, SyncTypeOK
<1>2. lock = p /\ \A q \in Pollers \ {p} : pc[q] = "idle"
  BY <1>1, Holder
<1>3. local[p] \in Local /\ Len(file) \in Nat /\ f \in 0..Len(file)
      /\ local[p].fresh \in Seq(Questions) /\ offset \in 0..Len(file)
  BY LocalTypes
<1>4. /\ rows \in Seq(Row)
      /\ \A k \in (f + 1)..Len(file) : file[k] \in ToSet(rows)
      /\ \A i \in DOMAIN rows : Said(rows[i]) =>
                i \in Nat /\ f + i \in (f + 1)..Len(file) /\ rows[i] = file[f + i]
  <2>1. f \in Nat /\ f <= Len(file)
    BY <1>3
  <2> DEFINE ids == local[p].fresh
  <2>2. ids \in Seq(Questions) /\ rows = TailFrom(f, ids)
    BY <1>3 DEF TailFrom
  <2> HIDE DEF f, ids, rows
  <2> QED
    BY <2>1, <2>2, TailRead
<1> HIDE DEF rows
<1>5. d \in Local /\ d.from = f /\ d.to = Len(file) /\ d.rows = rows
  BY <1>3, <1>4 DEF Local
<1> HIDE DEF d
<1>6. /\ messages \in Seq(Row) /\ seen \subseteq Questions /\ faults \in 0..MaxWriteFaults
      /\ history \in History
  BY DEF SyncInv, SyncTypeOK, History
<1>7. /\ SyncTypeOK' /\ OnePoll' /\ Numbered'
      /\ pc'[p] = "move" /\ local'[p] = d /\ \A q \in Pollers \ {p} : pc'[q] = "idle"
      /\ PollFits(p)' => PollsFit'
  <2>1. StepsTo(p, "move", d)
    BY <1>1, <1>2, <1>3, <1>5, <1>6 DEF StepsTo
  <2> QED
    BY <1>5, <2>1, PollSteps DEF PollAt
<1>8. StoredIsBehind' /\ InOrder'
  <2>1. ASSUME NEW k \in 1..Len(file), Behind(k)
        PROVE  Behind(k)'
    BY <1>1, <1>5, <1>7, <2>1 DEF Behind
  <2> QED
    BY <1>1, <2>1, StoredStays
<1>9. ReadRows(d)
  <2>1. ASSUME NEW i \in DOMAIN rows, NEW j \in DOMAIN rows, i < j,
               Said(rows[i]), Said(rows[j])
        PROVE  rows[i][2] < rows[j][2]
    <3>1. /\ f + i \in DOMAIN file /\ rows[i] = file[f + i]
          /\ f + j \in DOMAIN file /\ rows[j] = file[f + j] /\ f + i < f + j
      BY <1>3, <1>4, <2>1 DEF SyncInv, SyncTypeOK
    <3> QED
      BY <2>1, <3>1 DEF SyncInv, Numbered
  <2> QED
    BY <1>4, <1>5, <2>1 DEF ReadRows
<1>10. PollFits(p)'
  <2>1. ReadRows(local[p])'
    BY <1>1, <1>7, <1>9 DEF ReadRows
  <2>2. \A k \in 1..f : /\ Said(file[k]) => HasOrExcused(file[k])
                        /\ file[k] \in history.rewound \/ k <= offset
    BY <1>1 DEF SyncInv, PollsFit, PollFits
  <2> QED
    BY <1>1, <1>4, <1>5, <1>7, <2>1, <2>2 DEF PollFits, HasOrExcused, Excused
<1>11. Covered'
  BY <1>1, <1>2 DEF SyncInv, Covered, HasOrExcused, Excused
<1> QED
  BY <1>7, <1>8, <1>10, <1>11 DEF SyncInv

\* The offset moves over what is stored, dropped as stored, or about to be.
LEMMA MovedOver ==
  ASSUME SyncInv, NEW p \in Pollers, pc[p] = "move", Moves(p), Drops(p),
         UNCHANGED <<messages, file>>,
         \A q \in Pollers \ {p} : pc[q] = "idle"
  PROVE  /\ offset' \in 0..Len(file)
         /\ \A k \in 1..Len(file) : Behind(k) => file[k] \in history.rewound
                                              \/ (k <= offset' /\ k <= local[p].from)
         /\ \A k \in 1..local[p].to : file[k] \in history.rewound \/ k <= offset'
         /\ \A k \in 1..offset' : Said(file[k]) =>
                HasOrExcused(file[k])' \/ file[k] \in ToSet(New(p))
         /\ \A line : HasOrExcused(line) => HasOrExcused(line)'
<1> DEFINE f == local[p].from
           to == local[p].to
           rows == local[p].rows
<1>1. /\ Len(file) \in Nat /\ offset \in 0..Len(file)
      /\ f \in 0..Len(file) /\ to \in 0..Len(file) /\ f <= to
  BY LocalTypes DEF SyncInv, OnePoll
<1>2. /\ \A k \in 1..f : /\ Said(file[k]) => HasOrExcused(file[k])
                         /\ file[k] \in history.rewound \/ k <= offset
      /\ \A k \in (f + 1)..to : file[k] \in ToSet(rows)
  BY DEF SyncInv, PollsFit, PollFits
<1>3. \A k \in 1..offset : Said(file[k]) => HasOrExcused(file[k])
  BY DEF SyncInv, Covered
<1>4. offset' = IF to = f THEN offset ELSE to
  BY DEF Moves
<1>5. ASSUME NEW line \in ToSet(rows)
      PROVE  line \in ToSet(messages) \cup Excused' \/ line \in ToSet(New(p))
  <2> DEFINE c == Dropped(p)
  <2>1. /\ c \in 0..Len(rows) /\ Len(New(p)) = Len(rows) - c
        /\ \A i \in DOMAIN New(p) : New(p)[i] = rows[c + i]
        /\ \A i \in 1..c : rows[i] \in ToSet(messages) \cup Excused'
    BY NewIsASuffix, DropsNote DEF SyncInv
  <2>2. New(p) \in Seq(Row) /\ rows \in Seq(Row)
    BY NewIsASuffix, LocalTypes DEF SyncInv
  <2> HIDE DEF rows, c
  <2>3. PICK i \in DOMAIN rows : line = rows[i]
    BY <1>5 DEF ToSet
  <2>4. CASE i <= c
    BY <2>1, <2>2, <2>3, <2>4
  <2>5. CASE ~(i <= c)
    <3>1. i - c \in DOMAIN New(p) /\ c + (i - c) = i
      BY <2>1, <2>2, <2>3, <2>5
    <3> QED
      BY <2>1, <2>3, <3>1 DEF ToSet
  <2> QED
    BY <2>4, <2>5
<1>6. \A k \in 1..Len(file) : Behind(k) =>
            file[k] \in history.rewound \/ (k <= offset /\ k <= f)
  BY DEF Behind
<1>a. \A line : /\ HasOrExcused(line) => HasOrExcused(line)'
                /\ line \in ToSet(messages) \cup Excused' => HasOrExcused(line)'
  BY DropsNote DEF SyncInv, HasOrExcused
<1> HIDE DEF f, to, rows
<1>7. offset' \in 0..Len(file)
  BY <1>1, <1>4
<1>8. ASSUME NEW k \in 1..Len(file), Behind(k)
      PROVE  file[k] \in history.rewound \/ (k <= offset' /\ k <= f)
  BY <1>1, <1>4, <1>6, <1>8
<1>9. ASSUME NEW k \in 1..to
      PROVE  file[k] \in history.rewound \/ k <= offset'
  BY <1>1, <1>2, <1>4, <1>9
<1>10. ASSUME NEW k \in 1..offset', Said(file[k])
       PROVE  HasOrExcused(file[k])' \/ file[k] \in ToSet(New(p))
  <2>1. CASE to = f
    BY <1>3, <1>4, <1>10, <1>a, <2>1
  <2>2. CASE to # f /\ k \in 1..f
    BY <1>2, <1>10, <1>a, <2>2
  <2>3. CASE to # f /\ ~(k \in 1..f)
    <3>1. k \in (f + 1)..to
      BY <1>1, <1>4, <2>3
    <3> QED
      BY <1>2, <1>5, <1>a, <3>1
  <2> QED
    BY <2>1, <2>2, <2>3
<1> QED
  BY <1>7, <1>8, <1>9, <1>10, <1>a DEF f, to

LEMMA MoveOffsetSyncInv ==
  ASSUME SyncInv, NEW p \in Pollers, MoveOffset(p)
  PROVE  SyncInv'
<1> DEFINE old == local[p].rows
           rows == New(p)
           d == [local[p] EXCEPT !.rows = rows]
<1>1. /\ pc[p] = "move" /\ pc' = [pc EXCEPT ![p] = "store"] /\ Moves(p)
      /\ UNCHANGED <<file, turn, mark, text, messages, seen, lock, faults>>
      /\ Drops(p) /\ rows \in Seq(Row)
  BY NewIsASuffix DEF MoveOffset, Goes, SyncInv
<1>2. lock = p /\ \A q \in Pollers \ {p} : pc[q] = "idle"
  BY <1>1, Holder
<1>3. /\ offset' \in 0..Len(file)
      /\ \A k \in 1..Len(file) : Behind(k) => file[k] \in history.rewound
                                           \/ (k <= offset' /\ k <= local[p].from)
      /\ \A k \in 1..local[p].to : file[k] \in history.rewound \/ k <= offset'
      /\ \A k \in 1..offset' : Said(file[k]) => HasOrExcused(file[k])' \/ file[k] \in ToSet(rows)
      /\ \A line : HasOrExcused(line) => HasOrExcused(line)'
      /\ history' \in History /\ history'.rewound = history.rewound
  BY <1>1, <1>2, MovedOver, DropsNote DEF SyncInv
<1>4. PICK c \in 0..Len(old) :
         /\ Len(rows) = Len(old) - c
         /\ \A i \in DOMAIN rows : rows[i] = old[c + i]
  BY NewIsASuffix DEF SyncInv
<1>5. old \in Seq(Row) /\ local[p] \in Local /\ Len(file) \in Nat
      /\ local[p].from \in 0..Len(file) /\ local[p].to \in 0..Len(file)
      /\ local[p].from <= local[p].to
  BY <1>1, LocalTypes DEF SyncInv, OnePoll
<1>6. local' = [local EXCEPT ![p] = d]
  BY DEF MoveOffset, SyncInv, SyncTypeOK
<1>7. ReadRows(local[p]) /\ \A k \in 1..local[p].from : Said(file[k]) => HasOrExcused(file[k])
  BY <1>1 DEF SyncInv, PollsFit, PollFits
<1> HIDE DEF rows
<1>8. d \in Local /\ d.from = local[p].from /\ d.to = local[p].to /\ d.rows = rows
  BY <1>1, <1>5 DEF Local
<1>9. ReadRows(d)
  <2>1. \A i \in DOMAIN rows : i \in Nat /\ c + i \in DOMAIN old /\ rows[i] = old[c + i]
    BY <1>1, <1>4, <1>5
  <2>2. \A i, j \in DOMAIN rows : i < j => c + i < c + j
    BY <1>4, <2>1
  <2>3. /\ \A i \in DOMAIN old : Said(old[i]) =>
                \E k \in (local[p].from + 1)..local[p].to : old[i] = file[k]
        /\ \A i, j \in DOMAIN old :
                i < j /\ Said(old[i]) /\ Said(old[j]) => old[i][2] < old[j][2]
    BY <1>7 DEF ReadRows
  <2> HIDE DEF d, old
  <2>4. \A i \in DOMAIN rows : Said(rows[i]) =>
                \E k \in (local[p].from + 1)..local[p].to : rows[i] = file[k]
    BY <2>1, <2>3
  <2>5. \A i, j \in DOMAIN rows :
                i < j /\ Said(rows[i]) /\ Said(rows[j]) => rows[i][2] < rows[j][2]
    BY <2>1, <2>2, <2>3
  <2> QED
    BY <1>8, <2>4, <2>5 DEF ReadRows
<1> HIDE DEF d, old
<1>10. messages \in Seq(Row) /\ seen \subseteq Questions /\ faults \in 0..MaxWriteFaults
  BY DEF SyncInv, SyncTypeOK, History
<1>11. /\ SyncTypeOK' /\ OnePoll' /\ Numbered'
       /\ pc'[p] = "store" /\ local'[p] = d /\ \A q \in Pollers \ {p} : pc'[q] = "idle"
       /\ PollFits(p)' => PollsFit'
  <2>1. StepsTo(p, "store", d)
    BY <1>1, <1>2, <1>3, <1>5, <1>6, <1>8, <1>10 DEF StepsTo
  <2> QED
    BY <1>8, <2>1, PollSteps DEF PollAt
<1>12. StoredIsBehind' /\ InOrder'
  <2>1. ASSUME NEW k \in 1..Len(file), Behind(k)
        PROVE  Behind(k)'
    BY <1>1, <1>3, <1>8, <1>11, <2>1 DEF Behind
  <2> QED
    BY <1>1, <1>3, <2>1, StoredStays
<1>13. PollFits(p)'
  <2>1. ReadRows(local[p])'
    BY <1>1, <1>9, <1>11 DEF ReadRows
  <2>2. \A k \in 1..local[p].from : k \in 1..local[p].to
    BY <1>5
  <2> QED
    BY <1>1, <1>3, <1>7, <1>8, <1>11, <2>1, <2>2 DEF PollFits
<1>14. Covered'
  BY <1>1, <1>3, <1>8, <1>11 DEF Covered
<1> QED
  BY <1>11, <1>12, <1>13, <1>14 DEF SyncInv

LEMMA NothingNewSyncInv ==
  ASSUME SyncInv, NEW p \in Pollers, NothingNew(p)
  PROVE  SyncInv'
<1>1. /\ Leaves(p, "move") /\ pc[p] = "move" /\ Moves(p) /\ New(p) = <<>>
      /\ Drops(p) /\ UNCHANGED <<file, messages, faults>>
  BY DEF NothingNew, Leaves, Goes
<1>2. \A q \in Pollers \ {p} : pc[q] = "idle"
  BY <1>1, Holder
<1>3. /\ offset' \in 0..Len(file)
      /\ \A k \in 1..Len(file) : Behind(k) => file[k] \in history.rewound
                                           \/ (k <= offset' /\ k <= local[p].from)
      /\ \A k \in 1..offset' : Said(file[k]) =>
            HasOrExcused(file[k])' \/ file[k] \in ToSet(New(p))
      /\ history' \in History /\ history'.rewound = history.rewound
  BY <1>1, <1>2, MovedOver, DropsNote DEF SyncInv
<1>4. ToSet(New(p)) = {}
  BY <1>1 DEF ToSet
<1>5. messages' \in Seq(Row) /\ seen' \subseteq Questions /\ faults' \in 0..MaxWriteFaults
  BY <1>1 DEF NothingNew, ForgetAnswered, SyncInv, SyncTypeOK, History
<1>6. /\ SyncTypeOK' /\ OnePoll' /\ Numbered' /\ PollsFit'
      /\ \A q \in Pollers : pc'[q] = "idle"
  BY <1>1, <1>3, <1>5, PollLeaves DEF PollAt
<1>7. StoredIsBehind' /\ InOrder'
  BY <1>1, <1>3, <1>6, StoredStaysBehind
<1>8. Covered'
  BY <1>1, <1>3, <1>4 DEF Covered
<1> QED
  BY <1>6, <1>7, <1>8 DEF SyncInv

LEMMA StoreFailsSyncInv ==
  ASSUME SyncInv, NEW p \in Pollers, StoreFails(p)
  PROVE  SyncInv'
<1> DEFINE R == ToSet(local[p].rows)
<1>1. /\ Leaves(p, "store") /\ pc[p] = "store"
      /\ UNCHANGED <<file, messages, offset, seen>>
      /\ history' = [history EXCEPT !.lost = @ \cup R]
      /\ faults < MaxWriteFaults /\ faults' = faults + 1
  BY DEF StoreFails, WriteFault, Leaves, Goes
<1>2. R \subseteq Row
  BY LocalTypes DEF ToSet
<1>3. history \in History
  BY DEF SyncInv, SyncTypeOK, History
<1> HIDE DEF R
<1>4. /\ history' \in History
      /\ history'.skipped = history.skipped /\ history'.rewound = history.rewound
      /\ history'.lost = history.lost \cup R /\ history'.taken = history.taken
  BY <1>1, <1>2, <1>3 DEF History
<1>5. /\ messages' \in Seq(Row) /\ offset' \in 0..Len(file) /\ seen' \subseteq Questions
      /\ faults' \in 0..MaxWriteFaults
  BY <1>1, BoundsAreNat DEF SyncInv, SyncTypeOK
<1>6. /\ SyncTypeOK' /\ OnePoll' /\ Numbered' /\ PollsFit'
      /\ \A q \in Pollers : pc[q] # "idle" => q = p
      /\ \A q \in Pollers : pc'[q] = "idle"
  BY <1>1, <1>4, <1>5, PollLeaves DEF PollAt
<1>7. StoredIsBehind' /\ InOrder'
  <2>1. ASSUME NEW k \in 1..Len(file), Behind(k)
        PROVE  k <= offset' \/ file[k] \in history'.rewound
    BY <1>1, <1>4, <2>1 DEF Behind
  <2> QED
    BY <1>1, <1>4, <1>6, <2>1, StoredStaysBehind
<1>8. Covered'
  <2>1. \A k \in 1..offset : Said(file[k]) => HasOrExcused(file[k]) \/ file[k] \in R
    BY <1>6 DEF SyncInv, Covered, R
  <2> QED
    BY <1>1, <1>4, <2>1 DEF Covered, HasOrExcused, Excused
<1> QED
  BY <1>6, <1>7, <1>8 DEF SyncInv

\* What a poll is about to store comes after all that is stored.
LEMMA NewAfterOld ==
  ASSUME SyncInv, NEW p \in Pollers, pc[p] = "store",
         NEW i \in DOMAIN messages, Said(messages[i]),
         NEW j \in DOMAIN local[p].rows, Said(local[p].rows[j]),
         local[p].rows[j] \notin history.rewound
  PROVE  messages[i][2] < local[p].rows[j][2]
<1>1. PICK n \in DOMAIN file : file[n] = messages[i] /\ \A k \in 1..n : Behind(k)
  BY DEF SyncInv, StoredIsBehind
<1>2. PICK m \in (local[p].from + 1)..local[p].to : local[p].rows[j] = file[m]
  BY DEF SyncInv, PollsFit, PollFits, ReadRows
<1>3. /\ Len(file) \in Nat /\ DOMAIN file = 1..Len(file)
      /\ local[p].from \in 0..Len(file) /\ local[p].to \in 0..Len(file)
  BY LocalTypes DEF SyncInv, SyncTypeOK
<1>4. m \in DOMAIN file /\ m > local[p].from /\ ~(m <= local[p].from)
  BY <1>2, <1>3
<1>5. ~Behind(m)
  BY <1>2, <1>4 DEF Behind
<1>6. n < m
  BY <1>1, <1>3, <1>4, <1>5
<1> QED
  BY <1>1, <1>2, <1>4, <1>6 DEF SyncInv, Numbered

LEMMA StoreSyncInv ==
  ASSUME SyncInv, NEW p \in Pollers, Store(p)
  PROVE  SyncInv'
<1> DEFINE rows == local[p].rows
<1>1. /\ Leaves(p, "store") /\ pc[p] = "store" /\ messages' = messages \o rows
      /\ UNCHANGED <<file, offset, history, faults>>
  BY DEF Store, Leaves, Goes
<1>2. /\ rows \in Seq(Row) /\ messages \in Seq(Row) /\ Len(file) \in Nat
      /\ local[p].from \in 0..Len(file) /\ local[p].to \in 0..Len(file)
  BY LocalTypes DEF SyncInv, SyncTypeOK
<1>3. /\ ReadRows(local[p])
      /\ \A k \in 1..local[p].to : file[k] \in history.rewound \/ k <= offset
  BY <1>1 DEF SyncInv, PollsFit, PollFits
<1>4. \A i \in DOMAIN messages, j \in DOMAIN rows :
        Said(messages[i]) /\ Said(rows[j]) /\ rows[j] \notin history.rewound
          => messages[i][2] < rows[j][2]
  BY <1>1, NewAfterOld
<1>5. \A i, j \in DOMAIN rows :
        i < j /\ Said(rows[i]) /\ Said(rows[j]) => rows[i][2] < rows[j][2]
  BY <1>3 DEF ReadRows
<1>6. ToSet(local[p].fresh) \subseteq Questions
  BY LocalTypes DEF ToSet
<1>7. seen' \subseteq Questions /\ offset' \in 0..Len(file) /\ history' \in History
      /\ faults' \in 0..MaxWriteFaults
  BY <1>1, <1>6 DEF Store, ForgetAnswered, SyncInv, SyncTypeOK, History
<1>8. \A j \in DOMAIN rows : Said(rows[j]) =>
        \E n \in 1..local[p].to : rows[j] = file[n]
  <2>1. \A k \in (local[p].from + 1)..local[p].to : k \in 1..local[p].to
    BY <1>2
  <2> QED
    BY <1>3, <2>1 DEF ReadRows
<1> HIDE DEF rows
<1>9. /\ messages' \in Seq(Row) /\ Len(messages) \in Nat
      /\ \A i \in DOMAIN messages : i \in DOMAIN messages' /\ messages'[i] = messages[i]
      /\ \A i \in DOMAIN messages' : i \in DOMAIN messages
            \/ \E j \in DOMAIN rows : i = Len(messages) + j /\ messages'[i] = rows[j]
      /\ ToSet(messages) \subseteq ToSet(messages') /\ ToSet(rows) \subseteq ToSet(messages')
  BY <1>1, <1>2, RowsAppended
<1>10. /\ SyncTypeOK' /\ OnePoll' /\ Numbered' /\ PollsFit'
       /\ \A q \in Pollers : pc[q] # "idle" => q = p
       /\ \A q \in Pollers : pc'[q] = "idle"
  BY <1>1, <1>7, <1>9, PollLeaves DEF PollAt
<1>11. ASSUME NEW k \in 1..Len(file), Behind(k)
       PROVE  Behind(k)'
  BY <1>1, <1>10, <1>11 DEF Behind
<1>12. ASSUME NEW i \in DOMAIN messages', Said(messages'[i])
       PROVE  \E n \in DOMAIN file : file[n] = messages'[i] /\ \A k \in 1..n : Behind(k)'
  <2>1. DOMAIN file = 1..Len(file)
    BY DEF SyncInv, SyncTypeOK
  <2>2. CASE i \in DOMAIN messages
    <3>1. PICK n \in DOMAIN file : file[n] = messages[i] /\ \A k \in 1..n : Behind(k)
      BY <1>9, <1>12, <2>2 DEF SyncInv, StoredIsBehind
    <3>2. \A k \in 1..n : k \in 1..Len(file)
      BY <1>2, <2>1
    <3> QED
      BY <1>9, <1>11, <2>2, <3>1, <3>2
  <2>3. CASE i \notin DOMAIN messages
    <3>1. PICK j \in DOMAIN rows : messages'[i] = rows[j]
      BY <1>9, <2>3
    <3>2. PICK n \in 1..local[p].to : rows[j] = file[n]
      BY <1>8, <1>12, <3>1
    <3>3. n \in DOMAIN file /\ \A k \in 1..n : k \in 1..local[p].to
      BY <1>2, <2>1
    <3>4. \A k \in 1..n : Behind(k)'
      BY <1>1, <1>3, <1>10, <3>3 DEF Behind
    <3> QED
      BY <3>1, <3>2, <3>3, <3>4
  <2> QED
    BY <2>2, <2>3
<1>13. StoredIsBehind'
  BY <1>1, <1>12 DEF StoredIsBehind
<1>14. ASSUME NEW i \in DOMAIN messages', NEW j \in DOMAIN messages',
              Said(messages'[i]), Said(messages'[j]), messages'[i] \notin history.rewound
       PROVE  /\ messages'[i][2] = messages'[j][2] => i = j
              /\ messages'[i][2] < messages'[j][2] => i < j
  <2>1. /\ messages'[i][2] \in Nat /\ messages'[j][2] \in Nat
        /\ messages'[i][2] = messages'[j][2] => messages'[i] = messages'[j]
    <3>1. messages'[i] \in Row /\ messages'[j] \in Row
      BY <1>9
    <3> QED
      BY <1>14, <3>1, SaidIsNumber, BoundsAreNat
  <2>2. CASE i \in DOMAIN messages /\ j \in DOMAIN messages
    BY <1>9, <1>14, <2>2 DEF SyncInv, InOrder
  <2>3. CASE i \in DOMAIN messages /\ j \notin DOMAIN messages
    <3>1. PICK b \in DOMAIN rows : j = Len(messages) + b /\ messages'[j] = rows[b]
      BY <1>9, <2>3
    <3>2. i < j
      BY <1>2, <2>3, <3>1
    <3>3. messages'[i][2] # messages'[j][2]
      BY <1>4, <1>9, <1>14, <2>1, <2>3, <3>1
    <3> QED
      BY <3>2, <3>3
  <2>4. CASE i \notin DOMAIN messages /\ j \in DOMAIN messages
    <3>1. PICK a \in DOMAIN rows : messages'[i] = rows[a]
      BY <1>9, <2>4
    <3>2. messages'[j][2] < messages'[i][2]
      BY <1>4, <1>9, <1>14, <2>4, <3>1
    <3> QED
      BY <2>1, <3>2
  <2>5. CASE i \notin DOMAIN messages /\ j \notin DOMAIN messages
    <3>1. PICK a \in DOMAIN rows : i = Len(messages) + a /\ messages'[i] = rows[a]
      BY <1>9, <2>5
    <3>2. PICK b \in DOMAIN rows : j = Len(messages) + b /\ messages'[j] = rows[b]
      BY <1>9, <2>5
    <3>3. /\ a < b => messages'[i][2] < messages'[j][2]
          /\ b < a => messages'[j][2] < messages'[i][2]
      BY <1>5, <1>14, <3>1, <3>2
    <3>4. a \in Nat /\ b \in Nat /\ Len(messages) \in Nat
      BY <1>2, <1>9
    <3> QED
      BY <2>1, <3>1, <3>2, <3>3, <3>4
  <2> QED
    BY <2>2, <2>3, <2>4, <2>5
<1>15. InOrder'
  BY <1>1, <1>14 DEF InOrder
<1>16. Covered'
  <2>1. \A k \in 1..offset : Said(file[k]) => HasOrExcused(file[k]) \/ file[k] \in ToSet(rows)
    BY <1>10 DEF SyncInv, Covered, rows
  <2> QED
    BY <1>1, <1>9, <2>1 DEF Covered, HasOrExcused, Excused
<1> QED
  BY <1>10, <1>13, <1>15, <1>16 DEF SyncInv

\* Any step of the terminal writes a line of its own.
LEMMA TerminalSyncInv ==
  ASSUME SyncInv,
         TerminalSays \/ \E q \in Questions : TerminalAsks(q) \/ TerminalAnswers(q)
  PROVE  SyncInv'
<1>1. /\ file \in Seq(Line) /\ Says \in Nat /\ Says <= Wrote({"say", "ask", "answer"})
      /\ turn \in [Turns -> {"idle", "prompted", "replied", "stored", "read", "over"}]
  BY SaysAreLines DEF SyncInv, SyncTypeOK
<1>2. PICK line : /\ TerminalWrites(line)
                  /\ \/ line = <<"say", Says + 1>>
                     \/ \E q \in Questions : line \in {<<"ask", q>>, <<"answer", q>>}
  BY DEF TerminalSays, TerminalAsks, TerminalAnswers
<1>3. Wrote({"say", "ask", "answer"}) \in Nat
  <2>1. DOMAIN file = 1..Len(file) /\ Len(file) \in Nat
    BY <1>1
  <2>2. IsFiniteSet(1..Len(file))
    BY <2>1, FS_Interval
  <2>3. {i \in DOMAIN file : file[i][1] \in {"say", "ask", "answer"}} \subseteq 1..Len(file)
    BY <2>1
  <2> QED
    BY <2>2, <2>3, FS_Subset, FS_CardinalityType DEF Wrote
<1>4. Says + 1 \in 1..MaxLines
  BY <1>1, <1>2, <1>3, BoundsAreNat DEF TerminalWrites
<1>5. line \in Line /\ (Said(line) => line[2] = Says + 1)
  BY <1>2, <1>4 DEF Line, Texts, Said
<1> QED
  BY <1>1, <1>2, <1>5, FileGrows DEF TerminalWrites

LEMMA TurnSyncInv ==
  ASSUME SyncInv, NEW t \in Turns, Turn(t)
  PROVE  SyncInv'
<1> DEFINE TurnAt == {"idle", "prompted", "replied", "stored", "read", "over"}
<1>1. /\ turn \in [Turns -> TurnAt] /\ mark \in [Turns -> 0..Len(file)]
      /\ faults \in 0..MaxWriteFaults /\ Len(file) \in Nat /\ messages \in Seq(Row)
  BY DEF SyncInv, SyncTypeOK
<1>2. \A a, b \in TurnAt : TurnGoes(t, a, b) => turn' \in [Turns -> TurnAt]
  BY <1>1 DEF TurnGoes
<1>3. CASE TurnStarts(t) \/ CliReply(t)
  <2>1. PICK line \in {<<"prompt", t>>, <<"reply", t>>} : Writes(line)
    BY <1>3 DEF TurnStarts, CliReply
  <2>2. line \in Line /\ ~Said(line)
    BY DEF Line, Texts, Said
  <2>3. turn' \in [Turns -> TurnAt]
    BY <1>2, <1>3 DEF TurnStarts, CliReply
  <2> QED
    BY <1>3, <2>1, <2>2, <2>3, FileGrows DEF TurnStarts, CliReply, TurnGoes
<1>4. CASE TurnFails(t) \/ FinishStoreFails(t) \/ FinishReads(t)
  <2>1. <<>> \in Seq(Row) /\ messages' = messages \o <<>> /\ \A i \in DOMAIN <<>> : ~Said(<<>>[i])
    BY <1>1, <1>4 DEF TurnFails, FinishStoreFails, FinishReads
  <2>2. turn' \in [Turns -> TurnAt]
    BY <1>2, <1>4 DEF TurnFails, FinishStoreFails, FinishReads
  <2>3. mark' \in [Turns -> 0..Len(file)] /\ faults' \in 0..MaxWriteFaults
    BY <1>1, <1>4, BoundsAreNat DEF TurnFails, FinishStoreFails, FinishReads, WriteFault
  <2> QED
    BY <1>4, <2>1, <2>2, <2>3, QuietStep
       DEF TurnFails, FinishStoreFails, FinishReads, TurnGoes
<1>5. CASE TurnStops(t) \/ FinishStores(t)
  <2>1. PICK last \in {<<"partial", t>>, <<"reply", t>>} :
            messages' = messages \o << <<"prompt", t>>, last >>
    BY <1>5 DEF TurnStops, FinishStores
  <2> DEFINE rows == << <<"prompt", t>>, last >>
  <2>2. rows \in Seq(Row) /\ \A i \in DOMAIN rows : ~Said(rows[i])
    <3>1. <<"prompt", t>> \in Row /\ last \in Row /\ ~Said(<<"prompt", t>>) /\ ~Said(last)
      BY DEF Row, Line, Texts, Said
    <3>2. DOMAIN rows = {1, 2} /\ rows[1] = <<"prompt", t>> /\ rows[2] = last
      OBVIOUS
    <3> QED
      BY <3>1, <3>2
  <2>3. turn' \in [Turns -> TurnAt]
    BY <1>2, <1>5 DEF TurnStops, FinishStores
  <2> HIDE DEF rows
  <2>4. messages' = messages \o rows
    BY <2>1 DEF rows
  <2> QED
    BY <1>1, <1>5, <2>2, <2>3, <2>4, QuietStep DEF TurnStops, FinishStores, TurnGoes
<1>6. CASE FinishSkips(t)
  BY <1>6, FinishSkipsSyncInv
<1> QED
  BY <1>3, <1>4, <1>5, <1>6 DEF Turn

LEMMA NextSyncInv == SyncInv /\ [SyncNext]_syncVars => SyncInv'
<1> SUFFICES ASSUME SyncInv, [SyncNext]_syncVars
             PROVE  SyncInv'
  OBVIOUS
<1>1. CASE TerminalSays \/ \E q \in Questions : TerminalAsks(q) \/ TerminalAnswers(q)
  BY <1>1, TerminalSyncInv
<1>2. ASSUME NEW t \in Turns, Turn(t)
      PROVE  SyncInv'
  BY <1>2, TurnSyncInv
<1>3. ASSUME NEW p \in Pollers, Poll(p)
      PROVE  SyncInv'
  <2>1. CASE Enter(p) \/ SkipReads(p) \/ ReadTail(p)
    BY <2>1, EnterSyncInv, SkipReadsSyncInv, ReadTailSyncInv
  <2>2. CASE \E blocked \in BOOLEAN : SkipWrites(p, blocked)
    BY <2>2, SkipWritesSyncInv
  <2>3. CASE MoveOffset(p) \/ NothingNew(p) \/ MoveFails(p)
    BY <2>3, MoveOffsetSyncInv, NothingNewSyncInv, MoveFailsSyncInv
  <2>4. CASE Store(p) \/ StoreFails(p)
    BY <2>4, StoreSyncInv, StoreFailsSyncInv
  <2> QED
    BY <1>3, <2>1, <2>2, <2>3, <2>4 DEF Poll
<1>4. CASE UNCHANGED syncVars
  BY <1>4, StutterSyncInv
<1> QED
  BY <1>1, <1>2, <1>3, <1>4 DEF SyncNext

\* The invariant says it: what the rows of a poll are to store is kept, and the
\* order of the stored rows is the terminal's.
LEMMA SyncInvKeeps == SyncInv /\ TakenSaysTheSame => TerminalKept
<1> SUFFICES ASSUME SyncInv, TakenSaysTheSame
             PROVE  TerminalKept
  OBVIOUS
<1>1. TerminalOnce
  <2> SUFFICES ASSUME NEW m \in 1..MaxLines, NEW n \in 1..MaxLines,
                      <<"say", m>> \notin history.rewound,
                      NEW i \in Places(<<"say", m>>), NEW j \in Places(<<"say", n>>)
               PROVE  (m = n => i = j) /\ (m < n => i < j)
    BY DEF TerminalOnce
  <2>1. /\ i \in DOMAIN messages /\ messages[i] = <<"say", m>>
        /\ j \in DOMAIN messages /\ messages[j] = <<"say", n>>
    BY DEF Places, SyncInv, SyncTypeOK
  <2>2. Said(messages[i]) /\ Said(messages[j]) /\ messages[i][2] = m /\ messages[j][2] = n
    BY <2>1 DEF Said
  <2> QED
    BY <2>1, <2>2 DEF SyncInv, InOrder
<1>2. LostOnlyBySkip
  BY DEF SyncInv, Covered, LostOnlyBySkip, Kept, HasOrExcused, Said
<1> QED
  BY <1>1, <1>2 DEF TerminalKept, SyncInv

\* Texts stay, rows are only added, and _drop_already_stored takes a row for
\* one with the same text.
LEMMA TakenStep ==
  SyncInv /\ TakenSaysTheSame /\ [SyncNext]_syncVars => TakenSaysTheSame'
<1> SUFFICES ASSUME SyncInv, TakenSaysTheSame, [SyncNext]_syncVars
             PROVE  TakenSaysTheSame'
  OBVIOUS
<1>0. history \in History /\ messages \in Seq(Row)
  BY DEF SyncInv, SyncTypeOK, History
<1>1. ASSUME text' = text, history'.taken = history.taken,
             ToSet(messages) \subseteq ToSet(messages')
      PROVE  TakenSaysTheSame'
  BY <1>1 DEF TakenSaysTheSame
<1>2. \A to : Jump(to) => history'.taken = history.taken
  BY <1>0 DEF Jump, History
<1>3. CASE TerminalSays \/ \E q \in Questions : TerminalAsks(q) \/ TerminalAnswers(q)
  BY <1>1, <1>3 DEF TerminalSays, TerminalAsks, TerminalAnswers, TerminalWrites
<1>4. ASSUME NEW t \in Turns, Turn(t)
      PROVE  TakenSaysTheSame'
  <2>1. text' = text
    BY <1>4 DEF Turn, TurnStarts, CliReply, TurnFails, TurnStops, FinishStores,
                FinishStoreFails, FinishReads, FinishSkips, TurnGoes
  <2>2. history'.taken = history.taken
    BY <1>2, <1>4 DEF Turn, TurnStarts, CliReply, TurnFails, TurnStops, FinishStores,
                      FinishStoreFails, FinishReads, FinishSkips
  <2>3. CASE TurnStops(t) \/ FinishStores(t)
    <3>1. PICK last \in {<<"partial", t>>, <<"reply", t>>} :
              messages' = messages \o << <<"prompt", t>>, last >>
      BY <2>3 DEF TurnStops, FinishStores
    <3> DEFINE rows == << <<"prompt", t>>, last >>
    <3>2. rows \in Seq(Row)
      <4>1. <<"prompt", t>> \in Row /\ last \in Row
        BY DEF Row, Line, Texts
      <4> QED
        BY <4>1
    <3> HIDE DEF rows
    <3>3. messages' = messages \o rows
      BY <3>1 DEF rows
    <3>4. ToSet(messages) \subseteq ToSet(messages')
      BY <1>0, <3>2, <3>3, RowsAppended
    <3> QED
      BY <1>1, <2>1, <2>2, <3>4
  <2>4. CASE ~(TurnStops(t) \/ FinishStores(t))
    <3>1. messages' = messages
      BY <1>4, <2>4 DEF Turn, TurnStarts, CliReply, TurnFails, FinishStoreFails,
                        FinishReads, FinishSkips
    <3> QED
      BY <1>1, <2>1, <2>2, <3>1
  <2> QED
    BY <2>3, <2>4
<1>5. ASSUME NEW p \in Pollers, Poll(p)
      PROVE  TakenSaysTheSame'
  <2>1. text' = text
    BY <1>5 DEF Poll, Enter, SkipReads, SkipWrites, ReadTail, MoveOffset, NothingNew,
                MoveFails, Store, StoreFails, Leaves, Goes
  <2>2. CASE Enter(p) \/ SkipReads(p) \/ ReadTail(p) \/ MoveFails(p)
    <3>1. UNCHANGED <<history, messages>>
      BY <2>2 DEF Enter, SkipReads, ReadTail, MoveFails
    <3> QED
      BY <1>1, <2>1, <3>1
  <2>3. CASE \E blocked \in BOOLEAN : SkipWrites(p, blocked)
    <3>1. history'.taken = history.taken /\ messages' = messages
      BY <1>2, <2>3 DEF SkipWrites
    <3> QED
      BY <1>1, <2>1, <3>1
  <2>4. CASE MoveOffset(p) \/ NothingNew(p)
    <3>1. Drops(p) /\ messages' = messages
      BY <2>4 DEF MoveOffset, NothingNew
    <3>2. \A q \in history'.taken :
                \/ q \in history.taken
                \/ q[2] \in ToSet(messages) /\ text[q[1]] = text[q[2]]
      BY <3>1, DropsNote DEF SyncInv
    <3> QED
      BY <2>1, <3>1, <3>2 DEF TakenSaysTheSame
  <2>5. CASE Store(p)
    <3>1. messages' = messages \o local[p].rows /\ history' = history
      BY <2>5 DEF Store
    <3>2. ToSet(messages) \subseteq ToSet(messages')
      BY <1>0, <3>1, LocalTypes, RowsAppended
    <3> QED
      BY <1>1, <2>1, <3>1, <3>2
  <2>6. CASE StoreFails(p)
    <3>1. history'.taken = history.taken /\ messages' = messages
      BY <1>0, <2>6 DEF StoreFails, History
    <3> QED
      BY <1>1, <2>1, <3>1
  <2> QED
    BY <1>5, <2>2, <2>3, <2>4, <2>5, <2>6 DEF Poll
<1>6. CASE UNCHANGED syncVars
  BY <1>1, <1>6 DEF syncVars
<1> QED
  BY <1>3, <1>4, <1>5, <1>6 DEF SyncNext

LEMMA SyncInvHolds == SyncSpec => [](SyncInv /\ TakenSaysTheSame)
<1>1. SyncInit => SyncInv /\ TakenSaysTheSame
  BY InitSyncInv DEF SyncInit, TakenSaysTheSame
<1>2. SyncInv /\ TakenSaysTheSame /\ [SyncNext]_syncVars => (SyncInv /\ TakenSaysTheSame)'
  BY NextSyncInv, TakenStep
<1> QED
  BY <1>1, <1>2, PTL DEF SyncSpec

\* What the terminal writes reaches the conversation once and in its order, and
\* nothing behind the offset is missing (_sync_linked_chat, chats.py:3508):
\* whatever the poll that holds the lock, the turns' skips and failed writes do
\* in between.  Only a skip that steps over a line, one that goes back behind
\* it, a write of rows that failed, and a stored row that says the same and that
\* the line was taken for excuse.
THEOREM TerminalIsKept == SyncSpec => []TerminalKept
<1>1. SyncInv /\ TakenSaysTheSame => TerminalKept
  BY SyncInvKeeps
<1> QED
  BY <1>1, SyncInvHolds, PTL
=============================================================================
