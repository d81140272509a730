---------------------------- MODULE ReplayWindow ----------------------------
(***************************************************************************)
(* The sliding bitmap of src/replay.rs: WORDS words of WORD_BITS bits used *)
(* as a ring, one word more than the window needs.  A word is the set of   *)
(* the bit positions that are 1.                                           *)
(***************************************************************************)
EXTENDS Replay

CONSTANTS
  WORD_BITS,   \* 64
  Counters     \* counters of the datagrams that arrive

\* Both divisions of the source are exact or rounded down (`/' on u64).
ASSUME WordAssumption ==
  /\ WORD_BITS \in Nat \ {0} /\ WINDOW_BITS % WORD_BITS = 0
  /\ Counters \subseteq Nat

\* Mutant of WORDS: no spare word.
WORDS_exact == WINDOW_BITS \div WORD_BITS

WORDS == (WINDOW_BITS \div WORD_BITS) + 1

VARIABLES
  greatest, primed, bitmap,
  accepted    \* history: the counters accepted so far

vars == <<greatest, primed, bitmap, accepted>>

Empty == [w \in 0 .. (WORDS - 1) |-> {}]

TypeOK ==
  /\ greatest \in Nat
  /\ primed \in BOOLEAN
  /\ bitmap \in [0 .. (WORDS - 1) -> SUBSET (0 .. (WORD_BITS - 1))]
  /\ accepted \subseteq Counters

\* ReplayWindow::new
Init ==
  /\ greatest = 0 /\ primed = FALSE /\ bitmap = Empty /\ accepted = {}

word(counter) == (counter \div WORD_BITS) % WORDS

bit(counter) == counter % WORD_BITS \in bitmap[word(counter)]

\* Mutant of set_bit: the position not reduced to the word.
set_bit_unmasked(map, counter) ==
  [map EXCEPT ![word(counter)] = @ \cup {counter}]

set_bit(map, counter) ==
  [map EXCEPT ![word(counter)] = @ \cup {counter % WORD_BITS}]

check(counter) ==
  /\ counter < REJECT_AFTER_MESSAGES
  /\ \/ ~primed \/ counter > greatest
     \/ greatest - counter < WINDOW_BITS /\ ~bit(counter)

\* The bitmap after sliding its top up to `counter': the words skipped over
\* and the new top word are cleared.
slide(counter) ==
  LET skipped == (greatest \div WORD_BITS) + 1 .. counter \div WORD_BITS IN
  IF counter - greatest >= WINDOW_BITS THEN Empty
    ELSE [w \in DOMAIN bitmap |->
            IF \E x \in skipped : x % WORDS = w THEN {} ELSE bitmap[w]]

accept(counter) ==
  \/ ~check(counter) /\ UNCHANGED vars
  \/ /\ check(counter)
     /\ primed' = TRUE
     /\ greatest' = IF ~primed \/ counter > greatest THEN counter ELSE greatest
     /\ bitmap' = set_bit(CASE ~primed -> Empty
                            [] primed /\ counter > greatest -> slide(counter)
                            [] OTHER -> bitmap,
                          counter)
     /\ accepted' = accepted \cup {counter}

Next == \E counter \in Counters : accept(counter)

Spec == Init /\ [][Next]_vars

-----------------------------------------------------------------------------
\* The bitmap forgets nothing it still needs and remembers nothing it should
\* have forgotten: for every counter, check answers as the full set of the
\* accepted counters would, though words are reused and cleared in bulk
\* (the reference model of the test at replay.rs:233-268).
CheckAgrees ==
  \A counter \in Counters : check(counter) <=> replay_check(accepted, counter)

=============================================================================
