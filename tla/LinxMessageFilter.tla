-------------------------- MODULE LinxMessageFilter --------------------------
(***************************************************************************)
(* The two tests a receive applies to a message: its signal number against *)
(* the selector list (here the set of its members) and its sender against  *)
(* the expected sender.  A message is a record with the fields reqId and   *)
(* from, a filter a record with the fields sigsel and from.                *)
(***************************************************************************)
EXTENDS LinxIdentifier, Sequences, SequencesExt

matchesSignalSelector(m, sigsel) == sigsel = {} \/ m.reqId \in sigsel

matchesFrom(from, expected) ==
  \/ expected = AnyFrom
  \/ from # AnyFrom /\ SameIdentifier(from, expected)

Matches(m, filter) ==
  /\ matchesFrom(m.from, filter.from)
  /\ matchesSignalSelector(m, filter.sigsel)

\* The index of the first message of a list that passes, 0 for none.
FirstMatch(list, filter) == SelectInSeq(list, LAMBDA m : Matches(m, filter))
=============================================================================
