------------------------------ MODULE Serving ------------------------------
(***************************************************************************)
(* What a runtime promises to its visitors: it serves nothing, or one      *)
(* generation that was published and that composed; it goes from one       *)
(* generation to the next in one step, and only to one whose entries were  *)
(* all verified.  A generation is the UI a published pointer resolves to:  *)
(* its own, or the one its parent published.                               *)
(***************************************************************************)
CONSTANTS Digests, Inherit, None, Uncomposable, BadEntry

VARIABLES owns,     \* every pointer the runtime ever published
          parents,  \* every UI its parent ever published
          serving   \* the generation visitors get, or None

vars == <<owns, parents, serving>>

Resolve(o, p) == IF o = Inherit THEN p ELSE o

Generations == {Resolve(o, p) : o \in owns, p \in parents}

Init ==
  /\ owns \subseteq Digests \cup {Inherit}
  /\ parents \subseteq Digests
  /\ serving = None

Publish ==
  /\ owns' \in SUBSET (Digests \cup {Inherit}) /\ owns \subseteq owns'
  /\ parents' \in SUBSET Digests /\ parents \subseteq parents'
  /\ UNCHANGED serving

Start ==
  /\ serving = None
  /\ serving' \in Generations \ Uncomposable
  /\ UNCHANGED <<owns, parents>>

Adopt ==
  /\ serving # None
  /\ serving' \in Generations \ (Uncomposable \cup BadEntry)
  /\ UNCHANGED <<owns, parents>>

Stop ==
  /\ serving' = None
  /\ UNCHANGED <<owns, parents>>

Next == Publish \/ Start \/ Adopt \/ Stop

Spec == Init /\ [][Next]_vars
=============================================================================
