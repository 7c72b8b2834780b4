------------------------------ MODULE Replies ------------------------------
(***************************************************************************)
(* What the Agora bridge promises to the other citizens, whatever happens   *)
(* inside: a message is answered at most once, and where it was asked; a    *)
(* message that was set aside is never answered; nothing is answered once   *)
(* the bridge is closed.                                                   *)
(***************************************************************************)
EXTENDS Sequences

CONSTANT Messages

\* A message to a thread, a whisper, a whisper whose author is masked, one of
\* our own, one without text, and one whose author cannot be read.
Kinds == {"thread", "whisper", "masked", "own", "blank", "broken"}
Answerable == {"thread", "whisper", "masked"}

VARIABLES kind, fate, answers, open
vars == <<kind, fate, answers, open>>

\* A masked author cannot be named, so that whisper is answered in the thread.
Place(k) == IF k = "whisper" THEN "author" ELSE "thread"

Init ==
    /\ kind \in [Messages -> Kinds]
    /\ fate = [m \in Messages |-> "unseen"]
    /\ answers = [m \in Messages |-> <<>>]
    /\ open = TRUE

Take(m) ==
    /\ fate[m] = "unseen"
    /\ fate' = [fate EXCEPT ![m] = "owed"]
    /\ UNCHANGED <<kind, answers, open>>

SetAside(m) ==
    /\ fate[m] = "owed"
    /\ fate' = [fate EXCEPT ![m] = "aside"]
    /\ UNCHANGED <<kind, answers, open>>

Answer(m) ==
    /\ open /\ fate[m] = "owed" /\ kind[m] \in Answerable
    /\ answers' = [answers EXCEPT ![m] = <<Place(kind[m])>>]
    /\ fate' = [fate EXCEPT ![m] = "answered"]
    /\ UNCHANGED <<kind, open>>

Close == open /\ open' = FALSE /\ UNCHANGED <<kind, fate, answers>>

Next == (\E m \in Messages : Take(m) \/ SetAside(m) \/ Answer(m)) \/ Close

Spec == Init /\ [][Next]_vars
=============================================================================
