------------------------- MODULE ConversationProofs -------------------------
(***************************************************************************)
(* TLAPS proofs about Conversation, for any messages, peers and tool calls, *)
(* any history size and any limits: types, that a reply is generated from   *)
(* its own context, that its loop is bounded, and that what is kept of a    *)
(* conversation reads as one.                                               *)
(***************************************************************************)
EXTENDS Conversation, SequenceTheorems, TLAPS

\* What OwnContext needs: the history kept for a peer is about that peer.
HistoryInv == mode = "per_peer" =>
    \A b \in Buckets : \A i \in DOMAIN history[b] : Speaker[history[b][i].about] = b

\* What LoopBounded needs: how the requests go with the iterations, and that what
\* was dispatched last is remembered, with how often it was repeated.
CountInv == \A m \in Messages :
    /\ pc[m] \in {"idle", "single"} => asked[m] = 0
    /\ pc[m] = "idle" => iteration[m] = 1
    /\ pc[m] = "thinking" => asked[m] + 1 = iteration[m]
    /\ pc[m] \in {"dispatching", "recovering"} => asked[m] = iteration[m]
    /\ asked[m] <= MaxIterations + 1

\* The last turns of a non-empty sequence of calls: the count exceeds by nothing
\* the run of equal calls at its end.
Counted(calls, sig, n) ==
    IF calls = <<>> THEN sig = NoCalls
    ELSE /\ sig = calls[Len(calls)]
         /\ Len(calls) > n + 1 => calls[Len(calls) - n - 1] # sig

NoLongRun(calls) ==
    \A i \in 1..(Len(calls) - IdenticalLimit + 1) :
        \E j \in i..(i + IdenticalLimit - 1) : calls[j] # calls[i]

RunInv == \A m \in Messages :
    /\ pc[m] = "idle" => ran[m] = <<>> /\ previous[m] = NoCalls
    /\ pc[m] \in {"thinking", "dispatching"} => Counted(ran[m], previous[m], repeats[m])
    /\ NoLongRun(ran[m])

-----------------------------------------------------------------------------
(***************************************************************************)
(* The bounded history                                                     *)
(***************************************************************************)

\* What deque(maxlen).append returns: it is not longer than it may be, ends with
\* the new turn, and holds no turn that was not there.
LEMMA PushedProperties ==
    ASSUME NEW turns \in Seq(Turns), NEW t \in Turns, Len(turns) <= HistorySize
    PROVE  LET p == Pushed(turns, t) IN
           /\ p \in Seq(Turns) /\ Len(p) <= HistorySize
           /\ p # <<>> /\ Last(p) = t
           /\ \A i \in DOMAIN p : p[i] = t \/ \E j \in DOMAIN turns : p[i] = turns[j]
  <1> DEFINE longer == Append(turns, t)
             p == Pushed(turns, t)
  <1>1. /\ longer \in Seq(Turns) /\ Len(longer) = Len(turns) + 1 /\ Len(turns) \in Nat
        /\ longer[Len(turns) + 1] = t
        /\ \A i \in 1..Len(turns) : longer[i] = turns[i]
        /\ DOMAIN turns = 1..Len(turns) /\ DOMAIN longer = 1..Len(longer)
    BY AppendProperties, LenProperties
  <1>2. HistorySize \in Nat \ {0}
    BY ConversationAssumption
  <1>3. CASE Len(longer) > HistorySize
    <2>1. p = Tail(longer)
      BY <1>3 DEF Pushed
    <2>2. /\ Len(longer) = HistorySize + 1 /\ longer # <<>>
          /\ Len(longer) - 1 = HistorySize /\ Len(turns) = HistorySize
      <3>1. Len(longer) = Len(turns) + 1 /\ Len(turns) \in Nat
        BY <1>1
      <3>2. Len(turns) = HistorySize
        BY <1>2, <1>3, <3>1
      <3> QED
        BY <1>2, <3>1, <3>2, EmptySeq
    <2> HIDE DEF longer, p
    <2>3. /\ p \in Seq(Turns) /\ Len(p) = Len(longer) - 1
          /\ \A i \in 1..Len(p) : p[i] = longer[i + 1]
      BY <1>1, <2>1, <2>2, HeadTailProperties
    <2>4. DOMAIN p = 1..Len(p) /\ Len(p) = HistorySize /\ Len(turns) = HistorySize
      <3>1. DOMAIN p = 1..Len(p)
        BY <2>3, LenProperties
      <3> QED
        BY <2>2, <2>3, <3>1
    <2>5. p[Len(p)] = t /\ p # <<>>
      BY <1>1, <1>2, <2>3, <2>4, EmptySeq
    <2>6. ASSUME NEW i \in DOMAIN p
          PROVE  p[i] = t \/ \E j \in DOMAIN turns : p[i] = turns[j]
      <3>1. p[i] = longer[i + 1] /\ i + 1 \in 1..(Len(turns) + 1)
        BY <1>2, <2>3, <2>4
      <3>2. i + 1 \in 1..Len(turns) \/ i + 1 = Len(turns) + 1
        BY <1>1, <3>1
      <3> QED
        BY <1>1, <3>1, <3>2
    <2> QED
      BY <1>2, <2>3, <2>4, <2>5, <2>6 DEF Last, p
  <1>4. CASE ~(Len(longer) > HistorySize)
    <2>1. p = longer
      BY <1>4 DEF Pushed
    <2> HIDE DEF longer, p
    <2>2. Len(p) <= HistorySize /\ p # <<>> /\ Last(p) = t
      BY <1>1, <1>2, <1>4, <2>1, EmptySeq DEF Last
    <2>3. ASSUME NEW i \in DOMAIN p
          PROVE  p[i] = t \/ \E j \in DOMAIN turns : p[i] = turns[j]
      <3>1. i \in 1..Len(turns) \/ i = Len(turns) + 1
        BY <1>1, <2>1
      <3> QED
        BY <1>1, <2>1, <3>1
    <2> QED
      BY <1>1, <2>1, <2>2, <2>3 DEF p
  <1> QED
    BY <1>3, <1>4

LEMMA BucketType ==
    ASSUME TypeOK, NEW m \in Messages, NEW who \in {Speaker[m], Axioma}
    PROVE  /\ Bucket(m) \in Buckets /\ Speaker[m] \in Peers
           /\ [by |-> who, about |-> m] \in Turns
           /\ history[Bucket(m)] \in Seq(Turns)
           /\ Len(history[Bucket(m)]) <= HistorySize
  <1>1. Speaker[m] \in Peers
    BY ConversationAssumption
  <1>2. Bucket(m) \in Buckets
    BY <1>1 DEF Bucket, Buckets
  <1>3. who \in Peers \cup {Axioma}
    BY <1>1
  <1> QED
    BY <1>1, <1>2, <1>3 DEF TypeOK, Turns

\* Remembering a turn keeps the histories typed, bounded, and about their peer.
LEMMA Remembered ==
    ASSUME TypeOK, HistoryInv, NEW m \in Messages, NEW who \in {Speaker[m], Axioma},
           Remember(m, who), UNCHANGED mode
    PROVE  /\ history' \in [Buckets -> Seq(Turns)]
           /\ \A b \in Buckets : Len(history'[b]) <= HistorySize
           /\ HistoryInv'
           /\ history'[Bucket(m)] # <<>>
           /\ Last(history'[Bucket(m)]) = [by |-> who, about |-> m]
  <1> DEFINE t == [by |-> who, about |-> m]
             B == Bucket(m)
  <1>1. /\ B \in Buckets /\ t \in Turns
        /\ history[B] \in Seq(Turns) /\ Len(history[B]) <= HistorySize
    BY BucketType
  <1>2. /\ history'[B] = Pushed(history[B], t)
        /\ \A b \in Buckets \ {B} : history'[b] = history[b]
        /\ DOMAIN history' = Buckets
        /\ history' = [history EXCEPT ![B] = Pushed(history[B], t)]
    BY <1>1 DEF Remember, TypeOK
  <1>3. /\ history'[B] \in Seq(Turns) /\ Len(history'[B]) <= HistorySize
        /\ history'[B] # <<>> /\ Last(history'[B]) = t
        /\ \A i \in DOMAIN history'[B] :
            history'[B][i] = t \/ \E j \in DOMAIN history[B] : history'[B][i] = history[B][j]
    BY <1>1, <1>2, PushedProperties
  <1>4. history' \in [Buckets -> Seq(Turns)]
    BY <1>1, <1>2, <1>3 DEF TypeOK
  <1>5. \A b \in Buckets : Len(history'[b]) <= HistorySize
    BY <1>2, <1>3 DEF TypeOK
  <1>6. HistoryInv'
    <2> SUFFICES ASSUME mode = "per_peer", NEW b \in Buckets, NEW i \in DOMAIN history'[b]
                 PROVE  Speaker[history'[b][i].about] = b
      BY DEF HistoryInv
    <2>1. CASE b # B
      BY <1>2, <2>1 DEF HistoryInv
    <2>2. CASE b = B
      <3>1. Speaker[m] = B /\ t.about = m
        BY DEF Bucket
      <3> QED
        BY <1>1, <1>3, <2>2, <3>1 DEF HistoryInv
    <2> QED
      BY <2>1, <2>2
  <1> QED
    BY <1>3, <1>4, <1>5, <1>6

-----------------------------------------------------------------------------
(***************************************************************************)
(* The guard against repetition                                            *)
(***************************************************************************)

\* One more set of calls is counted with those before it.
LEMMA CountedAppend ==
    ASSUME NEW calls \in Seq(Signatures), NEW sig, NEW n \in Nat,
           Counted(calls, sig, n), NEW s \in Signatures,
           NEW k, k = (IF s = sig THEN n + 1 ELSE 0)
    PROVE  Counted(Append(calls, s), s, k) /\ k \in Nat
  <1> DEFINE c == Append(calls, s)
  <1>1. /\ Len(c) = Len(calls) + 1 /\ Len(calls) \in Nat
        /\ c[Len(calls) + 1] = s
        /\ \A i \in 1..Len(calls) : c[i] = calls[i]
    BY AppendProperties, LenProperties
  <1>2. c # <<>> /\ c[Len(c)] = s
    BY <1>1, EmptySeq
  <1> HIDE DEF c
  <1>3. ASSUME Len(c) > k + 1 PROVE c[Len(c) - k - 1] # s
    <2>1. calls # <<>>
      BY <1>1, <1>3, EmptySeq
    <2>2. CASE s = sig
      <3>1. k = n + 1 /\ Len(calls) > n + 1
        BY <1>1, <1>3, <2>2
      <3>2. Len(c) - k - 1 = Len(calls) - n - 1 /\ Len(calls) - n - 1 \in 1..Len(calls)
        BY <1>1, <3>1
      <3>3. c[Len(c) - k - 1] = calls[Len(calls) - n - 1]
        BY <1>1, <3>2
      <3> QED
        BY <2>1, <2>2, <3>1, <3>3 DEF Counted
    <2>3. CASE s # sig
      <3>1. k = 0 /\ Len(c) - k - 1 = Len(calls) /\ Len(calls) \in 1..Len(calls)
        BY <1>1, <1>3, <2>3
      <3>2. c[Len(c) - k - 1] = calls[Len(calls)]
        BY <1>1, <3>1
      <3> QED
        BY <2>1, <2>3, <3>2 DEF Counted
    <2> QED
      BY <2>2, <2>3
  <1>4. k \in Nat
    OBVIOUS
  <1> QED
    BY <1>2, <1>3, <1>4 DEF Counted, c

\* As long as the count stays under the limit, no window of the limit's length
\* holds one set of calls alone.
LEMMA NoLongRunAppend ==
    ASSUME NEW calls \in Seq(Signatures), NEW s \in Signatures, NEW k \in Nat,
           NoLongRun(calls), Counted(Append(calls, s), s, k), k + 1 < IdenticalLimit
    PROVE  NoLongRun(Append(calls, s))
  <1> DEFINE c == Append(calls, s)
             L == IdenticalLimit
  <1>1. /\ Len(c) = Len(calls) + 1 /\ Len(calls) \in Nat
        /\ c[Len(calls) + 1] = s
        /\ \A i \in 1..Len(calls) : c[i] = calls[i]
        /\ c # <<>>
    BY AppendProperties, LenProperties, EmptySeq
  <1>2. L \in Nat \ {0}
    BY ConversationAssumption
  <1>3. Len(c) > k + 1 => c[Len(c) - k - 1] # s
    BY <1>1 DEF Counted
  <1> SUFFICES ASSUME NEW i \in 1..(Len(c) - L + 1)
               PROVE  \E j \in i..(i + L - 1) : c[j] # c[i]
    BY DEF NoLongRun
  <1> HIDE DEF c
  <1>4. CASE i + L - 1 <= Len(calls)
    <2>1. i \in 1..(Len(calls) - L + 1)
      BY <1>1, <1>2, <1>4
    <2>2. PICK j \in i..(i + L - 1) : calls[j] # calls[i]
      BY <2>1 DEF NoLongRun
    <2>3. j \in 1..Len(calls) /\ i \in 1..Len(calls)
      BY <1>1, <1>2, <1>4
    <2> QED
      BY <1>1, <2>2, <2>3
  <1>5. CASE i + L - 1 > Len(calls)
    <2>1. i = Len(c) - L + 1
      BY <1>1, <1>2, <1>5
    <2>2. /\ Len(c) > k + 1
          /\ Len(c) - k - 1 \in i..(i + L - 1)
          /\ Len(c) \in i..(i + L - 1)
      BY <1>1, <1>2, <2>1
    <2>3. c[Len(c) - k - 1] # c[Len(c)]
      BY <1>1, <1>3, <2>2
    <2> QED
      BY <2>2, <2>3
  <1> QED
    BY <1>1, <1>2, <1>4, <1>5

-----------------------------------------------------------------------------
(***************************************************************************)
(* The inductive invariant                                                 *)
(***************************************************************************)

ConvInv == TypeOK /\ HistoryInv /\ OwnContext /\ CountInv /\ RunInv

LEMMA Limits ==
    /\ MaxIterations \in Nat /\ 1 <= MaxIterations
    /\ IdenticalLimit \in Nat /\ 1 <= IdenticalLimit
  BY ConversationAssumption

LEMMA InitInv == Init => ConvInv
  <1> SUFFICES ASSUME Init PROVE ConvInv
    OBVIOUS
  <1>1. /\ <<>> \in Seq(Turns) /\ <<>> \in Seq(Signatures) /\ Len(<<>>) = 0
        /\ 1 \in 1..MaxIterations /\ 0 <= HistorySize
    BY Limits, ConversationAssumption
  <1>2. TypeOK
    BY <1>1 DEF Init, TypeOK
  <1>3. HistoryInv
    BY DEF Init, HistoryInv
  <1>4. OwnContext
    BY DEF Init, OwnContext
  <1>5. CountInv
    BY Limits DEF Init, CountInv
  <1>6. RunInv
    <2>1. NoLongRun(<<>>)
      <3>1. \A i \in 1..(0 - IdenticalLimit + 1) : FALSE
        BY Limits
      <3> QED
        BY <1>1, <3>1 DEF NoLongRun
    <2> QED
      BY <2>1 DEF Init, RunInv
  <1> QED
    BY <1>2, <1>3, <1>4, <1>5, <1>6 DEF ConvInv

LEMMA RespondTextInv ==
    ASSUME ConvInv, NEW m \in Messages, RespondText(m)
    PROVE  ConvInv'
  <1> DEFINE q == history'[Bucket(m)]
  <1>1. /\ history' \in [Buckets -> Seq(Turns)]
        /\ \A b \in Buckets : Len(history'[b]) <= HistorySize
        /\ HistoryInv'
        /\ q # <<>> /\ Last(q) = [by |-> Speaker[m], about |-> m]
    BY Remembered DEF RespondText, ConvInv
  <1>2. Bucket(m) \in Buckets /\ pc[m] = "idle"
    BY BucketType DEF RespondText, ConvInv
  <1>3. prompt' \in [Messages -> Seq(Turns)] /\ prompt'[m] = q
        /\ \A n \in Messages \ {m} : prompt'[n] = prompt[n] /\ pc'[n] = pc[n]
    BY <1>1, <1>2 DEF RespondText, Goto, ConvInv, TypeOK
  <1>4. pc'[m] \in {"thinking", "single"}
    BY DEF RespondText, Goto, ConvInv, TypeOK
  <1>5. TypeOK'
    <2>1. pc' \in [Messages -> {"idle", "thinking", "dispatching", "recovering", "single",
                                "done", "cancelled"}]
      BY DEF RespondText, Goto, ConvInv, TypeOK
    <2> QED
      BY <1>1, <1>3, <2>1 DEF RespondText, ConvInv, TypeOK, loopvars
  <1>6. OwnContext'
    <2> SUFFICES ASSUME NEW n \in Messages, pc'[n] # "idle"
                 PROVE  /\ prompt'[n] # <<>>
                        /\ Last(prompt'[n]) = [by |-> Speaker[n], about |-> n]
                        /\ mode' = "per_peer" =>
                             \A i \in DOMAIN prompt'[n] :
                               Speaker[prompt'[n][i].about] = Speaker[n]
      BY DEF OwnContext
    <2>1. CASE n = m
      <3>1. mode' = "per_peer" => Bucket(m) = Speaker[m]
        BY DEF RespondText, Bucket
      <3> HIDE DEF q
      <3>2. mode' = "per_peer" => \A i \in DOMAIN q : Speaker[q[i].about] = Bucket(m)
        BY <1>1, <1>2 DEF HistoryInv, q
      <3> QED
        BY <1>1, <1>3, <2>1, <3>1, <3>2
    <2>2. CASE n # m
      BY <1>3, <2>2 DEF RespondText, ConvInv, OwnContext
    <2> QED
      BY <2>1, <2>2
  <1>7. CountInv'
    BY <1>2, <1>3, <1>4, Limits DEF RespondText, loopvars, ConvInv, CountInv
  <1>8. RunInv'
    BY <1>2, <1>3, <1>4 DEF RespondText, loopvars, ConvInv, RunInv, Counted
  <1> QED
    BY <1>1, <1>5, <1>6, <1>7, <1>8 DEF ConvInv

\* A reply that has been started keeps its prompt.
LEMMA ContextKept ==
    ASSUME OwnContext, UNCHANGED <<mode, prompt>>,
           \A n \in Messages : pc'[n] # "idle" => pc[n] # "idle"
    PROVE  OwnContext'
  BY DEF OwnContext

\* The model is asked once more, and the reply is complete.
LEMMA FinishInv ==
    ASSUME ConvInv, NEW m \in Messages, pc[m] \in {"thinking", "recovering", "single"},
           NEW text \in Nat, ModelAnswers(m), Finish(m, text),
           UNCHANGED <<mode, tools, prompt, iteration, previous, repeats, ran>>
    PROVE  ConvInv'
  <1>1. /\ history' \in [Buckets -> Seq(Turns)]
        /\ \A b \in Buckets : Len(history'[b]) <= HistorySize
        /\ HistoryInv'
    <2>1. CASE text = 0
      BY <2>1 DEF Finish, ConvInv, TypeOK, HistoryInv
    <2>2. CASE text # 0
      BY <2>2, Remembered DEF Finish, ConvInv
    <2> QED
      BY <2>1, <2>2
  <1>2. /\ pc' = [pc EXCEPT ![m] = "done"] /\ pc'[m] = "done"
        /\ asked'[m] = asked[m] + 1
        /\ \A n \in Messages \ {m} : pc'[n] = pc[n] /\ asked'[n] = asked[n]
    BY DEF Finish, Goto, ModelAnswers, ConvInv, TypeOK
  <1>3. TypeOK'
    BY <1>1 DEF Finish, Goto, ModelAnswers, ConvInv, TypeOK
  <1>4. OwnContext'
    BY <1>2, ContextKept DEF ConvInv
  <1>5. CountInv'
    <2>1. iteration[m] \in 1..MaxIterations /\ asked[m] \in Nat
      BY DEF ConvInv, TypeOK
    <2>2. asked'[m] <= MaxIterations + 1
      BY <1>2, <2>1, Limits DEF ConvInv, CountInv
    <2> QED
      BY <1>2, <2>2 DEF ConvInv, CountInv
  <1>6. RunInv'
    BY <1>2 DEF ConvInv, RunInv
  <1> QED
    BY <1>1, <1>3, <1>4, <1>5, <1>6 DEF ConvInv

LEMMA AnsweredInv ==
    ASSUME ConvInv, NEW m \in Messages,
           ThinkFails(m) \/ ThinkAnswers(m) \/ Recover(m) \/ SingleChat(m)
    PROVE  ConvInv'
  <1>1. last[m] \in Nat /\ \A text \in Texts(m) : text \in Nat /\ Latest(m, text) \in Nat
    BY DEF ConvInv, TypeOK, Texts, Latest
  <1>2. CASE ThinkFails(m)
    BY <1>1, <1>2, FinishInv DEF ThinkFails
  <1>3. CASE ThinkAnswers(m)
    <2>1. PICK text \in Texts(m) : ModelAnswers(m) /\ Finish(m, Latest(m, text))
      BY <1>3 DEF ThinkAnswers
    <2> QED
      BY <1>1, <1>3, <2>1, FinishInv DEF ThinkAnswers
  <1>4. CASE Recover(m)
    <2>1. PICK text \in Texts(m) : ModelAnswers(m) /\ Finish(m, Latest(m, text))
      BY <1>4 DEF Recover
    <2> QED
      BY <1>1, <1>4, <2>1, FinishInv DEF Recover
  <1>5. CASE SingleChat(m)
    <2>1. PICK text \in Texts(m) : ModelAnswers(m) /\ Finish(m, text)
      BY <1>5 DEF SingleChat
    <2> QED
      BY <1>1, <1>5, <2>1, FinishInv DEF SingleChat
  <1> QED
    BY <1>2, <1>3, <1>4, <1>5

LEMMA ThinkCallsInv ==
    ASSUME ConvInv, NEW m \in Messages, ThinkCalls(m)
    PROVE  ConvInv'
  <1>1. PICK text \in Texts(m), s \in Signatures :
          /\ ModelAnswers(m)
          /\ last' = [last EXCEPT ![m] = Latest(m, text)]
          /\ repeats' = [repeats EXCEPT ![m] = Repetition(m, s)]
          /\ previous' = [previous EXCEPT ![m] = s]
          /\ \/ /\ Repetition(m, s) + 1 >= IdenticalLimit
                /\ Goto(m, "recovering") /\ UNCHANGED ran
             \/ /\ Repetition(m, s) + 1 < IdenticalLimit /\ Goto(m, "dispatching")
                /\ ran' = [ran EXCEPT ![m] = Append(@, s)]
    BY DEF ThinkCalls
  <1>2. /\ pc[m] = "thinking" /\ UNCHANGED <<mode, tools, history, prompt, iteration>>
        /\ Latest(m, text) \in Nat
        /\ repeats[m] \in Nat /\ ran[m] \in Seq(Signatures)
        /\ asked[m] \in Nat /\ iteration[m] \in 1..MaxIterations
    BY DEF ThinkCalls, ConvInv, TypeOK, Texts, Latest
  <1>3. Repetition(m, s) = IF s = previous[m] THEN repeats[m] + 1 ELSE 0
    BY DEF Repetition
  <1>4. Repetition(m, s) \in Nat /\ Append(ran[m], s) \in Seq(Signatures)
    BY <1>2, <1>3, AppendProperties
  <1>5. pc'[m] \in {"dispatching", "recovering"} /\ asked'[m] = asked[m] + 1
        /\ \A n \in Messages \ {m} : /\ pc'[n] = pc[n] /\ asked'[n] = asked[n]
                                     /\ previous'[n] = previous[n]
                                     /\ repeats'[n] = repeats[n]
                                     /\ ran'[n] = ran[n]
    BY <1>1 DEF Goto, ModelAnswers, ConvInv, TypeOK
  <1>6. TypeOK'
    <2>1. pc' \in [Messages -> {"idle", "thinking", "dispatching", "recovering", "single",
                                "done", "cancelled"}]
          /\ ran' \in [Messages -> Seq(Signatures)]
      BY <1>1, <1>4 DEF Goto, ConvInv, TypeOK
    <2>2. /\ last' \in [Messages -> Nat] /\ repeats' \in [Messages -> Nat]
          /\ previous' \in [Messages -> Signatures \cup {NoCalls}]
          /\ asked' \in [Messages -> Nat]
      BY <1>1, <1>2, <1>4 DEF ModelAnswers, ConvInv, TypeOK
    <2> QED
      BY <1>2, <2>1, <2>2 DEF ConvInv, TypeOK
  <1>7. HistoryInv' /\ OwnContext'
    BY <1>2, <1>5, ContextKept DEF ConvInv, HistoryInv
  <1>8. CountInv'
    <2>1. asked'[m] = iteration[m] /\ asked'[m] <= MaxIterations + 1
      BY <1>2, <1>5, Limits DEF ConvInv, CountInv
    <2> QED
      BY <1>2, <1>5, <2>1 DEF ConvInv, CountInv
  <1>9. RunInv'
    <2>1. Counted(ran[m], previous[m], repeats[m]) /\ NoLongRun(ran[m])
      BY <1>2 DEF ConvInv, RunInv
    <2>2. CASE Goto(m, "recovering") /\ UNCHANGED ran
      <3>1. pc'[m] = "recovering"
        BY <2>2 DEF Goto, ConvInv, TypeOK
      <3> QED
        BY <1>5, <2>1, <2>2, <3>1 DEF ConvInv, RunInv
    <2>3. CASE /\ Repetition(m, s) + 1 < IdenticalLimit /\ Goto(m, "dispatching")
               /\ ran' = [ran EXCEPT ![m] = Append(@, s)]
      <3>1. pc'[m] = "dispatching" /\ ran'[m] = Append(ran[m], s)
            /\ previous'[m] = s /\ repeats'[m] = Repetition(m, s)
        BY <1>1, <2>3 DEF Goto, ConvInv, TypeOK
      <3>2. Counted(Append(ran[m], s), s, Repetition(m, s))
        BY <1>2, <1>3, <2>1, CountedAppend
      <3>3. NoLongRun(Append(ran[m], s))
        BY <1>2, <1>4, <2>1, <2>3, <3>2, NoLongRunAppend
      <3> QED
        BY <1>5, <3>1, <3>2, <3>3 DEF ConvInv, RunInv
    <2> QED
      BY <1>1, <2>2, <2>3
  <1> QED
    BY <1>6, <1>7, <1>8, <1>9 DEF ConvInv

LEMMA ToolsAnswerInv ==
    ASSUME ConvInv, NEW m \in Messages, ToolsAnswer(m)
    PROVE  ConvInv'
  <1>1. /\ pc[m] = "dispatching" /\ iteration[m] \in 1..MaxIterations
        /\ asked[m] = iteration[m]
        /\ UNCHANGED <<mode, tools, history, prompt, previous, repeats, last, asked, ran>>
    BY DEF ToolsAnswer, ConvInv, TypeOK, CountInv
  <1>2. \/ /\ pc' = [pc EXCEPT ![m] = "thinking"] /\ iteration[m] < MaxIterations
           /\ iteration' = [iteration EXCEPT ![m] = @ + 1]
        \/ pc' = [pc EXCEPT ![m] = "recovering"] /\ iteration' = iteration
    BY DEF ToolsAnswer, Goto
  <1>3. \A n \in Messages \ {m} : pc'[n] = pc[n] /\ iteration'[n] = iteration[n]
    BY <1>2 DEF ConvInv, TypeOK
  <1>4. \/ pc'[m] = "thinking" /\ iteration'[m] = iteration[m] + 1
        \/ pc'[m] = "recovering" /\ iteration'[m] = iteration[m]
    BY <1>2 DEF ConvInv, TypeOK
  <1>5. TypeOK'
    <2>1. iteration' \in [Messages -> 1..MaxIterations]
      <3>1. iteration[m] < MaxIterations => iteration[m] + 1 \in 1..MaxIterations
        BY <1>1, Limits
      <3> QED
        BY <1>2, <3>1 DEF ConvInv, TypeOK
    <2>2. pc' \in [Messages -> {"idle", "thinking", "dispatching", "recovering", "single",
                                "done", "cancelled"}]
      BY <1>2 DEF ConvInv, TypeOK
    <2> QED
      BY <1>1, <2>1, <2>2 DEF ConvInv, TypeOK
  <1>6. HistoryInv' /\ OwnContext'
    BY <1>1, <1>3, ContextKept DEF ConvInv, HistoryInv
  <1>7. CountInv'
    BY <1>1, <1>3, <1>4 DEF ConvInv, CountInv
  <1>8. RunInv'
    BY <1>1, <1>3, <1>4 DEF ConvInv, RunInv
  <1> QED
    BY <1>5, <1>6, <1>7, <1>8 DEF ConvInv

LEMMA CancelInv ==
    ASSUME ConvInv, NEW m \in Messages, Cancel(m)
    PROVE  ConvInv'
  <1>1. /\ pc'[m] = "cancelled" /\ pc[m] # "idle"
        /\ \A n \in Messages \ {m} : pc'[n] = pc[n]
    BY DEF Cancel, Goto, ConvInv, TypeOK
  <1>2. TypeOK'
    BY DEF Cancel, Goto, loopvars, ConvInv, TypeOK
  <1>3. HistoryInv' /\ OwnContext'
    BY <1>1, ContextKept DEF Cancel, ConvInv, HistoryInv
  <1>4. CountInv'
    BY <1>1 DEF Cancel, loopvars, ConvInv, CountInv
  <1>5. RunInv'
    BY <1>1 DEF Cancel, loopvars, ConvInv, RunInv
  <1> QED
    BY <1>2, <1>3, <1>4, <1>5 DEF ConvInv

LEMMA StepInv == ConvInv /\ [Next]_vars => ConvInv'
  <1> SUFFICES ASSUME ConvInv, [Next]_vars PROVE ConvInv'
    OBVIOUS
  <1>1. CASE UNCHANGED vars
    BY <1>1 DEF vars, loopvars, ConvInv, TypeOK, HistoryInv, OwnContext, CountInv, RunInv
  <1>2. CASE Next
    BY <1>2, RespondTextInv, AnsweredInv, ThinkCallsInv, ToolsAnswerInv, CancelInv
    DEF Next, ReplySteps
  <1> QED
    BY <1>1, <1>2

LEMMA InvHolds == Spec => []ConvInv
  BY InitInv, StepInv, PTL DEF Spec

-----------------------------------------------------------------------------
\* Every variable has its type, and no history grows over its limit
\* (deque(maxlen=history_size)).
THEOREM TypeCorrect == Spec => []TypeOK
  <1>1. ConvInv => TypeOK
    BY DEF ConvInv
  <1> QED
    BY <1>1, InvHolds, PTL

\* A reply is generated from a prompt that ends with its own question and, per
\* peer, holds nothing of another, however many replies are in flight
\* (PeerConversationHandler.respond_text).
THEOREM OwnContextKept == Spec => []OwnContext
  <1>1. ConvInv => OwnContext
    BY DEF ConvInv
  <1> QED
    BY <1>1, InvHolds, PTL

\* The model is asked at most once more than the cap allows, and the same tool
\* calls never run as often in a row as the guard says (_generate_with_tools).
THEOREM LoopIsBounded == Spec => []LoopBounded
  <1>1. ConvInv => LoopBounded
    BY DEF ConvInv, CountInv, RunInv, NoLongRun, LoopBounded
  <1> QED
    BY <1>1, InvHolds, PTL

-----------------------------------------------------------------------------
(***************************************************************************)
(* The order of the histories                                              *)
(***************************************************************************)

\* Each turn once, and no question after its answer.
InTurn(turns) ==
    \A i, j \in DOMAIN turns : turns[i].about = turns[j].about =>
        /\ turns[i].by = turns[j].by => i = j
        /\ turns[i].by # Axioma /\ turns[j].by = Axioma => i < j

\* A turn of the model is that of a complete reply that was not empty; any other is
\* that of a message's own author, whose reply has begun.
Spoken(turn) ==
    IF turn.by = Axioma THEN pc[turn.about] = "done" /\ last[turn.about] # 0
    ELSE turn.by = Speaker[turn.about] /\ pc[turn.about] # "idle"

SpokenInv == \A b \in Buckets : \A i \in DOMAIN history[b] : Spoken(history[b][i])

OrderInv == \A b \in Buckets : InTurn(history[b])

\* One more turn, and the oldest one dropped, leave the order as it was, unless the
\* turn was there or comes after its answer.
LEMMA PushedInTurn ==
    ASSUME NEW turns \in Seq(Turns), NEW t \in Turns, InTurn(turns),
           \A i \in DOMAIN turns : turns[i].about = t.about =>
               turns[i].by # t.by /\ turns[i].by # Axioma
    PROVE  InTurn(Pushed(turns, t))
  <1> DEFINE longer == Append(turns, t)
  <1>1. /\ longer \in Seq(Turns) /\ Len(longer) = Len(turns) + 1 /\ Len(turns) \in Nat
        /\ longer[Len(turns) + 1] = t
        /\ \A i \in 1..Len(turns) : longer[i] = turns[i]
        /\ DOMAIN turns = 1..Len(turns) /\ DOMAIN longer = 1..Len(longer)
    BY AppendProperties, LenProperties
  <1> HIDE DEF longer
  <1>2. \A i \in DOMAIN longer : \/ i \in DOMAIN turns /\ longer[i] = turns[i] /\ i < Len(longer)
                                 \/ i = Len(longer) /\ longer[i] = t
    BY <1>1
  <1>3. InTurn(longer)
    <2> SUFFICES ASSUME NEW i \in DOMAIN longer, NEW j \in DOMAIN longer,
                        longer[i].about = longer[j].about
                 PROVE  /\ longer[i].by = longer[j].by => i = j
                        /\ longer[i].by # Axioma /\ longer[j].by = Axioma => i < j
      BY DEF InTurn
    <2>1. CASE i \in DOMAIN turns /\ longer[i] = turns[i] /\ j \in DOMAIN turns /\ longer[j] = turns[j]
      BY <2>1 DEF InTurn
    <2>2. CASE i = Len(longer) /\ longer[i] = t /\ j = Len(longer)
      BY <2>2
    <2>3. CASE /\ i \in DOMAIN turns /\ longer[i] = turns[i] /\ i < Len(longer)
               /\ j = Len(longer) /\ longer[j] = t
      BY <2>3
    <2>4. CASE /\ i = Len(longer) /\ longer[i] = t
               /\ j \in DOMAIN turns /\ longer[j] = turns[j]
      BY <2>4
    <2> QED
      BY <1>2, <2>1, <2>2, <2>3, <2>4
  <1>4. CASE Len(longer) > HistorySize
    <2>1. longer # <<>> /\ Len(longer) - 1 = Len(turns)
      BY <1>1, EmptySeq
    <2>2. /\ Tail(longer) \in Seq(Turns) /\ Len(Tail(longer)) = Len(longer) - 1
          /\ \A i \in 1..Len(Tail(longer)) : Tail(longer)[i] = longer[i + 1]
      BY <1>1, <2>1, HeadTailProperties
    <2>3. PICK p : p = Tail(longer)
      OBVIOUS
    <2>4. /\ DOMAIN p = 1..Len(turns)
          /\ \A i \in DOMAIN p : p[i] = longer[i + 1] /\ i + 1 \in DOMAIN longer
      BY <1>1, <2>1, <2>2, <2>3, LenProperties
    <2>5. InTurn(p)
      <3> SUFFICES ASSUME NEW i \in DOMAIN p, NEW j \in DOMAIN p, p[i].about = p[j].about
                   PROVE  /\ p[i].by = p[j].by => i = j
                          /\ p[i].by # Axioma /\ p[j].by = Axioma => i < j
        BY DEF InTurn
      <3>1. i \in Nat /\ j \in Nat
        BY <1>1, <2>4
      <3>2. /\ p[i].by = p[j].by => i + 1 = j + 1
            /\ p[i].by # Axioma /\ p[j].by = Axioma => i + 1 < j + 1
        BY <1>3, <2>4 DEF InTurn
      <3> QED
        BY <3>1, <3>2
    <2> QED
      BY <1>4, <2>3, <2>5 DEF Pushed, longer
  <1>5. CASE ~(Len(longer) > HistorySize)
    BY <1>3, <1>5 DEF Pushed, longer
  <1> QED
    BY <1>4, <1>5

\* A turn is remembered that was not spoken before.
LEMMA RememberedInTurn ==
    ASSUME TypeOK, OrderInv, SpokenInv, NEW m \in Messages, NEW who \in {Speaker[m], Axioma},
           Remember(m, who),
           IF who = Axioma THEN pc[m] # "done" /\ pc'[m] = "done" /\ last'[m] # 0
           ELSE pc[m] = "idle" /\ pc'[m] # "idle",
           \A n \in Messages \ {m} : pc'[n] = pc[n] /\ last'[n] = last[n]
    PROVE  OrderInv' /\ SpokenInv'
  <1> DEFINE t == [by |-> who, about |-> m]
             B == Bucket(m)
  <1>1. /\ B \in Buckets /\ t \in Turns /\ t.by = who /\ t.about = m
        /\ history[B] \in Seq(Turns) /\ Len(history[B]) <= HistorySize
        /\ Speaker[m] \in Peers /\ Speaker[m] # Axioma
    BY BucketType, ConversationAssumption
  <1>2. /\ history'[B] = Pushed(history[B], t)
        /\ \A b \in Buckets \ {B} : history'[b] = history[b]
    BY <1>1 DEF Remember, TypeOK
  <1>3. \A b \in Buckets : \A i \in DOMAIN history[b] :
           history[b][i] \in Turns /\ Spoken(history[b][i])
    BY ElementOfSeq, LenProperties DEF TypeOK, SpokenInv
  <1>4. ASSUME NEW x \in Turns, Spoken(x)
        PROVE  (x.about = m => x.by # who /\ x.by # Axioma) /\ Spoken(x)'
    <2>1. x.about \in Messages
      BY DEF Turns
    <2> QED
      BY <1>1, <1>4, <2>1 DEF Spoken
  <1>5. Spoken(t)'
    BY <1>1 DEF Spoken
  <1> HIDE DEF t, B
  <1>6. InTurn(history'[B])
    <2>1. \A i \in DOMAIN history[B] : history[B][i].about = t.about =>
             history[B][i].by # t.by /\ history[B][i].by # Axioma
      BY <1>1, <1>3, <1>4
    <2>2. InTurn(history[B])
      BY <1>1 DEF OrderInv
    <2> QED
      BY <1>1, <1>2, <2>1, <2>2, PushedInTurn
  <1>7. \A b \in Buckets : InTurn(history'[b])
    BY <1>2, <1>6 DEF OrderInv
  <1>8. ASSUME NEW b \in Buckets, NEW i \in DOMAIN history'[b], NEW x, x = history'[b][i]
        PROVE  Spoken(x)'
    <2>1. x = t \/ \E c \in Buckets : \E j \in DOMAIN history[c] : x = history[c][j]
      <3>1. CASE b = B
        BY <1>1, <1>2, <1>8, <3>1, PushedProperties
      <3>2. CASE b # B
        BY <1>2, <1>8, <3>2
      <3> QED
        BY <3>1, <3>2
    <2>2. CASE x = t
      BY <1>5, <2>2 DEF t
    <2>3. CASE x # t
      BY <1>3, <1>4, <2>1, <2>3
    <2> QED
      BY <2>2, <2>3
  <1>9. SpokenInv'
    <2>1. \A b \in Buckets : \A i \in DOMAIN history'[b] :
             \A x : x = history'[b][i] => Spoken(x)'
      BY <1>8
    <2> QED
      BY <2>1 DEF SpokenInv, Spoken
  <1> QED
    BY <1>7, <1>9 DEF OrderInv

\* Nothing is remembered: a reply that is complete stays so.
LEMMA NothingRemembered ==
    ASSUME TypeOK, OrderInv, SpokenInv, UNCHANGED history,
           \A n \in Messages : /\ pc[n] # "idle" => pc'[n] # "idle"
                               /\ pc[n] = "done" => pc'[n] = "done" /\ last'[n] = last[n]
    PROVE  OrderInv' /\ SpokenInv'
  <1>1. \A b \in Buckets : \A i \in DOMAIN history[b] :
           history[b][i] \in Turns /\ Spoken(history[b][i])
    BY ElementOfSeq, LenProperties DEF TypeOK, SpokenInv
  <1>2. ASSUME NEW x \in Turns, Spoken(x) PROVE Spoken(x)'
    <2>1. x.about \in Messages
      BY DEF Turns
    <2> QED
      BY <1>2, <2>1 DEF Spoken
  <1>3. \A b \in Buckets : \A i \in DOMAIN history'[b] :
           \A x : x = history'[b][i] => Spoken(x)'
    BY <1>1, <1>2
  <1>4. SpokenInv'
    BY <1>3 DEF SpokenInv, Spoken
  <1> QED
    BY <1>4 DEF OrderInv

LEMMA FinishInTurn ==
    ASSUME TypeOK, OrderInv, SpokenInv, NEW m \in Messages,
           pc[m] \in {"thinking", "recovering", "single"}, NEW text, Finish(m, text)
    PROVE  OrderInv' /\ SpokenInv'
  <1>1. /\ pc'[m] = "done" /\ last'[m] = text
        /\ \A n \in Messages \ {m} : pc'[n] = pc[n] /\ last'[n] = last[n]
    BY DEF Finish, Goto, TypeOK
  <1>2. CASE text = 0
    BY <1>1, <1>2, NothingRemembered DEF Finish
  <1>3. CASE text # 0
    <2>1. Remember(m, Axioma)
      BY <1>3 DEF Finish
    <2> QED
      BY <1>1, <1>3, <2>1, RememberedInTurn
  <1> QED
    BY <1>2, <1>3

LEMMA StepInTurn ==
    TypeOK /\ OrderInv /\ SpokenInv /\ [Next]_vars => OrderInv' /\ SpokenInv'
  <1> SUFFICES ASSUME TypeOK, OrderInv, SpokenInv, [Next]_vars
               PROVE  OrderInv' /\ SpokenInv'
    OBVIOUS
  <1>1. CASE UNCHANGED vars
    BY <1>1, NothingRemembered DEF vars, loopvars
  <1>2. ASSUME NEW m \in Messages, RespondText(m)
        PROVE  OrderInv' /\ SpokenInv'
    <2>1. /\ pc[m] = "idle" /\ pc'[m] \notin {"idle", "done"} /\ Remember(m, Speaker[m])
          /\ \A n \in Messages \ {m} : pc'[n] = pc[n] /\ last'[n] = last[n]
      BY <1>2 DEF RespondText, Goto, loopvars, TypeOK
    <2>2. Speaker[m] # Axioma
      BY ConversationAssumption
    <2> QED
      BY <2>1, <2>2, RememberedInTurn
  <1>3. ASSUME NEW m \in Messages, ThinkFails(m) \/ ThinkAnswers(m) \/ Recover(m) \/ SingleChat(m)
        PROVE  OrderInv' /\ SpokenInv'
    <2>1. /\ pc[m] \in {"thinking", "recovering", "single"}
          /\ \E text : Finish(m, text)
      BY <1>3 DEF ThinkFails, ThinkAnswers, Recover, SingleChat
    <2> QED
      BY <2>1, FinishInTurn
  <1>4. ASSUME NEW m \in Messages, ThinkCalls(m) \/ ToolsAnswer(m) \/ Cancel(m)
        PROVE  OrderInv' /\ SpokenInv'
    <2>1. /\ UNCHANGED history /\ pc[m] \notin {"idle", "done"} /\ pc'[m] # "idle"
          /\ \A n \in Messages \ {m} : pc'[n] = pc[n] /\ last'[n] = last[n]
      BY <1>4 DEF ThinkCalls, ToolsAnswer, Cancel, Goto, loopvars, TypeOK
    <2> QED
      BY <2>1, NothingRemembered
  <1> QED
    BY <1>1, <1>2, <1>3, <1>4 DEF Next, ReplySteps

\* What the model reads as the conversation is one: each turn is there at most
\* once, an answer stands after its question, and only complete replies that said
\* something are there, however many are generated at once over the bounded history
\* they share (PeerConversationHandler.respond_text and its deque).
HistoryIsAConversation == OrderInv /\ SpokenInv

\* So it is for every interleaving of replies (PeerConversationHandler.respond_text).
THEOREM ConversationKept == Spec => []HistoryIsAConversation
  <1>1. Init => HistoryIsAConversation
    BY DEF Init, HistoryIsAConversation, OrderInv, SpokenInv, InTurn
  <1>2. ConvInv /\ HistoryIsAConversation /\ [Next]_vars => HistoryIsAConversation'
    BY StepInTurn DEF ConvInv, HistoryIsAConversation
  <1> QED
    BY <1>1, <1>2, InvHolds, PTL DEF Spec
=============================================================================
