---------------------------- MODULE Conversation ----------------------------
(***************************************************************************)
(* PeerConversationHandler.respond_text, the responder behind the bridge:   *)
(* several replies are generated at once over a bounded history that they   *)
(* share, or share per peer; each reply is a loop of requests to the        *)
(* language model and of tool calls, with a cap and a guard against a model *)
(* that repeats itself.                                                    *)
(*                                                                         *)
(* A reply awaits the model and the tools; everything else it does is one   *)
(* step.  A text is the number of the request that brought it, 0 for none;  *)
(* a set of tool calls is its signature.                                   *)
(***************************************************************************)
EXTENDS Naturals, Sequences, FiniteSets, SequencesExt

CONSTANTS
    Messages,
    Peers,
    Speaker,        \* who wrote each message
    Signatures,     \* sets of tool calls the model may ask for
    HistorySize,    \* history_size
    MaxIterations,  \* max_tool_iterations
    IdenticalLimit  \* _IDENTICAL_CALL_LIMIT

Axioma == "axioma"
All == "all"
NoCalls == "no calls"

ASSUME ConversationAssumption ==
    /\ Speaker \in [Messages -> Peers]
    /\ {HistorySize, MaxIterations, IdenticalLimit} \subseteq Nat \ {0}
    /\ {Axioma, All} \cap Peers = {} /\ NoCalls \notin Signatures

VARIABLES
    mode,       \* multi_peer_mode
    tools,      \* an executor with tools is registered
    history,    \* history, and histories of each peer
    pc,         \* where each reply is
    prompt,     \* the turns its request carries
    iteration,
    previous,   \* prev_sig
    repeats,
    last        \* last_text, at the end the reply

\* What happened, for the properties.
VARIABLES
    asked,      \* requests made of the model for each reply
    ran         \* the tool calls dispatched for it

loopvars == <<iteration, previous, repeats, last>>
vars == <<mode, tools, history, pc, prompt, loopvars, asked, ran>>

Turns == [by: Peers \cup {Axioma}, about: Messages]
Buckets == Peers \cup {All}
Bucket(m) == IF mode = "per_peer" THEN Speaker[m] ELSE All

Init ==
    /\ mode \in {"shared", "per_peer"} /\ tools \in BOOLEAN
    /\ history = [b \in Buckets |-> <<>>]
    /\ pc = [m \in Messages |-> "idle"]
    /\ prompt = [m \in Messages |-> <<>>]
    /\ iteration = [m \in Messages |-> 1]
    /\ previous = [m \in Messages |-> NoCalls]
    /\ repeats = [m \in Messages |-> 0]
    /\ last = [m \in Messages |-> 0]
    /\ asked = [m \in Messages |-> 0]
    /\ ran = [m \in Messages |-> <<>>]

Pushed_OneMore(turns, t) ==
    LET longer == Append(turns, t) IN
    IF Len(turns) > HistorySize THEN Tail(longer) ELSE longer

\* deque(maxlen=history_size).append
Pushed(turns, t) ==
    LET longer == Append(turns, t) IN
    IF Len(longer) > HistorySize THEN Tail(longer) ELSE longer

Remember(m, who) ==
    history' = [history EXCEPT ![Bucket(m)] = Pushed(@, [by |-> who, about |-> m])]

Goto(m, p) == pc' = [pc EXCEPT ![m] = p]

RespondText_PromptLater(m) ==
    /\ pc[m] = "idle" /\ Goto(m, IF tools THEN "thinking" ELSE "single")
    /\ Remember(m, Speaker[m])
    /\ prompt' = [prompt EXCEPT ![m] = history[Bucket(m)]]
    /\ UNCHANGED <<mode, tools, loopvars, asked, ran>>

\* The question is appended and the prompt taken before anything is awaited.
RespondText(m) ==
    /\ pc[m] = "idle" /\ Goto(m, IF tools THEN "thinking" ELSE "single")
    /\ Remember(m, Speaker[m])
    /\ prompt' = [prompt EXCEPT ![m] = history'[Bucket(m)]]
    /\ UNCHANGED <<mode, tools, loopvars, asked, ran>>

\* The reply is complete; an empty one is not remembered.
Finish(m, text) ==
    /\ last' = [last EXCEPT ![m] = text]
    /\ Goto(m, "done")
    /\ IF text = 0 THEN UNCHANGED history ELSE Remember(m, Axioma)

\* The model answers with a text or none.
Texts(m) == {0, asked[m] + 1}
Latest(m, text) == IF text = 0 THEN last[m] ELSE text
ModelAnswers(m) == asked' = [asked EXCEPT ![m] = @ + 1]

(***************************************************************************)
(* _generate_with_tools.                                                   *)
(***************************************************************************)
\* An error of the model or a timeout: whatever it said last, or nothing.
ThinkFails(m) ==
    /\ pc[m] = "thinking"
    /\ ModelAnswers(m) /\ Finish(m, last[m])
    /\ UNCHANGED <<mode, tools, prompt, iteration, previous, repeats, ran>>

ThinkAnswers(m) ==
    /\ pc[m] = "thinking"
    /\ \E text \in Texts(m) : ModelAnswers(m) /\ Finish(m, Latest(m, text))
    /\ UNCHANGED <<mode, tools, prompt, iteration, previous, repeats, ran>>

Repetition(m, s) == IF s = previous[m] THEN repeats[m] + 1 ELSE 0

ThinkCalls_LimitLate(m) ==
    /\ pc[m] = "thinking"
    /\ \E text \in Texts(m), s \in Signatures :
        /\ ModelAnswers(m)
        /\ last' = [last EXCEPT ![m] = Latest(m, text)]
        /\ repeats' = [repeats EXCEPT ![m] = Repetition(m, s)]
        /\ previous' = [previous EXCEPT ![m] = s]
        /\ \/ Repetition(m, s) + 1 > IdenticalLimit /\ Goto(m, "recovering") /\ UNCHANGED ran
           \/ /\ Repetition(m, s) + 1 <= IdenticalLimit /\ Goto(m, "dispatching")
              /\ ran' = [ran EXCEPT ![m] = Append(@, s)]
    /\ UNCHANGED <<mode, tools, history, prompt, iteration>>

\* The model asks for tools: dispatch them, unless it repeats itself.
ThinkCalls(m) ==
    /\ pc[m] = "thinking"
    /\ \E text \in Texts(m), s \in Signatures :
        /\ ModelAnswers(m)
        /\ last' = [last EXCEPT ![m] = Latest(m, text)]
        /\ repeats' = [repeats EXCEPT ![m] = Repetition(m, s)]
        /\ previous' = [previous EXCEPT ![m] = s]
        /\ \/ Repetition(m, s) + 1 >= IdenticalLimit /\ Goto(m, "recovering") /\ UNCHANGED ran
           \/ /\ Repetition(m, s) + 1 < IdenticalLimit /\ Goto(m, "dispatching")
              /\ ran' = [ran EXCEPT ![m] = Append(@, s)]
    /\ UNCHANGED <<mode, tools, history, prompt, iteration>>

ToolsAnswer_NoEnd(m) ==
    /\ pc[m] = "dispatching" /\ iteration[m] < MaxIterations
    /\ Goto(m, "thinking") /\ iteration' = [iteration EXCEPT ![m] = @ + 1]
    /\ UNCHANGED <<mode, tools, history, prompt, previous, repeats, last, asked, ran>>

\* Every tool answers, be it with an error or after its timeout.
ToolsAnswer(m) ==
    /\ pc[m] = "dispatching"
    /\ IF iteration[m] < MaxIterations
       THEN Goto(m, "thinking") /\ iteration' = [iteration EXCEPT ![m] = @ + 1]
       ELSE Goto(m, "recovering") /\ UNCHANGED iteration
    /\ UNCHANGED <<mode, tools, history, prompt, previous, repeats, last, asked, ran>>

\* _recover_stuck_loop: one last request, without tools.
Recover(m) ==
    /\ pc[m] = "recovering"
    /\ \E text \in Texts(m) : ModelAnswers(m) /\ Finish(m, Latest(m, text))
    /\ UNCHANGED <<mode, tools, prompt, iteration, previous, repeats, ran>>

\* _single_chat, when there are no tools.
SingleChat(m) ==
    /\ pc[m] = "single"
    /\ \E text \in Texts(m) : ModelAnswers(m) /\ Finish(m, text)
    /\ UNCHANGED <<mode, tools, prompt, iteration, previous, repeats, ran>>

\* The bridge stops and cancels the reply where it awaits.
Cancel(m) ==
    /\ pc[m] \notin {"idle", "done", "cancelled"} /\ Goto(m, "cancelled")
    /\ UNCHANGED <<mode, tools, history, prompt, loopvars, asked, ran>>

-----------------------------------------------------------------------------
ReplySteps(m) ==
    ThinkFails(m) \/ ThinkAnswers(m) \/ ThinkCalls(m) \/ ToolsAnswer(m)
        \/ Recover(m) \/ SingleChat(m)

Next == \E m \in Messages : RespondText(m) \/ ReplySteps(m) \/ Cancel(m)

Spec == Init /\ [][Next]_vars

\* The model and the tools answer or time out: each is awaited with a timeout.
FairSpec == Spec /\ \A m \in Messages : WF_vars(ReplySteps(m))

-----------------------------------------------------------------------------
\* Every variable has its type; no history is longer than it may be.
TypeOK ==
    /\ mode \in {"shared", "per_peer"} /\ tools \in BOOLEAN
    /\ history \in [Buckets -> Seq(Turns)] /\ prompt \in [Messages -> Seq(Turns)]
    /\ \A b \in Buckets : Len(history[b]) <= HistorySize
    /\ pc \in [Messages -> {"idle", "thinking", "dispatching", "recovering", "single",
                            "done", "cancelled"}]
    /\ iteration \in [Messages -> 1..MaxIterations]
    /\ previous \in [Messages -> Signatures \cup {NoCalls}]
    /\ repeats \in [Messages -> Nat] /\ last \in [Messages -> Nat]
    /\ asked \in [Messages -> Nat]
    /\ ran \in [Messages -> Seq(Signatures)]

\* A reply is generated from a prompt that ends with its own question, however
\* many others are in flight; per peer, it holds nothing said by or to another.
OwnContext == \A m \in Messages : pc[m] # "idle" =>
    /\ prompt[m] # <<>> /\ Last(prompt[m]) = [by |-> Speaker[m], about |-> m]
    /\ mode = "per_peer" =>
        \A i \in DOMAIN prompt[m] : Speaker[prompt[m][i].about] = Speaker[m]

\* A reply costs the model at most one request more than the cap, whatever it
\* answers, the loop and the recovery turn together; and the same set of tool calls
\* is never dispatched IdenticalLimit times in a row.
LoopBounded == \A m \in Messages :
    /\ asked[m] <= MaxIterations + 1
    /\ \A i \in 1..(Len(ran[m]) - IdenticalLimit + 1) :
        \E j \in i..(i + IdenticalLimit - 1) : ran[m][j] # ran[m][i]

\* Every reply ends, unless it is cancelled: a model that calls tools for ever is
\* cut off.
RepliesEnd == \A m \in Messages :
    pc[m] \in {"thinking", "single"} ~> pc[m] \in {"done", "cancelled"}
=============================================================================
