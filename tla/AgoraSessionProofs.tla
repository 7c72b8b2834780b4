------------------------- MODULE AgoraSessionProofs -------------------------
(***************************************************************************)
(* TLAPS proofs about AgoraSession, for any requests and any bounds: types  *)
(* with the ownership of the lock, that a token is renewed once, that the   *)
(* hub carries no request out twice, that the credentials follow it, that   *)
(* only a lost request ends a loop, and that the lock never gets stuck.     *)
(***************************************************************************)
EXTENDS AgoraSession, TLAPS

\* TypeOK without its flags and its last conjunct.
Types ==
    /\ token \in 0..MaxToken /\ password \in {"old", "new"}
    /\ lock \in Tasks \cup {NoTask}
    /\ pc \in [Tasks -> PC] /\ used \in [Tasks -> 0..MaxToken]
    /\ issued \in 0..MaxToken /\ status \in [Tokens -> {"live", "expired", "revoked"}]
    /\ secret \in {"old", "new"} /\ first \in {"no", "change", "stuck"}
    /\ net \in [Tasks -> Message] /\ lost \in 0..MaxLost
    /\ done \in [Posters -> Nat] /\ renewals \in [0..MaxToken -> Nat]
Flags == running \in BOOLEAN /\ near \in BOOLEAN

\* The lock is held by the one task that is between taking and releasing it; the
\* two loops do not run before start has launched them.
LockInv ==
    /\ \A a \in Tasks : pc[a] \in Locked <=> lock = a
    /\ pc[Start] \notin {"ready", "started", "failed"} => pc[Ws] = "off"
    /\ pc[Start] \notin {"started", "failed"} => pc[Proactive] = "off"

\* A request that still tries has not been carried out.
Trying == {"idle", "boot", "first", "lock", "refresh", "relogin", "second"}
DoneInv == \A a \in Posters : done[a] <= 1 /\ (pc[a] \in Trying => done[a] = 0)

\* A token that is on its way to a task has never been in use, and a token that
\* was renewed is not in use any more; nor is a renewed one what the holder of
\* the lock wants to renew.
TokenInv ==
    /\ token <= issued
    /\ \A a \in Tasks : used[a] <= issued /\ net[a].new <= issued
    /\ \A a \in Tasks : Heard(a) /\ Answer(a) = "ok" => net[a].new # 0
    /\ \A a, b \in Tasks : a # b /\ net[a].new # 0 => net[a].new # net[b].new
    /\ \A a \in Tasks : net[a].new # 0 =>
         net[a].new # token /\ \A b \in Tasks : used[b] # net[a].new
    /\ \A a \in Tasks : net[a].new # 0 => renewals[net[a].new] = 0
    /\ \A t \in Tokens : /\ renewals[t] <= 1
                         /\ renewals[t] = 1 => token # t /\ t <= issued
    /\ \A a \in Tasks : lock = a /\ used[a] # 0 => renewals[used[a]] = 0

SecondInv == \A a \in Callers :
    pc[a] = "second" /\ net[a].st # "none" => net[a].tok # used[a]

SessionInv == Types /\ Flags /\ LockInv /\ DoneInv /\ TokenInv /\ SecondInv

-----------------------------------------------------------------------------
(***************************************************************************)
(* Tasks, messages and outcomes                                            *)
(***************************************************************************)

LEMMA Constants ==
    /\ MaxToken \in Nat \ {0} /\ MaxLost \in Nat
    /\ {Start, Ws, Proactive} \subseteq Tasks /\ NoTask \notin Tasks
    /\ Start # Ws /\ Start # Proactive /\ Ws # Proactive
    /\ Callers \subseteq Tasks /\ Posters \subseteq Callers /\ Requests \subseteq Posters
    /\ Start \in Posters /\ Start \in Callers /\ Ws \in Callers
    /\ Proactive \notin Callers /\ Ws \notin Posters
    /\ \A r \in Requests : r \notin {Start, Ws, Proactive}
    /\ \A a \in Callers : a \in Requests \/ a = Start \/ a = Ws
  BY SessionAssumption DEF Tasks, Callers, Posters

LEMMA Messages ==
    /\ Silence \in Message /\ Silence.st = "none" /\ Silence.new = 0
    /\ \A k \in Kinds, t \in 0..MaxToken :
         /\ Request(k, t) \in Message
         /\ Request(k, t).st = "asked" /\ Request(k, t).kind = k
         /\ Request(k, t).tok = t /\ Request(k, t).new = 0
  <1>1. 0 \in 0..MaxToken
    BY Constants
  <1>2. Silence \in Message /\ Silence.st = "none" /\ Silence.new = 0
    BY <1>1 DEF Silence, Message, Kinds, Codes
  <1>3. ASSUME NEW k \in Kinds, NEW t \in 0..MaxToken
        PROVE  /\ Request(k, t) \in Message
               /\ Request(k, t).st = "asked" /\ Request(k, t).kind = k
               /\ Request(k, t).tok = t /\ Request(k, t).new = 0
    BY <1>2 DEF Request, Message
  <1> QED
    BY <1>2, <1>3

\* A step of task a is a's alone.
Only(a) == \A b \in Tasks \ {a} : pc'[b] = pc[b] /\ net'[b] = net[b] /\ used'[b] = used[b]

LEMMA AskIs ==
    ASSUME Types, NEW a \in Tasks, NEW k \in Kinds, NEW t \in 0..MaxToken, Ask(a, k, t)
    PROVE  /\ net' \in [Tasks -> Message]
           /\ net'[a] = Request(k, t) /\ net'[a].new = 0 /\ net'[a].st = "asked"
           /\ net'[a].tok = t
           /\ \A b \in Tasks \ {a} : net'[b] = net[b]
  BY Messages DEF Ask, Types

LEMMA HangIs ==
    ASSUME Types, NEW a \in Tasks, Hang(a)
    PROVE  /\ net' \in [Tasks -> Message]
           /\ net'[a] = Silence /\ net'[a].new = 0 /\ net'[a].st = "none"
           /\ \A b \in Tasks \ {a} : net'[b] = net[b]
  BY Messages DEF Hang, Types

LEMMA ReplyIs ==
    ASSUME Types, NEW a \in Tasks, NEW c \in Codes, NEW t \in 0..MaxToken, Reply(a, c, t)
    PROVE  /\ net' \in [Tasks -> Message]
           /\ net'[a].st = "answered" /\ net'[a].code = c /\ net'[a].new = t
           /\ net'[a].tok = net[a].tok
           /\ \A b \in Tasks \ {a} : net'[b] = net[b]
  <1>1. net[a] \in Message
    BY DEF Types
  <1>2. net' = [net EXCEPT ![a] = [net[a] EXCEPT !.st = "answered", !.code = c, !.new = t]]
    BY DEF Reply, Types
  <1>3. [net[a] EXCEPT !.st = "answered", !.code = c, !.new = t] \in Message
    BY <1>1 DEF Message
  <1>4. net' \in [Tasks -> Message] /\ \A b \in Tasks \ {a} : net'[b] = net[b]
    BY <1>2, <1>3 DEF Types
  <1>5. /\ net'[a].st = "answered" /\ net'[a].code = c /\ net'[a].new = t
        /\ net'[a].tok = net[a].tok
    BY <1>1, <1>2 DEF Types, Message
  <1> QED
    BY <1>4, <1>5

LEMMA GotoIs ==
    ASSUME Types, NEW a \in Tasks, NEW p \in PC, Goto(a, p)
    PROVE  /\ pc' \in [Tasks -> PC] /\ pc'[a] = p
           /\ \A b \in Tasks \ {a} : pc'[b] = pc[b]
  BY DEF Goto, Types

\* How a recovering request leaves: with nothing kept, at a place of its own.
Left(a) ==
    /\ a \in Requests => pc'[a] = "done"
    /\ a = Start => pc'[a] \in {"bootAgain", "failed"}
    /\ a = Ws => pc'[a] \in {"asleep", "ownRefresh", "dead"}

LEMMA ReturnIs ==
    ASSUME Types, NEW a \in Callers, NEW c \in Codes, Return(a, c)
    PROVE  /\ pc' \in [Tasks -> PC] /\ net' \in [Tasks -> Message]
           /\ used' \in [Tasks -> 0..MaxToken] /\ password' \in {"old", "new"}
           /\ Only(a) /\ Left(a) /\ pc'[a] \notin Locked \cup Trying
           /\ used'[a] = 0 /\ net'[a].new = 0 /\ net'[a].st # "answered"
  <1>1. a \in Tasks /\ 0 \in 0..MaxToken /\ token \in 0..MaxToken
    BY Constants DEF Types
  <1>2. /\ used' \in [Tasks -> 0..MaxToken] /\ used'[a] = 0
        /\ \A b \in Tasks \ {a} : used'[b] = used[b]
    BY <1>1 DEF Return, Types
  <1>3. /\ \/ a \in Requests /\ Goto(a, "done") /\ Hang(a)
           \/ a = Start /\ Goto(a, "bootAgain") /\ Ask(a, "login", 0)
           \/ a = Start /\ Goto(a, "failed") /\ Hang(a)
           \/ a = Ws /\ Goto(a, "asleep") /\ Hang(a)
           \/ a = Ws /\ Goto(a, "ownRefresh") /\ Ask(a, "refresh", token)
           \/ a = Ws /\ Goto(a, "dead") /\ Hang(a)
        /\ password' \in {"old", "new"}
    BY DEF Return, Onward, Types
  <1>4. /\ net' \in [Tasks -> Message] /\ net'[a].new = 0 /\ net'[a].st # "answered"
        /\ \A b \in Tasks \ {a} : net'[b] = net[b]
    BY <1>1, <1>3, AskIs, HangIs DEF Kinds
  <1>5. /\ pc' \in [Tasks -> PC] /\ Left(a) /\ pc'[a] \notin Locked \cup Trying
        /\ \A b \in Tasks \ {a} : pc'[b] = pc[b]
    BY <1>1, <1>3, GotoIs, Constants DEF PC, Left, Locked, Trying
  <1> QED
    BY <1>2, <1>3, <1>4, <1>5 DEF Only

LEMMA OutcomeIs ==
    ASSUME Types, NEW a \in Callers, NEW c \in Codes, Outcome(a, c)
    PROVE  /\ secret' \in {"old", "new"} /\ lost' \in 0..MaxLost
           /\ done' \in [Posters -> Nat]
           /\ \A b \in Posters \ {a} : done'[b] = done[b]
           /\ a \in Posters => done'[a] = done[a] \/ done'[a] = done[a] + 1
           /\ c = "auth" => done' = done
           /\ UNCHANGED <<issued, status, first, renewals>>
  <1>1. lost' \in 0..MaxLost
    BY Constants DEF Outcome, Types
  <1>2. CarryOut(a) \/ UNCHANGED <<secret, done>>
    BY DEF Outcome
  <1>3. /\ secret' \in {"old", "new"}
        /\ done' = done \/ (a \in Posters /\ done' = [done EXCEPT ![a] = @ + 1])
    BY <1>2 DEF CarryOut, Types
  <1>4. /\ done' \in [Posters -> Nat]
        /\ \A b \in Posters \ {a} : done'[b] = done[b]
        /\ a \in Posters => done'[a] = done[a] \/ done'[a] = done[a] + 1
    BY <1>3 DEF Types
  <1> QED
    BY <1>1, <1>3, <1>4 DEF Outcome

-----------------------------------------------------------------------------
(***************************************************************************)
(* How the tokens move                                                     *)
(***************************************************************************)

\* A step that installs nothing: what is forgotten, or seen in use, does no harm.
LEMMA NoInstall ==
    ASSUME Types, TokenInv, UNCHANGED <<token, issued, renewals>>,
           Types', 
           \A a \in Tasks : \/ net'[a].new = 0 /\ net'[a].st # "answered"
                            \/ net'[a].new = 0 /\ net'[a].code # "ok"
                            \/ net'[a] = net[a],
           \A a \in Tasks : used'[a] \in {used[a], 0, token},
           \A a \in Tasks : lock' = a => \/ lock = a /\ used'[a] = used[a]
                                         \/ used'[a] = token
    PROVE  TokenInv'
  <1>1. \A a \in Tasks : net'[a].new \in {net[a].new, 0}
    OBVIOUS
  <1>2. /\ token \in Nat /\ issued \in Nat /\ 0 <= issued
        /\ token # 0 => token \in Tokens
        /\ \A a \in Tasks : used[a] \in Nat /\ used'[a] \in Nat
    <2>1. token \in 0..MaxToken /\ issued \in 0..MaxToken /\ MaxToken \in Nat
      BY Constants DEF Types
    <2>2. \A a \in Tasks : used[a] \in 0..MaxToken /\ used'[a] \in 0..MaxToken
      BY DEF Types
    <2> QED
      BY <2>1, <2>2 DEF Tokens
  <1>3. token' <= issued' /\ \A a \in Tasks : used'[a] <= issued' /\ net'[a].new <= issued'
    BY <1>1, <1>2 DEF TokenInv
  <1>4. \A a \in Tasks : Heard(a)' /\ Answer(a)' = "ok" => net'[a].new # 0
    BY DEF TokenInv, Heard, Answer
  <1>5. \A a, b \in Tasks : a # b /\ net'[a].new # 0 => net'[a].new # net'[b].new
    BY <1>1 DEF TokenInv
  <1>6. \A a \in Tasks : net'[a].new # 0 =>
          /\ net'[a].new # token' /\ \A b \in Tasks : used'[b] # net'[a].new
          /\ renewals'[net'[a].new] = 0
    BY <1>1 DEF TokenInv
  <1>7. \A t \in Tokens : /\ renewals'[t] <= 1
                          /\ renewals'[t] = 1 => token' # t /\ t <= issued'
    BY DEF TokenInv
  <1>8. \A a \in Tasks : lock' = a /\ used'[a] # 0 => renewals'[used'[a]] = 0
    <2> SUFFICES ASSUME NEW a \in Tasks, lock' = a, used'[a] # 0
                 PROVE  renewals[used'[a]] = 0
      OBVIOUS
    <2>1. CASE lock = a /\ used'[a] = used[a]
      BY <2>1 DEF TokenInv
    <2>2. CASE used'[a] = token
      <3>1. token \in Tokens /\ renewals[token] \in Nat
        BY <1>2, <2>2 DEF Types, Tokens
      <3> QED
        BY <2>2, <3>1 DEF TokenInv
    <2> QED
      BY <2>1, <2>2
  <1> QED
    BY <1>3, <1>4, <1>5, <1>6, <1>7, <1>8 DEF TokenInv

\* A step that installs what it was sent: nobody has used that token before, and
\* the one who holds the lock gives it up with the renewal.
LEMMA Installed ==
    ASSUME Types, TokenInv, Types', UNCHANGED issued,
           NEW a \in Tasks, Heard(a), Answer(a) = "ok", token' = net[a].new,
           net'[a].new = 0, net'[a].st # "answered",
           \A b \in Tasks \ {a} : net'[b] = net[b] /\ used'[b] = used[b],
           used'[a] \in {used[a], 0, token'},
           \/ UNCHANGED <<renewals, lock>> /\ lock # a
           \/ /\ lock = a /\ lock' = NoTask
              /\ renewals' = [renewals EXCEPT ![used[a]] = @ + 1]
    PROVE  TokenInv'
  <1> DEFINE n == net[a].new
  <1>1. /\ n # 0 /\ n \in Tokens /\ n <= issued /\ n # token
        /\ renewals[n] = 0
        /\ \A b \in Tasks : used[b] # n
    <2>1. n # 0 /\ n \in 0..MaxToken
      BY DEF TokenInv, Types, Message
    <2> QED
      BY <2>1, Constants DEF TokenInv, Tokens
  <1>2. \A b \in Tasks : b # a /\ net[b].new # 0 => net[b].new # n
    BY <1>1 DEF TokenInv
  <1>3. used[a] \in 0..MaxToken /\ used'[a] \in {used[a], 0, n} /\ 0 <= issued
        /\ issued \in Nat
    BY Constants DEF Types
  <1>4. \A t \in 0..MaxToken : t # used[a] => renewals'[t] = renewals[t]
    BY <1>3 DEF Types
  <1>5. \/ UNCHANGED <<renewals, lock>> /\ lock # a
        \/ /\ lock = a /\ lock' = NoTask /\ renewals'[used[a]] = renewals[used[a]] + 1
           /\ used[a] # 0 => renewals[used[a]] = 0
    BY <1>3 DEF Types, TokenInv
  <1> HIDE DEF n
  <1>6. token' <= issued' /\ \A b \in Tasks : used'[b] <= issued' /\ net'[b].new <= issued'
    BY <1>1, <1>3 DEF TokenInv, n
  <1>7. \A b \in Tasks : Heard(b)' /\ Answer(b)' = "ok" => net'[b].new # 0
    BY DEF TokenInv, Heard, Answer
  <1>8. \A b, c \in Tasks : b # c /\ net'[b].new # 0 => net'[b].new # net'[c].new
    BY DEF TokenInv
  <1>9. ASSUME NEW b \in Tasks, net'[b].new # 0
        PROVE  /\ net'[b].new # token' /\ \A c \in Tasks : used'[c] # net'[b].new
               /\ renewals'[net'[b].new] = 0
    <2>1. b # a /\ net'[b].new = net[b].new /\ net[b].new # n
      BY <1>2, <1>9
    <2>2. \A c \in Tasks : used'[c] # net[b].new
      BY <1>3, <1>9, <2>1 DEF TokenInv
    <2>3. net[b].new \in 0..MaxToken /\ net[b].new # used[a]
      BY <1>9, <2>1 DEF TokenInv, Types, Message
    <2> QED
      BY <1>4, <1>9, <2>1, <2>2, <2>3 DEF TokenInv, n
  <1>10. ASSUME NEW t \in Tokens
         PROVE  renewals'[t] <= 1 /\ (renewals'[t] = 1 => token' # t /\ t <= issued')
    <2>1. t \in 0..MaxToken /\ t # 0
      BY Constants DEF Tokens
    <2>2. renewals[t] <= 1 /\ (renewals[t] = 1 => t <= issued) /\ n # used[a]
          /\ renewals[t] \in Nat /\ used[a] <= issued
      BY <1>1, <2>1 DEF TokenInv, Types
    <2>3. CASE t # used[a]
      BY <1>1, <1>4, <2>1, <2>2, <2>3 DEF n
    <2>4. CASE t = used[a]
      <3>1. CASE UNCHANGED renewals
        BY <1>1, <2>2, <2>4, <3>1 DEF n
      <3>2. CASE renewals'[used[a]] = renewals[used[a]] + 1 /\ renewals[used[a]] = 0
        BY <1>1, <2>2, <2>4, <3>2 DEF n
      <3> QED
        BY <1>5, <2>1, <2>4, <3>1, <3>2
    <2> QED
      BY <2>3, <2>4
  <1>11. \A b \in Tasks : lock' = b /\ used'[b] # 0 => renewals'[used'[b]] = 0
    BY <1>5, Constants DEF TokenInv
  <1> QED
    BY <1>6, <1>7, <1>8, <1>9, <1>10, <1>11 DEF TokenInv

\* The hub issues a token that nobody has seen.
LEMMA Issued ==
    ASSUME Types, TokenInv, NEW a \in Tasks, HubIssues(a)
    PROVE  TokenInv'
  <1> DEFINE n == issued + 1
  <1>1. /\ n \in Tokens /\ n \in 0..MaxToken /\ n # 0 /\ n \in Nat /\ issued \in Nat
        /\ issued' = n /\ Reply(a, "ok", n)
        /\ UNCHANGED <<token, used, lock, renewals>>
    BY Constants DEF HubIssues, Types, Tokens, local, session, history
  <1>2. /\ net'[a].new = n /\ \A b \in Tasks \ {a} : net'[b] = net[b]
    BY <1>1, ReplyIs DEF Codes
  <1>3. /\ token <= issued /\ \A b \in Tasks : used[b] <= issued /\ net[b].new <= issued
    BY DEF TokenInv
  <1>4. renewals[n] = 0
    <2>1. renewals[n] \in Nat /\ renewals[n] <= 1 /\ (renewals[n] = 1 => n <= issued)
      BY <1>1 DEF TokenInv, Types
    <2> QED
      BY <1>1, <2>1
  <1>5. /\ token < n /\ \A b \in Tasks : used[b] < n /\ net[b].new < n
    <2>1. token \in Nat /\ \A b \in Tasks : used[b] \in Nat /\ net[b].new \in Nat
      BY Constants DEF Types, Message
    <2> QED
      BY <1>1, <1>3, <2>1
  <1>6. /\ token \in Nat /\ \A b \in Tasks : used[b] \in Nat /\ net[b].new \in Nat
    BY Constants DEF Types, Message
  <1> HIDE DEF n
  <1>7. token' <= issued' /\ \A b \in Tasks : used'[b] <= issued' /\ net'[b].new <= issued'
    BY <1>1, <1>2, <1>5, <1>6
  <1>8. \A b \in Tasks : Heard(b)' /\ Answer(b)' = "ok" => net'[b].new # 0
    BY <1>1, <1>2 DEF TokenInv, Heard, Answer
  <1>9. \A b, c \in Tasks : b # c /\ net'[b].new # 0 => net'[b].new # net'[c].new
    BY <1>1, <1>2, <1>5, <1>6 DEF TokenInv
  <1>10. \A b \in Tasks : net'[b].new # 0 =>
           /\ net'[b].new # token' /\ \A c \in Tasks : used'[c] # net'[b].new
           /\ renewals'[net'[b].new] = 0
    BY <1>1, <1>2, <1>4, <1>5, <1>6 DEF TokenInv
  <1>11. \A t \in Tokens : /\ renewals'[t] <= 1
                           /\ renewals'[t] = 1 => token' # t /\ t <= issued'
    BY <1>1 DEF TokenInv, Tokens, n
  <1>12. \A b \in Tasks : lock' = b /\ used'[b] # 0 => renewals'[used'[b]] = 0
    BY <1>1 DEF TokenInv
  <1> QED
    BY <1>7, <1>8, <1>9, <1>10, <1>11, <1>12 DEF TokenInv

-----------------------------------------------------------------------------
(***************************************************************************)
(* A step of one task                                                      *)
(***************************************************************************)

\* What has to be shown of a step of one task, tokens and types apart.
OwnStep(a) ==
    /\ Only(a)
    /\ pc[a] \notin {"off", "ready", "started", "failed"}
    /\ pc'[a] \in Locked <=> lock' = a
    /\ lock' \in {lock, a, NoTask} /\ (lock' # lock => lock \in {a, NoTask})
    /\ \A b \in Posters \ {a} : done'[b] = done[b]
    /\ a \in Posters =>
        /\ pc[a] \in Trying \/ done'[a] = done[a]
        /\ done'[a] = done[a] \/ done'[a] = done[a] + 1
        /\ pc'[a] \in Trying => pc[a] \in Trying /\ done'[a] = done[a]
    /\ pc'[a] = "second" => net'[a].tok # used'[a]

LEMMA StepOfOne ==
    ASSUME SessionInv, NEW a \in Tasks, OwnStep(a), Types', Flags', TokenInv'
    PROVE  SessionInv'
  <1>1. LockInv'
    <2>1. \A b \in Tasks : pc'[b] \in Locked <=> lock' = b
      BY Constants DEF SessionInv, LockInv, OwnStep, Only
    <2>2. /\ pc'[Start] \notin {"ready", "started", "failed"} => pc'[Ws] = "off"
          /\ pc'[Start] \notin {"started", "failed"} => pc'[Proactive] = "off"
      BY Constants DEF SessionInv, LockInv, OwnStep, Only
    <2> QED
      BY <2>1, <2>2 DEF LockInv
  <1>2. DoneInv'
    <2> SUFFICES ASSUME NEW b \in Posters
                 PROVE  done'[b] <= 1 /\ (pc'[b] \in Trying => done'[b] = 0)
      BY DEF DoneInv
    <2>1. b \in Tasks /\ done[b] \in Nat
      BY Constants DEF SessionInv, Types
    <2>2. CASE b = a
      BY <2>1, <2>2 DEF SessionInv, DoneInv, OwnStep
    <2>3. CASE b # a
      BY <2>1, <2>3 DEF SessionInv, DoneInv, OwnStep, Only
    <2> QED
      BY <2>2, <2>3
  <1>3. SecondInv'
    BY Constants DEF SessionInv, SecondInv, OwnStep, Only
  <1> QED
    BY <1>1, <1>2, <1>3 DEF SessionInv

LEMMA SendIs ==
    ASSUME Types, NEW a \in Callers, Send(a)
    PROVE  /\ Only(a) /\ pc'[a] = "first" /\ used'[a] = token
           /\ net'[a].new = 0 /\ net'[a].st # "answered"
           /\ pc' \in [Tasks -> PC] /\ net' \in [Tasks -> Message]
           /\ used' \in [Tasks -> 0..MaxToken]
  <1>1. a \in Tasks /\ CallKind(a) \in Kinds /\ token \in 0..MaxToken /\ "first" \in PC
    BY Constants DEF CallKind, Kinds, Types, PC
  <1>2. /\ pc'[a] = "first" /\ pc' \in [Tasks -> PC]
        /\ \A b \in Tasks \ {a} : pc'[b] = pc[b]
    BY <1>1, GotoIs DEF Send
  <1>3. /\ net'[a].new = 0 /\ net'[a].st = "asked" /\ net' \in [Tasks -> Message]
        /\ \A b \in Tasks \ {a} : net'[b] = net[b]
    BY <1>1, AskIs DEF Send
  <1>4. /\ used'[a] = token /\ used' \in [Tasks -> 0..MaxToken]
        /\ \A b \in Tasks \ {a} : used'[b] = used[b]
    BY <1>1 DEF Send, Types
  <1> QED
    BY <1>2, <1>3, <1>4 DEF Only

LEMMA InstallIs ==
    ASSUME Types, NEW a \in Tasks, Install(a)
    PROVE  token' \in 0..MaxToken /\ token' = net[a].new /\ near' \in BOOLEAN
  BY DEF Install, Types, Message

LEMMA RenewIs ==
    ASSUME Types, NEW a \in Tasks, Renew(a)
    PROVE  /\ token' \in 0..MaxToken /\ token' = net[a].new /\ near' \in BOOLEAN
           /\ renewals' \in [0..MaxToken -> Nat]
           /\ renewals' = [renewals EXCEPT ![used[a]] = @ + 1]
  <1>1. renewals' \in [0..MaxToken -> Nat]
    BY DEF Renew, Types
  <1> QED
    BY <1>1, InstallIs DEF Renew

\* A request that goes on to its second try, or any task that asks for a token.
LEMMA AskAt ==
    ASSUME Types, NEW a \in Tasks, NEW p \in PC, NEW k \in Kinds, NEW t \in 0..MaxToken,
           Goto(a, p), Ask(a, k, t)
    PROVE  /\ pc'[a] = p /\ net'[a].tok = t
           /\ net'[a].new = 0 /\ net'[a].st # "answered"
           /\ pc' \in [Tasks -> PC] /\ net' \in [Tasks -> Message]
           /\ \A b \in Tasks \ {a} : pc'[b] = pc[b] /\ net'[b] = net[b]
  BY AskIs, GotoIs

LEMMA HangAt ==
    ASSUME Types, NEW a \in Tasks, NEW p \in PC, Goto(a, p), Hang(a)
    PROVE  /\ pc'[a] = p
           /\ net'[a].new = 0 /\ net'[a].st # "answered"
           /\ pc' \in [Tasks -> PC] /\ net' \in [Tasks -> Message]
           /\ \A b \in Tasks \ {a} : pc'[b] = pc[b] /\ net'[b] = net[b]
  BY HangIs, GotoIs

-----------------------------------------------------------------------------
(***************************************************************************)
(* A request that recovers the session                                     *)
(***************************************************************************)

LEMMA BeginInv ==
    ASSUME SessionInv, NEW r \in Requests, Begin(r)
    PROVE  SessionInv'
  <1>1. /\ r \in Callers /\ r \in Tasks /\ Types /\ Flags /\ TokenInv
        /\ pc[r] = "idle" /\ lock # r
    BY Constants DEF Begin, SessionInv, LockInv, Locked
  <1>2. /\ Only(r) /\ pc'[r] = "first" /\ used'[r] = token
        /\ net'[r].new = 0 /\ net'[r].st # "answered"
        /\ pc' \in [Tasks -> PC] /\ net' \in [Tasks -> Message]
        /\ used' \in [Tasks -> 0..MaxToken]
    BY <1>1, SendIs DEF Begin
  <1>3. UNCHANGED <<token, near, password, running, lock, issued, status, secret,
                    first, lost, done, renewals>>
    BY DEF Begin, session, hub, history
  <1>4. Types' /\ Flags'
    BY <1>1, <1>2, <1>3 DEF Types, Flags
  <1>5. TokenInv'
    BY <1>1, <1>2, <1>3, <1>4, NoInstall DEF Only
  <1>6. OwnStep(r)
    BY <1>1, <1>2, <1>3 DEF OwnStep, Trying, Locked
  <1> QED
    BY <1>1, <1>4, <1>5, <1>6, StepOfOne

\* The answer to the first or the second try, if the task returns.
LEMMA AnswerReturns ==
    ASSUME SessionInv, NEW a \in Callers, pc[a] \in {"first", "second"},
           NEW c \in Codes, Outcome(a, c), Return(a, c),
           UNCHANGED <<session, running, lock>>
    PROVE  SessionInv'
  <1>1. /\ a \in Tasks /\ Types /\ Flags /\ TokenInv /\ lock # a
    BY Constants DEF SessionInv, LockInv, Locked
  <1>2. /\ Only(a) /\ Left(a) /\ pc'[a] \notin Locked \cup Trying
        /\ used'[a] = 0 /\ net'[a].new = 0 /\ net'[a].st # "answered"
        /\ pc' \in [Tasks -> PC] /\ net' \in [Tasks -> Message]
        /\ used' \in [Tasks -> 0..MaxToken] /\ password' \in {"old", "new"}
    BY <1>1, ReturnIs
  <1>3. /\ secret' \in {"old", "new"} /\ lost' \in 0..MaxLost
        /\ done' \in [Posters -> Nat]
        /\ \A b \in Posters \ {a} : done'[b] = done[b]
        /\ a \in Posters => done'[a] = done[a] \/ done'[a] = done[a] + 1
        /\ UNCHANGED <<issued, status, first, renewals>>
    BY <1>1, OutcomeIs
  <1>4. Types' /\ Flags'
    BY <1>1, <1>2, <1>3 DEF Types, Flags, session
  <1>5. TokenInv'
    BY <1>1, <1>2, <1>3, <1>4, NoInstall DEF Only, session
  <1>6. OwnStep(a)
    BY <1>1, <1>2, <1>3 DEF OwnStep, Trying, Locked
  <1> QED
    BY <1>1, <1>4, <1>5, <1>6, StepOfOne

LEMMA FirstAnswerInv ==
    ASSUME SessionInv, NEW a \in Callers, FirstAnswer(a)
    PROVE  SessionInv'
  <1>1. PICK c \in Codes :
          /\ Outcome(a, c)
          /\ \/ c = "auth" /\ Goto(a, "lock") /\ Hang(a) /\ UNCHANGED <<password, used>>
             \/ c # "auth" /\ Return(a, c)
    BY DEF FirstAnswer
  <1>2. pc[a] = "first" /\ UNCHANGED <<session, running, lock>>
    BY DEF FirstAnswer
  <1>3. CASE Return(a, c)
    BY <1>1, <1>2, <1>3, AnswerReturns
  <1>4. CASE c = "auth" /\ Goto(a, "lock") /\ Hang(a) /\ UNCHANGED <<password, used>>
    <2>1. /\ a \in Tasks /\ Types /\ Flags /\ TokenInv /\ lock # a /\ "lock" \in PC
      BY <1>2, Constants DEF SessionInv, LockInv, Locked, PC
    <2>2. /\ pc'[a] = "lock"
          /\ net'[a].new = 0 /\ net'[a].st # "answered"
          /\ pc' \in [Tasks -> PC] /\ net' \in [Tasks -> Message]
          /\ \A b \in Tasks \ {a} : pc'[b] = pc[b] /\ net'[b] = net[b]
      BY <1>4, <2>1, HangAt
    <2>3. /\ secret' \in {"old", "new"} /\ lost' \in 0..MaxLost
          /\ done' = done
          /\ UNCHANGED <<issued, status, first, renewals>>
      BY <1>1, <1>4, <2>1, OutcomeIs
    <2>4. Types' /\ Flags'
      BY <1>2, <1>4, <2>1, <2>2, <2>3 DEF Types, Flags, session
    <2>5. TokenInv'
      BY <1>2, <1>4, <2>1, <2>2, <2>3, <2>4, NoInstall DEF session
    <2>6. OwnStep(a)
      BY <1>2, <1>4, <2>1, <2>2, <2>3 DEF OwnStep, Only, Trying, Locked
    <2> QED
      BY <2>1, <2>4, <2>5, <2>6, StepOfOne
  <1> QED
    BY <1>1, <1>3, <1>4

LEMMA SecondAnswerInv ==
    ASSUME SessionInv, NEW a \in Callers, SecondAnswer(a)
    PROVE  SessionInv'
  BY AnswerReturns DEF SecondAnswer

LEMMA RecoverInv ==
    ASSUME SessionInv, NEW a \in Callers, Recover(a)
    PROVE  SessionInv'
  <1>1. /\ a \in Tasks /\ Types /\ Flags /\ TokenInv /\ token \in 0..MaxToken
        /\ {"second", "refresh"} \subseteq PC /\ CallKind(a) \in Kinds /\ "refresh" \in Kinds
    BY Constants DEF SessionInv, PC, Locked, CallKind, Kinds, Types
  <1>2. /\ pc[a] = "lock" /\ lock = NoTask
        /\ \/ token # used[a] /\ Goto(a, "second") /\ Ask(a, CallKind(a), token)
              /\ UNCHANGED lock
           \/ token = used[a] /\ lock' = a /\ Goto(a, "refresh") /\ Ask(a, "refresh", token)
        /\ UNCHANGED <<token, near, password, running, used, issued, status, secret, first,
                       lost, done, renewals>>
    BY DEF Recover, session, hub, history
  <1>3. /\ net'[a].tok = token /\ net'[a].new = 0 /\ net'[a].st # "answered"
        /\ pc' \in [Tasks -> PC] /\ net' \in [Tasks -> Message]
        /\ \A b \in Tasks \ {a} : pc'[b] = pc[b] /\ net'[b] = net[b]
        /\ \/ pc'[a] = "second" /\ lock' = lock /\ token # used[a]
           \/ pc'[a] = "refresh" /\ lock' = a /\ token = used[a]
    BY <1>1, <1>2, AskAt
  <1>4. Types' /\ Flags'
    BY <1>1, <1>2, <1>3 DEF Types, Flags
  <1>5. TokenInv'
    BY <1>1, <1>2, <1>3, <1>4, Constants, NoInstall
  <1>6. OwnStep(a)
    BY <1>1, <1>2, <1>3, Constants DEF OwnStep, Only, Trying, Locked
  <1> QED
    BY <1>1, <1>4, <1>5, <1>6, StepOfOne

-----------------------------------------------------------------------------
(***************************************************************************)
(* The holder of the lock hears of its refresh or its login                *)
(***************************************************************************)

\* It renewed the session and gives up the lock.
LEMMA HolderRenews ==
    ASSUME SessionInv, NEW a \in Tasks, pc[a] \in Locked, Heard(a), Answer(a) = "ok",
           Renew(a), lock' = NoTask, Only(a),
           pc'[a] \in {"second", "napping"},
           pc'[a] = "second" => net'[a].tok = token' /\ used'[a] = used[a],
           pc[a] \in {"refresh", "relogin"} \/ a = Proactive,
           used'[a] \in {used[a], 0}, net'[a].new = 0, net'[a].st # "answered",
           pc' \in [Tasks -> PC], net' \in [Tasks -> Message],
           used' \in [Tasks -> 0..MaxToken],
           UNCHANGED <<password, running, issued, status, secret, first, lost, done>>
    PROVE  SessionInv'
  <1>1. /\ Types /\ Flags /\ TokenInv /\ lock = a /\ NoTask \notin Tasks
        /\ (a \in Posters => a # Proactive)
    BY Constants DEF SessionInv, LockInv
  <1>2. /\ token' \in 0..MaxToken /\ token' = net[a].new /\ near' \in BOOLEAN
        /\ renewals' \in [0..MaxToken -> Nat]
        /\ renewals' = [renewals EXCEPT ![used[a]] = @ + 1]
    BY <1>1, RenewIs
  <1>3. Types' /\ Flags'
    BY <1>1, <1>2 DEF Types, Flags
  <1>4. TokenInv'
    BY <1>1, <1>2, <1>3, Installed DEF Only
  <1>5. token' # used[a]
    BY <1>1, <1>2 DEF TokenInv
  <1>6. OwnStep(a)
    BY <1>1, <1>5 DEF OwnStep, Locked, Trying
  <1> QED
    BY <1>3, <1>4, <1>6, StepOfOne

\* It logs in instead, still holding the lock.
LEMMA HolderAsks ==
    ASSUME SessionInv, NEW a \in Tasks, pc[a] \in Locked,
           NEW p \in Locked, Goto(a, p), Ask(a, "login", 0),
           pc[a] \in {"refresh", "relogin"} \/ a = Proactive,
           UNCHANGED <<token, near, password, running, lock, used, issued, status, secret,
                       first, lost, done, renewals>>
    PROVE  SessionInv'
  <1>1. /\ Types /\ Flags /\ TokenInv /\ lock = a /\ NoTask \notin Tasks
        /\ (a \in Posters => a # Proactive)
        /\ p \in PC /\ 0 \in 0..MaxToken /\ "login" \in Kinds
    BY Constants DEF SessionInv, LockInv, PC, Kinds
  <1>2. /\ pc'[a] = p /\ net'[a].new = 0 /\ net'[a].st # "answered"
        /\ pc' \in [Tasks -> PC] /\ net' \in [Tasks -> Message]
        /\ \A b \in Tasks \ {a} : pc'[b] = pc[b] /\ net'[b] = net[b]
    BY <1>1, AskAt
  <1>3. Types' /\ Flags'
    BY <1>1, <1>2 DEF Types, Flags
  <1>4. TokenInv'
    BY <1>1, <1>2, <1>3, NoInstall
  <1>5. OwnStep(a)
    BY <1>1, <1>2 DEF OwnStep, Only, Locked, Trying
  <1> QED
    BY <1>3, <1>4, <1>5, StepOfOne

\* It has no new token and gives up the lock.
LEMMA HolderGivesUp ==
    ASSUME SessionInv, NEW a \in Tasks, pc[a] \in Locked, lock' = NoTask, Only(a),
           pc'[a] \notin Locked \cup Trying,
           used'[a] = 0, net'[a].new = 0, net'[a].st # "answered",
           pc' \in [Tasks -> PC], net' \in [Tasks -> Message],
           used' \in [Tasks -> 0..MaxToken], password' \in {"old", "new"},
           UNCHANGED <<token, near, running, issued, status, secret,
                       first, lost, done, renewals>>
    PROVE  SessionInv'
  <1>1. /\ Types /\ Flags /\ TokenInv /\ lock = a /\ NoTask \notin Tasks
    BY Constants DEF SessionInv, LockInv
  <1>2. Types' /\ Flags'
    BY <1>1 DEF Types, Flags
  <1>3. TokenInv'
    BY <1>1, <1>2, NoInstall DEF Only
  <1>4. OwnStep(a)
    BY <1>1 DEF OwnStep, Locked, Trying
  <1> QED
    BY <1>2, <1>3, <1>4, StepOfOne

LEMMA HolderInv ==
    ASSUME SessionInv, NEW a \in Callers, Refreshed(a) \/ LoggedIn(a)
    PROVE  SessionInv'
  <1>1. /\ a \in Tasks /\ Types /\ "second" \in PC /\ {"lost", "denied", "auth"} \subseteq Codes
        /\ CallKind(a) \in Kinds /\ Answer(a) \in Codes
        /\ "relogin" \in Locked
    BY Constants DEF SessionInv, PC, Codes, CallKind, Kinds, Types, Message, Answer, Locked
  <1>2. /\ pc[a] \in {"refresh", "relogin"} /\ pc[a] \in Locked /\ Heard(a)
        /\ UNCHANGED <<running, issued, status, secret, first, lost, done>>
    BY DEF Refreshed, LoggedIn, Locked, hub
  <1>3. CASE /\ Answer(a) = "ok" /\ Renew(a) /\ lock' = NoTask
             /\ Goto(a, "second") /\ Ask(a, CallKind(a), token') /\ UNCHANGED <<password, used>>
    <2>1. token' \in 0..MaxToken
      BY <1>1, <1>3, RenewIs
    <2>2. /\ pc'[a] = "second" /\ net'[a].tok = token'
          /\ net'[a].new = 0 /\ net'[a].st # "answered"
          /\ pc' \in [Tasks -> PC] /\ net' \in [Tasks -> Message]
          /\ \A b \in Tasks \ {a} : pc'[b] = pc[b] /\ net'[b] = net[b]
      BY <1>1, <1>3, <2>1, AskAt
    <2>3. Only(a) /\ used' \in [Tasks -> 0..MaxToken]
      BY <1>1, <1>3, <2>2 DEF Only, Types
    <2> QED
      BY <1>1, <1>2, <1>3, <2>2, <2>3, HolderRenews
  <1>4. CASE /\ Goto(a, "relogin") /\ Ask(a, "login", 0)
             /\ UNCHANGED <<session, password, lock, used, renewals>>
    BY <1>1, <1>2, <1>4, HolderAsks DEF session
  <1>5. CASE /\ lock' = NoTask /\ Return(a, Answer(a))
             /\ UNCHANGED <<session, renewals>>
    <2>1. /\ pc' \in [Tasks -> PC] /\ net' \in [Tasks -> Message]
          /\ used' \in [Tasks -> 0..MaxToken] /\ password' \in {"old", "new"}
          /\ Only(a) /\ pc'[a] \notin Locked \cup Trying
          /\ used'[a] = 0 /\ net'[a].new = 0 /\ net'[a].st # "answered"
      BY <1>1, <1>5, ReturnIs
    <2> QED
      BY <1>1, <1>2, <1>5, <2>1, HolderGivesUp DEF session
  <1> QED
    BY <1>3, <1>4, <1>5 DEF Refreshed, LoggedIn

LEMMA ProactiveHolderInv ==
    ASSUME SessionInv, ProactiveRefreshed \/ ProactiveLoggedIn
    PROVE  SessionInv'
  <1> DEFINE a == Proactive
  <1>1. /\ a \in Tasks /\ Types /\ {"napping", "ended"} \subseteq PC
        /\ 0 \in 0..MaxToken /\ "keepLogin" \in Locked
    BY Constants DEF SessionInv, PC, Locked
  <1>2. /\ pc[a] \in Locked /\ Heard(a)
        /\ UNCHANGED <<password, running, issued, status, secret, first, lost, done>>
    BY DEF ProactiveRefreshed, ProactiveLoggedIn, Locked, hub
  <1>3. Forget => /\ used' \in [Tasks -> 0..MaxToken] /\ used'[a] = 0
                  /\ \A b \in Tasks \ {a} : used'[b] = used[b]
    BY <1>1 DEF Forget, Types
  <1>4. CASE /\ Answer(a) = "ok" /\ Renew(a) /\ lock' = NoTask
             /\ Goto(a, "napping") /\ Hang(a) /\ Forget
    <2>1. /\ pc'[a] = "napping"
          /\ net'[a].new = 0 /\ net'[a].st # "answered"
          /\ pc' \in [Tasks -> PC] /\ net' \in [Tasks -> Message]
          /\ \A b \in Tasks \ {a} : pc'[b] = pc[b] /\ net'[b] = net[b]
      BY <1>1, <1>4, HangAt
    <2>2. Only(a)
      BY <1>3, <1>4, <2>1 DEF Only
    <2> QED
      BY <1>1, <1>2, <1>3, <1>4, <2>1, <2>2, HolderRenews
  <1>5. CASE /\ Goto(a, "keepLogin") /\ Ask(a, "login", 0)
             /\ UNCHANGED <<session, lock, used, renewals>>
    BY <1>1, <1>2, <1>5, HolderAsks DEF session
  <1>6. CASE /\ Goto(a, "ended") \/ Goto(a, "napping")
             /\ lock' = NoTask /\ Hang(a) /\ Forget /\ UNCHANGED <<session, renewals>>
    <2>1. /\ pc'[a] \in {"ended", "napping"}
          /\ net'[a].new = 0 /\ net'[a].st # "answered"
          /\ pc' \in [Tasks -> PC] /\ net' \in [Tasks -> Message]
          /\ \A b \in Tasks \ {a} : pc'[b] = pc[b] /\ net'[b] = net[b]
      BY <1>1, <1>6, HangAt
    <2>2. Only(a) /\ pc'[a] \notin Locked \cup Trying
      BY <1>3, <1>6, <2>1 DEF Only, Locked, Trying
    <2>3. password' \in {"old", "new"}
      BY <1>1, <1>2 DEF Types
    <2> QED
      BY <1>1, <1>2, <1>3, <1>6, <2>1, <2>2, <2>3, HolderGivesUp DEF session
  <1> QED
    BY <1>4, <1>5, <1>6 DEF ProactiveRefreshed, ProactiveLoggedIn

-----------------------------------------------------------------------------
(***************************************************************************)
(* The two loops                                                           *)
(***************************************************************************)

\* A loop moves and installs nothing; the lock is not concerned.
LEMMA LoopMoves ==
    ASSUME SessionInv, NEW a \in {Ws, Proactive}, pc[a] \notin Locked \cup {"off"},
           Only(a), pc'[a] \notin Locked \cup {"second"},
           net'[a] = net[a] \/ (net'[a].new = 0 /\ net'[a].st # "answered"),
           used'[a] \in {used[a], token},
           pc' \in [Tasks -> PC], net' \in [Tasks -> Message],
           used' \in [Tasks -> 0..MaxToken], lost' \in 0..MaxLost,
           pc[a] \notin {"ready", "started", "failed"},
           UNCHANGED <<session, password, running, lock, hub, history>>
    PROVE  SessionInv'
  <1>1. /\ a \in Tasks /\ a \notin Posters /\ Types /\ Flags /\ TokenInv /\ lock # a
    BY Constants, SessionAssumption DEF SessionInv, LockInv, Posters
  <1>2. UNCHANGED <<token, near, password, running, lock, issued, status, secret,
                    first, done, renewals>>
    BY DEF session, hub, history
  <1>3. Types' /\ Flags'
    BY <1>1, <1>2 DEF Types, Flags
  <1>4. TokenInv'
    BY <1>1, <1>2, <1>3, NoInstall DEF Only
  <1>5. OwnStep(a)
    BY <1>1, <1>2 DEF OwnStep, Locked
  <1> QED
    BY <1>1, <1>3, <1>4, <1>5, StepOfOne

\* The WebSocket loop installs a token without the lock.
LEMMA LoopInstalls ==
    ASSUME SessionInv, pc[Ws] \in {"ownRefresh", "ownLogin"}, Heard(Ws), Answer(Ws) = "ok",
           Install(Ws), Goto(Ws, "asleep"), Hang(Ws),
           UNCHANGED <<password, running, lock, used, hub, lost, history>>
    PROVE  SessionInv'
  <1>1. /\ Ws \in Tasks /\ Ws \notin Posters /\ Types /\ Flags /\ TokenInv /\ lock # Ws
        /\ "asleep" \in PC
    BY Constants DEF SessionInv, LockInv, Locked, PC
  <1>2. UNCHANGED <<password, running, lock, used, issued, status, secret,
                    first, lost, done, renewals>>
    BY DEF hub, history
  <1>3. /\ pc'[Ws] = "asleep" /\ net'[Ws].new = 0 /\ net'[Ws].st # "answered"
        /\ pc' \in [Tasks -> PC] /\ net' \in [Tasks -> Message]
        /\ \A b \in Tasks \ {Ws} : pc'[b] = pc[b] /\ net'[b] = net[b]
    BY <1>1, HangAt
  <1>4. token' \in 0..MaxToken /\ token' = net[Ws].new /\ near' \in BOOLEAN
    BY <1>1, InstallIs
  <1>5. Types' /\ Flags'
    BY <1>1, <1>2, <1>3, <1>4 DEF Types, Flags
  <1>6. TokenInv'
    BY <1>1, <1>2, <1>3, <1>4, <1>5, Installed
  <1>7. OwnStep(Ws)
    BY <1>1, <1>2, <1>3 DEF OwnStep, Only, Locked
  <1> QED
    BY <1>1, <1>5, <1>6, <1>7, StepOfOne

LEMMA WsInv ==
    ASSUME SessionInv, WsSteps
    PROVE  SessionInv'
  <1>1. /\ Ws \in Tasks /\ Ws \in Callers /\ Types /\ token \in 0..MaxToken /\ 0 \in 0..MaxToken
        /\ {"open", "asleep", "connect", "ownLogin", "dead"} \subseteq PC \ (Locked \cup {"second"})
        /\ "login" \in Kinds /\ lost \in 0..MaxLost /\ MaxLost \in Nat
        /\ net \in [Tasks -> Message] /\ used \in [Tasks -> 0..MaxToken]
        /\ pc[Ws] \in {"connect", "open", "asleep", "ownRefresh", "ownLogin"}
    BY Constants DEF SessionInv, PC, Locked, Kinds, Types,
                     WsSteps, WsConnect, WsCloses, WsWakes, WsRefreshed, WsLoggedIn
  <1>2. pc[Ws] \notin Locked \cup {"off"} /\ pc[Ws] \notin {"ready", "started", "failed"}
    BY <1>1 DEF Locked
  <1>3. CASE /\ Send(Ws) /\ lost' \in 0..MaxLost
             /\ UNCHANGED <<session, password, running, lock, hub, history>>
    <2>1. /\ Only(Ws) /\ pc'[Ws] = "first" /\ used'[Ws] = token
          /\ net'[Ws].new = 0 /\ net'[Ws].st # "answered"
          /\ pc' \in [Tasks -> PC] /\ net' \in [Tasks -> Message]
          /\ used' \in [Tasks -> 0..MaxToken]
      BY <1>1, <1>3, SendIs
    <2> QED
      BY <1>2, <1>3, <2>1, LoopMoves DEF Locked
  <1>4. ASSUME NEW p \in {"open", "asleep", "connect", "dead"}, Goto(Ws, p),
               Hang(Ws) \/ UNCHANGED net,
               UNCHANGED <<session, password, running, lock, used, hub, lost, history>>
        PROVE  SessionInv'
    <2>1. /\ pc'[Ws] = p /\ pc' \in [Tasks -> PC]
          /\ \A b \in Tasks \ {Ws} : pc'[b] = pc[b]
      BY <1>1, <1>4, GotoIs
    <2>2. /\ net'[Ws] = net[Ws] \/ (net'[Ws].new = 0 /\ net'[Ws].st # "answered")
          /\ net' \in [Tasks -> Message] /\ \A b \in Tasks \ {Ws} : net'[b] = net[b]
      BY <1>1, <1>4, HangIs
    <2> QED
      BY <1>1, <1>2, <1>4, <2>1, <2>2, LoopMoves DEF Only
  <1>5. CASE /\ Goto(Ws, "ownLogin") /\ Ask(Ws, "login", 0)
             /\ UNCHANGED <<session, password, running, lock, used, hub, lost, history>>
    <2>1. /\ pc'[Ws] = "ownLogin" /\ net'[Ws].new = 0 /\ net'[Ws].st # "answered"
          /\ pc' \in [Tasks -> PC] /\ net' \in [Tasks -> Message]
          /\ \A b \in Tasks \ {Ws} : pc'[b] = pc[b] /\ net'[b] = net[b]
      BY <1>1, <1>5, AskAt
    <2> QED
      BY <1>1, <1>2, <1>5, <2>1, LoopMoves DEF Only
  <1>6. CASE WsConnect
    <2>1. lost' \in 0..MaxLost
      BY <1>1, <1>6 DEF WsConnect
    <2> QED
      BY <1>3, <1>4, <1>6, <2>1 DEF WsConnect
  <1>7. CASE WsCloses
    BY <1>1, <1>3, <1>4, <1>7 DEF WsCloses
  <1>8. CASE WsWakes
    BY <1>4, <1>8 DEF WsWakes
  <1>9. CASE WsRefreshed
    BY <1>4, <1>5, <1>9, LoopInstalls DEF WsRefreshed
  <1>10. CASE WsLoggedIn
    BY <1>4, <1>10, LoopInstalls DEF WsLoggedIn
  <1> QED
    BY <1>6, <1>7, <1>8, <1>9, <1>10 DEF WsSteps

LEMMA ProactiveWakesInv ==
    ASSUME SessionInv, ProactiveWakes
    PROVE  SessionInv'
  <1>1. /\ Proactive \in Tasks /\ Types /\ "keepLock" \in PC
        /\ net \in [Tasks -> Message] /\ used \in [Tasks -> 0..MaxToken]
        /\ lost \in 0..MaxLost
    BY Constants DEF SessionInv, PC, Types
  <1>2. /\ pc[Proactive] = "napping" /\ Goto(Proactive, "keepLock")
        /\ UNCHANGED <<session, password, running, lock, used, hub, net, lost, history>>
    BY DEF ProactiveWakes
  <1>3. /\ pc'[Proactive] = "keepLock" /\ pc' \in [Tasks -> PC]
        /\ \A b \in Tasks \ {Proactive} : pc'[b] = pc[b]
    BY <1>1, <1>2, GotoIs
  <1> QED
    BY <1>1, <1>2, <1>3, LoopMoves DEF Only, Locked

LEMMA ProactiveLocksInv ==
    ASSUME SessionInv, ProactiveLocks
    PROVE  SessionInv'
  <1> DEFINE a == Proactive
  <1>1. /\ a \in Tasks /\ Types /\ Flags /\ TokenInv /\ token \in 0..MaxToken
        /\ {"keepRefresh", "napping"} \subseteq PC /\ "refresh" \in Kinds
        /\ net \in [Tasks -> Message] /\ used \in [Tasks -> 0..MaxToken]
        /\ lost \in 0..MaxLost /\ a \notin Posters
    BY Constants DEF SessionInv, PC, Locked, Types, Kinds
  <1>2. /\ pc[a] = "keepLock" /\ lock = NoTask
        /\ UNCHANGED <<session, password, running, hub, lost, history>>
    BY DEF ProactiveLocks
  <1>3. CASE /\ lock' = a /\ Goto(a, "keepRefresh") /\ Ask(a, "refresh", token)
             /\ used' = [used EXCEPT ![a] = token]
    <2>1. /\ pc'[a] = "keepRefresh" /\ net'[a].new = 0 /\ net'[a].st # "answered"
          /\ pc' \in [Tasks -> PC] /\ net' \in [Tasks -> Message]
          /\ \A b \in Tasks \ {a} : pc'[b] = pc[b] /\ net'[b] = net[b]
      BY <1>1, <1>3, AskAt
    <2>2. /\ used'[a] = token /\ used' \in [Tasks -> 0..MaxToken]
          /\ \A b \in Tasks \ {a} : used'[b] = used[b]
      BY <1>1, <1>3
    <2>3. UNCHANGED <<token, near, password, running, issued, status, secret,
                      first, lost, done, renewals>>
      BY <1>2 DEF session, hub, history
    <2>4. Types' /\ Flags'
      BY <1>1, <1>3, <2>1, <2>2, <2>3 DEF Types, Flags
    <2>5. TokenInv'
      BY <1>1, <1>3, <2>1, <2>2, <2>3, <2>4, NoInstall
    <2>6. OwnStep(a)
      BY <1>1, <1>2, <1>3, <2>1, <2>2, <2>3 DEF OwnStep, Only, Locked
    <2> QED
      BY <1>1, <2>4, <2>5, <2>6, StepOfOne
  <1>4. CASE Goto(a, "napping") /\ UNCHANGED <<lock, net, used>>
    <2>1. /\ pc'[a] = "napping" /\ pc' \in [Tasks -> PC]
          /\ \A b \in Tasks \ {a} : pc'[b] = pc[b]
      BY <1>1, <1>4, GotoIs
    <2> QED
      BY <1>1, <1>2, <1>4, <2>1, LoopMoves DEF Only, Locked
  <1> QED
    BY <1>3, <1>4 DEF ProactiveLocks

-----------------------------------------------------------------------------
(***************************************************************************)
(* Starting and stopping                                                   *)
(***************************************************************************)

\* start has logged in for good and launches the WebSocket loop.
LEMMA LaunchInv ==
    ASSUME SessionInv, pc[Start] \in {"boot", "bootAgain"},
           Heard(Start), Answer(Start) = "ok", Install(Start), Launch, Hang(Start),
           UNCHANGED <<password, lock, used, hub, lost, history>>
    PROVE  SessionInv'
  <1>1. /\ Start \in Tasks /\ Ws \in Tasks /\ Start # Ws /\ Types /\ Flags /\ TokenInv
        /\ lock # Start /\ pc[Ws] = "off" /\ lock # Ws
        /\ {"ready", "connect"} \subseteq PC
    BY Constants DEF SessionInv, LockInv, Locked, PC
  <1>2. UNCHANGED <<password, lock, used, issued, status, secret, first, lost, done, renewals>>
    BY DEF hub, history
  <1>3. /\ pc' \in [Tasks -> PC] /\ pc'[Start] = "ready" /\ pc'[Ws] = "connect"
        /\ \A b \in Tasks \ {Start, Ws} : pc'[b] = pc[b]
        /\ running' = TRUE
    BY <1>1 DEF Launch, Types
  <1>4. /\ net'[Start].new = 0 /\ net'[Start].st # "answered"
        /\ net' \in [Tasks -> Message]
        /\ \A b \in Tasks \ {Start} : net'[b] = net[b]
    BY <1>1, HangIs
  <1>5. token' \in 0..MaxToken /\ token' = net[Start].new /\ near' \in BOOLEAN
    BY <1>1, InstallIs
  <1>6. Types'
    BY <1>1, <1>2, <1>3, <1>4, <1>5 DEF Types
  <1>7. Flags'
    BY <1>3, <1>5 DEF Flags
  <1>8. TokenInv'
    BY <1>1, <1>2, <1>4, <1>5, <1>6, Installed
  <1>9. LockInv'
    BY <1>1, <1>2, <1>3, Constants DEF SessionInv, LockInv, Locked
  <1>10. DoneInv'
    BY <1>2, <1>3, Constants DEF SessionInv, DoneInv, Trying
  <1>11. SecondInv'
    BY <1>2, <1>3, <1>4, Constants DEF SessionInv, SecondInv
  <1> QED
    BY <1>6, <1>7, <1>8, <1>9, <1>10, <1>11 DEF SessionInv

\* start fails, or changes the first password.
LEMMA BootMoves ==
    ASSUME SessionInv, pc[Start] \in {"boot", "bootAgain"}, Only(Start),
           pc'[Start] \in {"failed", "first"}, pc'[Start] = "first" => pc[Start] = "boot",
           \/ UNCHANGED <<token, near, used>>
           \/ /\ Heard(Start) /\ Answer(Start) = "ok" /\ Install(Start)
              /\ used'[Start] \in {used[Start], token'},
           net'[Start].new = 0, net'[Start].st # "answered",
           pc' \in [Tasks -> PC], net' \in [Tasks -> Message],
           used' \in [Tasks -> 0..MaxToken],
           UNCHANGED <<password, running, lock, hub, lost, history>>
    PROVE  SessionInv'
  <1>1. /\ Start \in Tasks /\ Types /\ Flags /\ TokenInv /\ lock # Start
    BY Constants DEF SessionInv, LockInv, Locked
  <1>2. UNCHANGED <<password, running, lock, issued, status, secret, first, lost, done,
                    renewals>>
    BY DEF hub, history
  <1>3. token' \in 0..MaxToken /\ near' \in BOOLEAN
    BY <1>1, InstallIs DEF Types, Flags
  <1>4. Types' /\ Flags'
    BY <1>1, <1>2, <1>3 DEF Types, Flags
  <1>5. TokenInv'
    <2>1. CASE UNCHANGED <<token, near, used>>
      BY <1>1, <1>2, <1>4, <2>1, NoInstall DEF Only
    <2>2. CASE /\ Heard(Start) /\ Answer(Start) = "ok" /\ Install(Start)
               /\ used'[Start] \in {used[Start], token'}
      BY <1>1, <1>2, <1>4, <2>2, Installed, InstallIs DEF Only
    <2> QED
      BY <2>1, <2>2
  <1>6. OwnStep(Start)
    BY <1>1, <1>2 DEF OwnStep, Locked, Trying
  <1> QED
    BY <1>1, <1>4, <1>5, <1>6, StepOfOne

LEMMA BootInv ==
    ASSUME SessionInv, BootLogin \/ BootLoginAgain
    PROVE  SessionInv'
  <1>1. /\ Start \in Tasks /\ Types /\ {"failed", "first"} \subseteq PC /\ "change" \in Kinds
        /\ net[Start].new \in 0..MaxToken /\ used \in [Tasks -> 0..MaxToken]
        /\ pc[Start] \in {"boot", "bootAgain"} /\ Heard(Start)
        /\ UNCHANGED <<password, lock, hub, lost, history>>
    BY Constants DEF SessionInv, PC, Kinds, Types, Message, BootLogin, BootLoginAgain
  <1>2. CASE /\ pc[Start] = "boot" /\ Answer(Start) = "ok"
             /\ Install(Start) /\ used' = [used EXCEPT ![Start] = net[Start].new]
             /\ Goto(Start, "first") /\ Ask(Start, "change", net[Start].new)
             /\ UNCHANGED running
    <2>1. /\ pc'[Start] = "first" /\ net'[Start].new = 0 /\ net'[Start].st # "answered"
          /\ pc' \in [Tasks -> PC] /\ net' \in [Tasks -> Message]
          /\ \A b \in Tasks \ {Start} : pc'[b] = pc[b] /\ net'[b] = net[b]
      BY <1>1, <1>2, AskAt
    <2>2. /\ used'[Start] = token' /\ used' \in [Tasks -> 0..MaxToken] /\ Only(Start)
      BY <1>1, <1>2, <2>1 DEF Only, Install
    <2> QED
      BY <1>1, <1>2, <2>1, <2>2, BootMoves
  <1>3. CASE Answer(Start) = "ok" /\ Install(Start) /\ Launch /\ Hang(Start) /\ UNCHANGED used
    BY <1>1, <1>3, LaunchInv
  <1>4. CASE /\ \/ Answer(Start) = "ok" /\ Install(Start)
                \/ UNCHANGED session
             /\ Goto(Start, "failed") /\ Hang(Start) /\ UNCHANGED <<running, used>>
    <2>1. /\ pc'[Start] = "failed" /\ net'[Start].new = 0 /\ net'[Start].st # "answered"
          /\ pc' \in [Tasks -> PC] /\ net' \in [Tasks -> Message]
          /\ \A b \in Tasks \ {Start} : pc'[b] = pc[b] /\ net'[b] = net[b]
      BY <1>1, <1>4, HangAt
    <2> QED
      BY <1>1, <1>4, <2>1, BootMoves DEF Only, session
  <1> QED
    BY <1>1, <1>2, <1>3, <1>4 DEF BootLogin, BootLoginAgain

LEMMA ReadyInv ==
    ASSUME SessionInv, Ready
    PROVE  SessionInv'
  <1>1. /\ Start \in Tasks /\ Proactive \in Tasks /\ Start # Proactive
        /\ Types /\ Flags /\ TokenInv
        /\ pc[Start] = "ready" /\ pc[Proactive] = "off"
        /\ {"started", "napping", "failed"} \subseteq PC
    BY Constants DEF SessionInv, LockInv, PC, Ready
  <1>2. UNCHANGED <<token, near, password, running, lock, used, net, issued, status, secret,
                    first, lost, done, renewals>>
    BY DEF Ready, session, hub, history
  <1>3. /\ pc' \in [Tasks -> PC] /\ pc'[Start] \in {"started", "failed"}
        /\ pc'[Proactive] \in {"napping", pc[Proactive]}
        /\ \A b \in Tasks \ {Start, Proactive} : pc'[b] = pc[b]
    BY <1>1 DEF Ready, Goto, Types
  <1>4. Types' /\ Flags'
    BY <1>1, <1>2, <1>3 DEF Types, Flags
  <1>5. TokenInv'
    BY <1>1, <1>2, <1>4, NoInstall
  <1>6. LockInv'
    BY <1>1, <1>2, <1>3, Constants DEF SessionInv, LockInv, Locked
  <1>7. DoneInv'
    BY <1>1, <1>2, <1>3, Constants DEF SessionInv, DoneInv, Trying
  <1>8. SecondInv'
    BY <1>1, <1>2, <1>3, Constants DEF SessionInv, SecondInv
  <1> QED
    BY <1>4, <1>5, <1>6, <1>7, <1>8 DEF SessionInv

LEMMA StopInv ==
    ASSUME SessionInv, Stop
    PROVE  SessionInv'
  <1>1. /\ {Start, Ws, Proactive} \subseteq Tasks /\ Start # Ws /\ Start # Proactive
        /\ Types /\ Flags /\ TokenInv /\ NoTask \notin Tasks
        /\ pc[Start] \in {"started", "failed"} /\ "cancelled" \in PC /\ 0 \in 0..MaxToken
    BY Constants DEF SessionInv, PC, Stop
  <1>2. UNCHANGED <<token, near, password, issued, status, secret, first, lost, done, renewals>>
    BY DEF Stop, session, hub, history
  <1>3. /\ pc' \in [Tasks -> PC] /\ pc'[Ws] = "cancelled" /\ pc'[Proactive] = "cancelled"
        /\ \A b \in Tasks \ {Ws, Proactive} : pc'[b] = pc[b]
    BY <1>1 DEF Stop, Types
  <1>4. /\ used' \in [Tasks -> 0..MaxToken] /\ \A b \in Tasks : used'[b] \in {used[b], 0}
        /\ \A b \in Tasks \ {Ws, Proactive} : used'[b] = used[b]
    BY <1>1 DEF Stop, Types
  <1>5. /\ net' \in [Tasks -> Message]
        /\ \A b \in Tasks : net'[b] = net[b] \/ net'[b] = Silence
        /\ \A b \in Tasks \ {Ws, Proactive} : net'[b] = net[b]
    BY Messages DEF Stop, SessionInv, Types
  <1>6. /\ lock' = IF lock \in {Ws, Proactive} THEN NoTask ELSE lock
        /\ running' = FALSE
    BY DEF Stop
  <1>7. Types'
    BY <1>1, <1>2, <1>3, <1>4, <1>5, <1>6 DEF Types
  <1>8. Flags'
    BY <1>1, <1>2, <1>6 DEF Flags
  <1>9. TokenInv'
    <2>1. \A b \in Tasks : \/ net'[b].new = 0 /\ net'[b].st # "answered"
                           \/ net'[b] = net[b]
      BY <1>5, Messages
    <2>2. \A b \in Tasks : lock' = b => lock = b /\ used'[b] = used[b]
      BY <1>1, <1>4, <1>6
    <2> QED
      BY <1>1, <1>2, <1>4, <1>7, <2>1, <2>2, NoInstall
  <1>10. LockInv'
    BY <1>1, <1>3, <1>6 DEF SessionInv, LockInv, Locked
  <1>11. DoneInv'
    BY <1>2, <1>3, Constants DEF SessionInv, DoneInv, Trying
  <1>12. SecondInv'
    BY <1>3, <1>4, <1>5, Constants DEF SessionInv, SecondInv
  <1> QED
    BY <1>7, <1>8, <1>9, <1>10, <1>11, <1>12 DEF SessionInv

-----------------------------------------------------------------------------
(***************************************************************************)
(* The hub and the wire                                                    *)
(***************************************************************************)

\* Whatever the hub answers to a refresh or a login concerns no place, no lock
\* and no request.
LEMMA HubInv ==
    ASSUME SessionInv, NEW a \in Tasks, HubServes(a) \/ Lose(a)
    PROVE  SessionInv'
  <1>1. Types /\ Flags /\ TokenInv
    BY DEF SessionInv
  <1>2. UNCHANGED <<token, near, password, running, lock, pc, used, secret, first,
                    done, renewals>>
    BY DEF HubServes, HubIssues, HubRefuses, Lose, local, session, hub, history
  <1>3. \/ HubIssues(a)
        \/ (Reply(a, "denied", 0) \/ Reply(a, "lost", 0)) /\ UNCHANGED hub
    BY DEF HubServes, HubRefuses, Lose
  <1>4. /\ net' \in [Tasks -> Message] /\ net'[a].tok = net[a].tok
        /\ net[a].st # "none"
        /\ \A b \in Tasks \ {a} : net'[b] = net[b]
        /\ HubIssues(a) \/ (net'[a].new = 0 /\ net'[a].code # "ok")
    <2>1. /\ {"ok", "denied", "lost"} \subseteq Codes /\ 0 \in 0..MaxToken
      BY Constants DEF Codes
    <2>2. HubIssues(a) => issued + 1 \in 0..MaxToken /\ Reply(a, "ok", issued + 1)
      BY <1>1, Constants DEF HubIssues, Types
    <2>3. net[a].st # "none"
      BY DEF HubServes, HubIssues, HubRefuses, Lose
    <2> QED
      BY <1>1, <1>3, <2>1, <2>2, <2>3, ReplyIs
  <1>5. issued' \in 0..MaxToken
    <2>1. issued \in 0..MaxToken /\ MaxToken \in Nat
      BY <1>1, Constants DEF Types
    <2>2. issued' = issued \/ (issued < MaxToken /\ issued' = issued + 1)
      BY <1>3 DEF HubIssues, hub
    <2> QED
      BY <2>1, <2>2
  <1>6. status' \in [Tokens -> {"live", "expired", "revoked"}]
    BY <1>1, <1>3 DEF HubIssues, Types, hub
  <1>7. lost' \in 0..MaxLost
    <2>1. lost \in 0..MaxLost /\ MaxLost \in Nat
      BY <1>1, Constants DEF Types
    <2>2. lost' = lost \/ (lost < MaxLost /\ lost' = lost + 1)
      BY DEF HubServes, HubIssues, HubRefuses, Lose
    <2> QED
      BY <2>1, <2>2
  <1>8. Types' /\ Flags'
    BY <1>1, <1>2, <1>4, <1>5, <1>6, <1>7 DEF Types, Flags
  <1>9. TokenInv'
    <2>1. CASE HubIssues(a)
      BY <1>1, <2>1, Issued
    <2>2. CASE ~HubIssues(a)
      BY <1>1, <1>2, <1>3, <1>4, <1>8, <2>2, NoInstall DEF hub
    <2> QED
      BY <2>1, <2>2
  <1>10. LockInv' /\ DoneInv'
    BY <1>2 DEF SessionInv, LockInv, DoneInv
  <1>11. SecondInv'
    BY <1>2, <1>4, Constants DEF SessionInv, SecondInv
  <1> QED
    BY <1>8, <1>9, <1>10, <1>11 DEF SessionInv

LEMMA ExpireInv ==
    ASSUME SessionInv, Expire
    PROVE  SessionInv'
  <1>1. Types /\ Flags /\ TokenInv
    BY DEF SessionInv
  <1>2. UNCHANGED <<token, password, running, lock, pc, used, issued, secret, first, net,
                    lost, done, renewals>>
    BY DEF Expire, history
  <1>3. near' \in BOOLEAN /\ status' \in [Tokens -> {"live", "expired", "revoked"}]
    BY <1>1 DEF Expire, Types, Flags
  <1>4. Types' /\ Flags'
    BY <1>1, <1>2, <1>3 DEF Types, Flags
  <1>5. TokenInv'
    BY <1>1, <1>2, <1>4, NoInstall
  <1> QED
    BY <1>2, <1>4, <1>5 DEF SessionInv, LockInv, DoneInv, SecondInv

-----------------------------------------------------------------------------
(***************************************************************************)
(* The theorems                                                            *)
(***************************************************************************)

LEMMA InitInv == Init => SessionInv
  <1> SUFFICES ASSUME Init PROVE SessionInv
    OBVIOUS
  <1>1. /\ 0 \in 0..MaxToken /\ 0 \in 0..MaxLost /\ "login" \in Kinds
        /\ {"boot", "idle", "off"} \subseteq PC /\ NoTask \notin Tasks /\ Start \in Tasks
    BY Constants DEF Kinds, PC
  <1>2. /\ net \in [Tasks -> Message]
        /\ \A a \in Tasks : net[a].new = 0 /\ net[a].st # "answered"
    BY <1>1, Messages DEF Init
  <1>3. pc \in [Tasks -> PC] /\ \A a \in Tasks : pc[a] \in {"boot", "idle", "off"}
    BY <1>1 DEF Init
  <1>4. Types
    BY <1>1, <1>2, <1>3 DEF Init, Types
  <1>5. Flags
    BY DEF Init, Flags
  <1>6. LockInv
    BY <1>1, <1>3, Constants, SessionAssumption DEF Init, LockInv, Locked
  <1>7. DoneInv
    BY DEF Init, DoneInv
  <1>8. TokenInv
    BY <1>1, <1>2, Constants DEF Init, TokenInv, Heard, Tokens
  <1>9. SecondInv
    BY <1>3, Constants DEF SecondInv
  <1> QED
    BY <1>4, <1>5, <1>6, <1>7, <1>8, <1>9 DEF SessionInv

LEMMA StepInv == SessionInv /\ [Next]_vars => SessionInv'
  <1> SUFFICES ASSUME SessionInv, [Next]_vars PROVE SessionInv'
    OBVIOUS
  <1>1. CASE UNCHANGED vars
    <2>1. UNCHANGED <<token, near, password, running, lock, pc, used, issued, status, secret,
                      first, net, lost, done, renewals>>
      BY <1>1 DEF vars, local, session, hub, history
    <2>2. Types' /\ Flags' /\ LockInv' /\ DoneInv' /\ SecondInv'
      BY <2>1 DEF SessionInv, Types, Flags, LockInv, DoneInv, SecondInv
    <2>3. TokenInv'
      BY <2>1, <2>2, NoInstall DEF SessionInv
    <2> QED
      BY <2>2, <2>3 DEF SessionInv
  <1>2. ASSUME NEW a \in Callers, CallerSteps(a) \/ Recover(a) PROVE SessionInv'
    BY <1>2, FirstAnswerInv, HolderInv, SecondAnswerInv, RecoverInv DEF CallerSteps
  <1>3. CASE StartSteps \/ Stop \/ Expire
    BY <1>3, BootInv, ReadyInv, StopInv, ExpireInv DEF StartSteps
  <1>4. CASE WsSteps \/ ProactiveSteps \/ ProactiveLocks
    BY <1>4, WsInv, ProactiveWakesInv, ProactiveHolderInv, ProactiveLocksInv
    DEF ProactiveSteps
  <1>5. ASSUME NEW a \in Tasks, HubServes(a) \/ Lose(a) PROVE SessionInv'
    BY <1>5, HubInv
  <1>6. ASSUME NEW r \in Requests, Begin(r) PROVE SessionInv'
    BY <1>6, BeginInv
  <1> QED
    BY <1>1, <1>2, <1>3, <1>4, <1>5, <1>6 DEF Next

LEMMA InvHolds == Spec => []SessionInv
  BY InitInv, StepInv, PTL DEF Spec

\* Every variable has its type, and the lock is held exactly by the task that is
\* between taking and releasing it, whatever fails and whoever is cancelled there
\* (_recover_session, _proactive_refresh_loop, stop).
THEOREM TypeCorrect == Spec => []TypeOK
  <1>1. SessionInv => TypeOK
    BY DEF SessionInv, Types, Flags, LockInv, TypeOK
  <1> QED
    BY <1>1, InvHolds, PTL

\* However many requests fail with one token, and whatever the two loops do in
\* between, the holders of the lock renew the session once for it
\* (_recover_session's look at the token).
THEOREM RenewedOnce == Spec => []OneRenewal
  <1>1. SessionInv => OneRenewal
    BY DEF SessionInv, TokenInv, OneRenewal
  <1> QED
    BY <1>1, InvHolds, PTL

\* The hub carries no request out twice, and a second try never goes out with the
\* token that was refused (AgoraSession._req).
THEOREM RetriesAreSound == Spec => []RetriesSound
  <1>1. SessionInv => RetriesSound
    BY DEF SessionInv, DoneInv, SecondInv, RetriesSound
  <1> QED
    BY <1>1, InvHolds, PTL
-----------------------------------------------------------------------------
(***************************************************************************)
(* The credentials                                                         *)
(***************************************************************************)

Waiting == {"boot", "bootAgain", "refresh", "relogin", "ownRefresh", "ownLogin",
            "keepRefresh", "keepLogin"}
Renewing(a) == net[a].st # "none" /\ net[a].kind \in {"refresh", "login"}

\* A refresh or a login is out only for a task that waits for it, or was cancelled
\* while it did; a task that waits for an ordinary answer has asked its own request.
PlaceInv ==
    /\ \A a \in Tasks : Renewing(a) => pc[a] \in Waiting \cup {"cancelled"}
    /\ \A a \in Callers : pc[a] \in {"first", "second"} => net[a].kind = CallKind(a)
    /\ \A a \in Tasks : pc[a] = "cancelled" => ~running /\ a \in {Ws, Proactive}

\* The answer that carries the successor of t.
Succeeds(a, t) ==
    Heard(a) /\ Answer(a) = "ok" /\ net[a].kind = "refresh" /\ net[a].tok = t

\* The hub has rotated away neither a token that it has not issued nor one that is
\* still on its way, for nobody has asked it to; and the token in use only for an
\* answer that is.
RotationInv ==
    /\ \A a \in Tasks : net[a].tok <= issued
    /\ \A t \in Tokens : t > issued => status[t] # "revoked"
    /\ \A a \in Tasks : net[a].new # 0 =>
         status[net[a].new] # "revoked" /\ \A b \in Tasks : net[b].tok # net[a].new
    /\ Revoked(token) /\ lost = 0 /\ running => \E a \in Tasks : Succeeds(a, token)

PasswordInv == password # secret => lost > 0

CredentialInv == PlaceInv /\ RotationInv /\ PasswordInv

\* What a task that takes a step does about messages: it asks or hangs up, and
\* keeps an outstanding request only where it waits for none of its own.
TurnTo(a, p) ==
    /\ Goto(a, p)
    /\ \/ Hang(a) /\ p \notin {"first", "second"}
       \/ p \in Waiting /\ \E k \in {"refresh", "login"}, t \in {0, token'} : Ask(a, k, t)
       \/ p \in {"first", "second"} /\ Ask(a, CallKind(a), token')
       \/ /\ UNCHANGED <<net, token>>
          /\ pc[a] \notin Waiting \cup {"cancelled"} /\ p \notin {"first", "second"}
Turn(a) == \E p \in PC \ {"cancelled"} : TurnTo(a, p)

\* It puts the token it was sent in use, or it was sent none.
Installs(a) == Heard(a) /\ Answer(a) = "ok" /\ token' = net[a].new
Passes(a) == UNCHANGED token /\ (pc[a] \notin Waiting \/ Answer(a) # "ok")

LEMMA TurnIs ==
    ASSUME Types, Types', NEW a \in Tasks, Turn(a)
    PROVE  /\ \A b \in Tasks \ {a} : pc'[b] = pc[b] /\ net'[b] = net[b]
           /\ pc'[a] # "cancelled"
           /\ pc'[a] \in {"first", "second"} => net'[a].kind = CallKind(a)
           /\ \/ /\ net'[a] = net[a] /\ UNCHANGED token
                 /\ pc[a] \notin Waiting \cup {"cancelled"}
              \/ /\ net'[a].new = 0 /\ net'[a].tok \in {0, token'}
                 /\ Renewing(a)' => pc'[a] \in Waiting
  <1>1. PICK p \in PC \ {"cancelled"} : TurnTo(a, p)
    BY DEF Turn
  <1>2. /\ pc'[a] = p /\ \A b \in Tasks \ {a} : pc'[b] = pc[b]
    BY <1>1, GotoIs DEF TurnTo
  <1>3. /\ token' \in 0..MaxToken /\ 0 \in 0..MaxToken /\ {"refresh", "login"} \subseteq Kinds
        /\ CallKind(a) \in Kinds /\ CallKind(a) \notin {"refresh", "login"}
    BY Constants DEF Types, Kinds, CallKind
  <1>4. ASSUME NEW k \in Kinds, NEW t \in 0..MaxToken, Ask(a, k, t)
        PROVE  /\ net'[a].new = 0 /\ net'[a].tok = t /\ net'[a].kind = k
               /\ \A b \in Tasks \ {a} : net'[b] = net[b]
    BY <1>4, AskIs, Messages
  <1>5. CASE Hang(a) /\ p \notin {"first", "second"}
    <2>1. /\ net'[a] = Silence /\ \A b \in Tasks \ {a} : net'[b] = net[b]
      BY <1>5, HangIs
    <2>2. net'[a].new = 0 /\ net'[a].tok = 0 /\ net'[a].st = "none"
      BY <2>1 DEF Silence
    <2> QED
      BY <1>2, <1>5, <2>1, <2>2 DEF Renewing
  <1>6. CASE p \in Waiting /\ \E k \in {"refresh", "login"}, t \in {0, token'} : Ask(a, k, t)
    <2>1. PICK k \in {"refresh", "login"}, t \in {0, token'} : Ask(a, k, t)
      BY <1>6
    <2>2. /\ net'[a].new = 0 /\ net'[a].tok = t
          /\ \A b \in Tasks \ {a} : net'[b] = net[b]
      BY <1>3, <1>4, <2>1
    <2> QED
      BY <1>2, <1>6, <2>2 DEF Waiting
  <1>7. CASE p \in {"first", "second"} /\ Ask(a, CallKind(a), token')
    BY <1>2, <1>3, <1>4, <1>7 DEF Renewing
  <1>8. CASE /\ UNCHANGED <<net, token>>
             /\ pc[a] \notin Waiting \cup {"cancelled"} /\ p \notin {"first", "second"}
    BY <1>2, <1>8
  <1> QED
    BY <1>1, <1>5, <1>6, <1>7, <1>8 DEF TurnTo

\* A token that arrives has been neither asked about nor rotated away, so that
\* putting it in use leaves nothing to succeed.
LEMMA RotationKept ==
    ASSUME SessionInv, Types', PlaceInv, RotationInv, NEW a \in Tasks,
           UNCHANGED <<issued, status>>, lost' = 0 => lost = 0,
           \A b \in Tasks \ {a} : net'[b] = net[b],
           \/ net'[a] = net[a] /\ UNCHANGED token
           \/ net'[a].new = 0 /\ net'[a].tok \in {0, token'},
           \/ Installs(a)
           \/ UNCHANGED <<token, running>> /\ (net'[a] = net[a] \/ Passes(a))
    PROVE  RotationInv'
  <1>1. /\ Types /\ TokenInv
        /\ token \in 0..MaxToken /\ issued \in 0..MaxToken /\ MaxToken \in Nat
        /\ \A b \in Tasks : net[b].new \in 0..MaxToken /\ net[b].tok \in 0..MaxToken
    BY Constants DEF SessionInv, Types, Message
  <1>2. \/ Installs(a) /\ token' = net[a].new /\ net[a].new # 0
        \/ token' = token
    BY <1>1 DEF Installs, TokenInv
  <1>3. token' <= issued /\ token' \in 0..MaxToken
    BY <1>1, <1>2 DEF TokenInv
  <1>4. \A b \in Tasks : net'[b].tok <= issued'
    BY <1>1, <1>3 DEF RotationInv
  <1>5. \A t \in Tokens : t > issued' => status'[t] # "revoked"
    BY DEF RotationInv
  <1>6. ASSUME NEW b \in Tasks, net'[b].new # 0
        PROVE  status'[net'[b].new] # "revoked" /\ \A c \in Tasks : net'[c].tok # net'[b].new
    <2>1. net'[b].new = net[b].new /\ net[b].new # 0
      BY <1>6
    <2>2. status[net[b].new] # "revoked" /\ \A c \in Tasks : net[c].tok # net[b].new
      BY <2>1 DEF RotationInv
    <2>3. token' # net[b].new
      <3>1. CASE token' = token
        BY <1>1, <2>1, <3>1 DEF TokenInv
      <3>2. CASE Installs(a) /\ token' = net[a].new /\ b # a
        BY <1>1, <2>1, <3>2 DEF TokenInv
      <3>3. CASE token' = net[a].new /\ b = a /\ token' # token
        BY <1>6, <2>1, <3>3
      <3> QED
        BY <1>2, <3>1, <3>2, <3>3
    <2> QED
      BY <2>1, <2>2, <2>3
  <1>7. ASSUME Revoked(token)', lost' = 0, running'
        PROVE  \E b \in Tasks : Succeeds(b, token)'
    <2>1. CASE Installs(a) /\ token' = net[a].new /\ net[a].new # 0
      <3>1. status[net[a].new] # "revoked"
        BY <2>1 DEF RotationInv
      <3> QED
        BY <1>7, <2>1, <3>1 DEF Revoked
    <2>2. CASE UNCHANGED <<token, running>> /\ (net'[a] = net[a] \/ Passes(a))
      <3>1. PICK b \in Tasks : Succeeds(b, token)
        BY <1>7, <2>2 DEF RotationInv, Revoked
      <3>2. CASE net'[b] = net[b]
        BY <2>2, <3>1, <3>2 DEF Succeeds, Heard, Answer
      <3>3. CASE b = a /\ Passes(a)
        <4>1. Renewing(a) /\ Answer(a) = "ok" /\ pc[a] # "cancelled"
          BY <1>7, <2>2, <3>1, <3>3 DEF Succeeds, Heard, Renewing, PlaceInv
        <4> QED
          BY <3>3, <4>1 DEF Passes, PlaceInv
      <3> QED
        BY <2>2, <3>2, <3>3
    <2>3. Installs(a) => token' = net[a].new /\ net[a].new # 0
      BY <1>1 DEF Installs, TokenInv
    <2> QED
      BY <2>1, <2>2, <2>3
  <1> QED
    BY <1>4, <1>5, <1>6, <1>7 DEF RotationInv

\* A step of one task that starts or stops no other.
LEMMA TurnKeeps ==
    ASSUME SessionInv, Types', PlaceInv, RotationInv, NEW a \in Tasks, Turn(a),
           UNCHANGED <<issued, status, running>>, lost' = 0 => lost = 0,
           Installs(a) \/ Passes(a)
    PROVE  PlaceInv' /\ RotationInv'
  <1>1. /\ \A b \in Tasks \ {a} : pc'[b] = pc[b] /\ net'[b] = net[b]
        /\ pc'[a] # "cancelled"
        /\ pc'[a] \in {"first", "second"} => net'[a].kind = CallKind(a)
        /\ \/ /\ net'[a] = net[a] /\ UNCHANGED token
              /\ pc[a] \notin Waiting \cup {"cancelled"}
           \/ /\ net'[a].new = 0 /\ net'[a].tok \in {0, token'}
              /\ Renewing(a)' => pc'[a] \in Waiting
    BY TurnIs DEF SessionInv
  <1>2. RotationInv'
    BY <1>1, RotationKept DEF Passes
  <1>3. \A b \in Tasks : Renewing(b)' => pc'[b] \in Waiting \cup {"cancelled"}
    BY <1>1 DEF PlaceInv, Renewing
  <1>4. \A b \in Callers : pc'[b] \in {"first", "second"} => net'[b].kind = CallKind(b)
    BY <1>1, Constants DEF PlaceInv
  <1>5. \A b \in Tasks : pc'[b] = "cancelled" => ~running' /\ b \in {Ws, Proactive}
    BY <1>1 DEF PlaceInv
  <1> QED
    BY <1>2, <1>3, <1>4, <1>5 DEF PlaceInv, CallKind

-----------------------------------------------------------------------------
(***************************************************************************)
(* Each step of a task is a turn                                           *)
(***************************************************************************)

\* What TurnKeeps asks of a step of task a.
Proper(a) ==
    /\ Turn(a) /\ (Installs(a) \/ Passes(a))
    /\ UNCHANGED <<issued, status, running>> /\ (lost' = 0 => lost = 0)
    /\ UNCHANGED <<password, secret>> \/ (password' = secret' \/ lost' > 0)

Places == {"first", "second"}

LEMMA TurnAt ==
    ASSUME NEW a, NEW p \in PC \ {"cancelled"}, TurnTo(a, p)
    PROVE  Turn(a)
  BY DEF Turn

\* A recovering request that returns, unless it is one that a first password was
\* changed for.
LEMMA ReturnTurns ==
    ASSUME Types, NEW a \in Callers, NEW c \in Codes, Return(a, c), UNCHANGED token
    PROVE  /\ Turn(a)
           /\ UNCHANGED password \/ (a = Start /\ c = "ok" /\ password' = "new")
  <1>1. \/ a \in Requests /\ Goto(a, "done") /\ Hang(a) /\ UNCHANGED password
        \/ /\ a = Start /\ c = "ok" /\ password' = "new"
           /\ Goto(a, "bootAgain") /\ Ask(a, "login", 0)
        \/ a = Start /\ Goto(a, "failed") /\ Hang(a) /\ UNCHANGED password
        \/ a = Ws /\ Goto(a, "asleep") /\ Hang(a) /\ UNCHANGED password
        \/ a = Ws /\ Goto(a, "ownRefresh") /\ Ask(a, "refresh", token) /\ UNCHANGED password
        \/ a = Ws /\ Goto(a, "dead") /\ Hang(a) /\ UNCHANGED password
    BY DEF Return, Onward
  <1>2. \E p \in {"done", "bootAgain", "failed", "asleep", "ownRefresh", "dead"} : TurnTo(a, p)
    BY <1>1 DEF TurnTo, Waiting
  <1> QED
    BY <1>1, <1>2, TurnAt DEF PC

\* What the hub makes of a request shows in the credentials only if it is a change of
\* password.
LEMMA OutcomePassword ==
    ASSUME SessionInv, PlaceInv, NEW a \in Callers, pc[a] \in Places, NEW c \in Codes,
           Outcome(a, c), UNCHANGED password \/ (a = Start /\ c = "ok" /\ password' = "new"),
           a = Start /\ c = "ok" => password' = "new"
    PROVE  /\ lost' = 0 => lost = 0
           /\ UNCHANGED <<password, secret>> \/ (password' = secret' \/ lost' > 0)
  <1>1. lost \in Nat /\ net[a].kind = CallKind(a)
    BY Constants DEF SessionInv, Types, PlaceInv, Places
  <1>2. CarryOut(a) => secret' = IF a = Start THEN "new" ELSE secret
    BY <1>1 DEF CarryOut, CallKind
  <1> QED
    BY <1>1, <1>2 DEF Outcome, Codes

LEMMA CallerTurns ==
    ASSUME SessionInv, PlaceInv, NEW a \in Callers, CallerSteps(a) \/ Recover(a)
    PROVE  Proper(a)
  <1>1. Types /\ a \in Tasks /\ lost \in Nat
    BY Constants DEF SessionInv, Types
  <1>2. ASSUME pc[a] \in Places, NEW c \in Codes, Outcome(a, c), Return(a, c),
               UNCHANGED <<session, running, lock>>
        PROVE  Proper(a)
    <2>1. UNCHANGED <<token, issued, status, running>>
      BY <1>2 DEF session, Outcome
    <2>2. /\ Turn(a)
          /\ UNCHANGED password \/ (a = Start /\ c = "ok" /\ password' = "new")
      BY <1>1, <1>2, <2>1, ReturnTurns
    <2>3. a = Start /\ c = "ok" => password' = "new"
      BY <1>2, Constants DEF Return, Onward
    <2>4. /\ lost' = 0 => lost = 0
          /\ UNCHANGED <<password, secret>> \/ (password' = secret' \/ lost' > 0)
      BY <1>2, <2>2, <2>3, OutcomePassword
    <2> QED
      BY <1>2, <2>1, <2>2, <2>4 DEF Proper, Passes, Places, Waiting
  <1>3. ASSUME pc[a] = "first", NEW c \in Codes, Outcome(a, c), c = "auth",
               Goto(a, "lock"), Hang(a), UNCHANGED password,
               UNCHANGED <<session, running, lock>>
        PROVE  Proper(a)
    <2>1. TurnTo(a, "lock") /\ "lock" \in PC \ {"cancelled"}
      BY <1>3 DEF TurnTo, PC
    <2>2. /\ lost' = 0 => lost = 0
          /\ UNCHANGED <<password, secret>> \/ (password' = secret' \/ lost' > 0)
      BY <1>3, OutcomePassword DEF Places
    <2> QED
      BY <1>3, <2>1, <2>2, TurnAt DEF Proper, Passes, Waiting, Outcome, session
  <1>4. CASE FirstAnswer(a)
    BY <1>2, <1>3, <1>4 DEF FirstAnswer, Places
  <1>5. CASE SecondAnswer(a)
    BY <1>2, <1>5 DEF SecondAnswer, Places
  <1>6. CASE Recover(a)
    <2>1. TurnTo(a, "second") \/ TurnTo(a, "refresh")
      BY <1>6 DEF Recover, TurnTo, Waiting, session
    <2> QED
      BY <1>6, <2>1, TurnAt DEF Recover, Proper, Passes, Waiting, PC, Locked, session, hub
  <1>7. CASE Refreshed(a) \/ LoggedIn(a)
    <2>1. /\ Heard(a) /\ Answer(a) \in Codes
          /\ UNCHANGED <<issued, status, secret, running, lost>>
      BY <1>1, <1>7 DEF Refreshed, LoggedIn, hub, Types, Message, Answer
    <2>2. CASE /\ Answer(a) = "ok" /\ Renew(a) /\ UNCHANGED password
               /\ Goto(a, "second") /\ Ask(a, CallKind(a), token')
      <3>1. TurnTo(a, "second") /\ Installs(a)
        BY <2>1, <2>2 DEF TurnTo, Installs, Renew, Install
      <3> QED
        BY <2>1, <2>2, <3>1, TurnAt DEF Proper, PC
    <2>3. CASE /\ Answer(a) \in Rejected /\ UNCHANGED <<token, password>>
               /\ Goto(a, "relogin") /\ Ask(a, "login", 0)
      <3>1. TurnTo(a, "relogin")
        BY <2>3 DEF TurnTo, Waiting
      <3> QED
        BY <2>1, <2>3, <3>1, TurnAt DEF Proper, PC, Locked, Passes, Rejected
    <2>4. CASE Answer(a) # "ok" /\ Return(a, Answer(a)) /\ UNCHANGED token
      <3>1. Turn(a) /\ UNCHANGED password
        BY <1>1, <2>1, <2>4, ReturnTurns
      <3> QED
        BY <2>1, <2>4, <3>1 DEF Proper, Passes
    <2> QED
      BY <1>7, <2>2, <2>3, <2>4 DEF Refreshed, LoggedIn, session
  <1> QED
    BY <1>4, <1>5, <1>6, <1>7 DEF CallerSteps

LEMMA BeginTurns ==
    ASSUME NEW r \in Requests, Begin(r)
    PROVE  Proper(r)
  <1>1. /\ pc[r] = "idle" /\ Goto(r, "first") /\ Ask(r, CallKind(r), token)
        /\ UNCHANGED <<token, issued, status, running, lost, password, secret>>
    BY DEF Begin, Send, session, hub
  <1>2. TurnTo(r, "first")
    BY <1>1 DEF TurnTo
  <1> QED
    BY <1>1, <1>2, TurnAt DEF Proper, Passes, Waiting, PC

LEMMA WsTurns ==
    ASSUME Types, WsSteps
    PROVE  Proper(Ws)
  <1>1. lost \in Nat /\ Answer(Ws) \in Codes
    BY Constants DEF Types, Message, Answer
  <1>2. ASSUME pc[Ws] \in {"connect", "open"}, Send(Ws) \/ (Goto(Ws, "open") /\ UNCHANGED net)
                                              \/ (Goto(Ws, "asleep") /\ UNCHANGED net),
               lost' = lost \/ lost' = lost + 1,
               UNCHANGED <<session, password, running, lock, hub, history>>
        PROVE  Proper(Ws)
    <2>1. TurnTo(Ws, "first") \/ TurnTo(Ws, "open") \/ TurnTo(Ws, "asleep")
      BY <1>2 DEF Send, TurnTo, session, Waiting
    <2> QED
      BY <1>1, <1>2, <2>1, TurnAt DEF Proper, Passes, Waiting, PC, session, hub
  <1>3. CASE WsConnect \/ WsCloses
    BY <1>2, <1>3 DEF WsConnect, WsCloses
  <1>4. CASE WsWakes
    <2>1. TurnTo(Ws, "connect")
      BY <1>4 DEF WsWakes, TurnTo, session, Waiting
    <2> QED
      BY <1>4, <2>1, TurnAt DEF WsWakes, Proper, Passes, Waiting, PC, session, hub
  <1>5. CASE WsRefreshed \/ WsLoggedIn
    <2>1. Heard(Ws) /\ UNCHANGED <<issued, status, running, password, secret, lost>>
      BY <1>5 DEF WsRefreshed, WsLoggedIn, hub
    <2>2. \/ Answer(Ws) = "ok" /\ Install(Ws) /\ Goto(Ws, "asleep") /\ Hang(Ws)
          \/ /\ Answer(Ws) # "ok" /\ UNCHANGED token
             /\ \/ Goto(Ws, "asleep") /\ Hang(Ws)
                \/ Goto(Ws, "dead") /\ Hang(Ws)
                \/ Goto(Ws, "ownLogin") /\ Ask(Ws, "login", 0)
      BY <1>5 DEF WsRefreshed, WsLoggedIn, Rejected, session
    <2>3. \E p \in {"asleep", "dead", "ownLogin"} : TurnTo(Ws, p)
      BY <2>2 DEF TurnTo, Waiting
    <2>4. Installs(Ws) \/ Passes(Ws)
      BY <2>1, <2>2 DEF Installs, Passes, Install
    <2> QED
      BY <2>1, <2>3, <2>4, TurnAt DEF Proper, PC
  <1> QED
    BY <1>3, <1>4, <1>5 DEF WsSteps

LEMMA ProactiveTurns ==
    ASSUME ProactiveSteps \/ ProactiveLocks
    PROVE  Proper(Proactive)
  <1>1. CASE ProactiveWakes
    <2>1. TurnTo(Proactive, "keepLock")
      BY <1>1 DEF ProactiveWakes, TurnTo, session, Waiting
    <2> QED
      BY <1>1, <2>1, TurnAt DEF ProactiveWakes, Proper, Passes, Waiting, PC, session, hub
  <1>2. CASE ProactiveLocks
    <2>1. TurnTo(Proactive, "keepRefresh") \/ TurnTo(Proactive, "napping")
      BY <1>2 DEF ProactiveLocks, TurnTo, session, Waiting
    <2> QED
      BY <1>2, <2>1, TurnAt DEF ProactiveLocks, Proper, Passes, Waiting, PC, Locked, session, hub
  <1>3. CASE ProactiveRefreshed \/ ProactiveLoggedIn
    <2>1. Heard(Proactive) /\ UNCHANGED <<issued, status, running, password, secret, lost>>
      BY <1>3 DEF ProactiveRefreshed, ProactiveLoggedIn, hub
    <2>2. \/ /\ Answer(Proactive) = "ok" /\ Renew(Proactive)
             /\ Goto(Proactive, "napping") /\ Hang(Proactive)
          \/ /\ Answer(Proactive) # "ok" /\ UNCHANGED token
             /\ \/ Goto(Proactive, "napping") /\ Hang(Proactive)
                \/ Goto(Proactive, "ended") /\ Hang(Proactive)
                \/ Goto(Proactive, "keepLogin") /\ Ask(Proactive, "login", 0)
      BY <1>3 DEF ProactiveRefreshed, ProactiveLoggedIn, Rejected, session
    <2>3. \E p \in {"napping", "ended", "keepLogin"} : TurnTo(Proactive, p)
      BY <2>2 DEF TurnTo, Waiting
    <2>4. Installs(Proactive) \/ Passes(Proactive)
      BY <2>1, <2>2 DEF Installs, Passes, Renew, Install
    <2> QED
      BY <2>1, <2>3, <2>4, TurnAt DEF Proper, PC, Locked
  <1> QED
    BY <1>1, <1>2, <1>3 DEF ProactiveSteps

\* start, as long as it launches nothing.
LEMMA BootTurns ==
    ASSUME BootLogin \/ BootLoginAgain, ~Launch
    PROVE  Proper(Start)
  <1>1. /\ Heard(Start) /\ UNCHANGED <<issued, status, running, password, secret, lost>>
        /\ \/ Answer(Start) = "ok" /\ Install(Start)
           \/ Answer(Start) # "ok" /\ UNCHANGED token
        /\ \/ /\ Answer(Start) = "ok" /\ Install(Start)
              /\ Goto(Start, "first") /\ Ask(Start, "change", net[Start].new)
           \/ Goto(Start, "failed") /\ Hang(Start)
    <2>1. CASE BootLogin
      BY <2>1 DEF BootLogin, hub, session
    <2>2. CASE BootLoginAgain
      BY <2>2 DEF BootLoginAgain, hub, session
    <2> QED
      BY <2>1, <2>2
  <1>2. TurnTo(Start, "first") \/ TurnTo(Start, "failed")
    BY <1>1 DEF TurnTo, Install, CallKind
  <1> QED
    BY <1>1, <1>2, TurnAt DEF Proper, Installs, Passes, Install, PC

-----------------------------------------------------------------------------
(***************************************************************************)
(* Steps of several tasks, and of the hub                                  *)
(***************************************************************************)

\* start launches the WebSocket loop with the token it has just been sent.
LEMMA LaunchKeeps ==
    ASSUME SessionInv, Types', PlaceInv, RotationInv, BootLogin \/ BootLoginAgain, Launch
    PROVE  PlaceInv' /\ RotationInv' /\ UNCHANGED <<password, secret, lost>>
  <1>1. /\ Types /\ {Start, Ws, Proactive} \subseteq Tasks /\ Start # Ws /\ Start # Proactive
        /\ pc[Start] \in {"boot", "bootAgain"} /\ pc[Ws] = "off" /\ pc[Proactive] = "off"
    BY Constants DEF SessionInv, LockInv, BootLogin, BootLoginAgain
  <1>2. pc' = [pc EXCEPT ![Start] = "ready", ![Ws] = "connect"] /\ running' = TRUE
    BY DEF Launch
  <1>3. /\ pc'[Start] = "ready" /\ pc'[Ws] = "connect"
        /\ \A b \in Tasks \ {Start, Ws} : pc'[b] = pc[b]
    BY <1>1, <1>2 DEF Types
  <1>4. UNCHANGED <<issued, status, password, secret, lost>>
    BY DEF BootLogin, BootLoginAgain, hub
  <1>5. Heard(Start) /\ Answer(Start) = "ok" /\ Install(Start) /\ Hang(Start)
    <2>1. ASSUME NEW p \in {"first", "failed"}, Goto(Start, p)
          PROVE  FALSE
      <3>1. pc'[Start] = p
        BY <1>1, <2>1 DEF Goto, Types
      <3> QED
        BY <1>3, <3>1
    <2>2. CASE BootLogin
      BY <2>1, <2>2 DEF BootLogin
    <2>3. CASE BootLoginAgain
      BY <2>1, <2>3 DEF BootLoginAgain
    <2> QED
      BY <2>2, <2>3
  <1>6. /\ net'[Start] = Silence /\ \A b \in Tasks \ {Start} : net'[b] = net[b]
        /\ Silence.new = 0 /\ Silence.tok = 0 /\ Silence.st = "none"
    BY <1>1, <1>5, HangIs DEF Silence
  <1>7. RotationInv'
    BY <1>1, <1>4, <1>5, <1>6, RotationKept DEF Installs, Install
  <1>8. \A b \in Tasks : Renewing(b)' => pc'[b] \in Waiting \cup {"cancelled"}
    BY <1>1, <1>3, <1>6 DEF PlaceInv, Renewing, Waiting
  <1>9. \A b \in Callers : pc'[b] \in {"first", "second"} => net'[b].kind = CallKind(b)
    BY <1>3, <1>6, Constants DEF PlaceInv
  <1>10. \A b \in Tasks : pc'[b] # "cancelled"
    BY <1>1, <1>3 DEF PlaceInv
  <1> QED
    BY <1>4, <1>7, <1>8, <1>9, <1>10 DEF PlaceInv, CallKind

LEMMA ReadyKeeps ==
    ASSUME SessionInv, Types', PlaceInv, RotationInv, Ready
    PROVE  PlaceInv' /\ RotationInv' /\ UNCHANGED <<password, secret, lost>>
  <1>1. /\ Types /\ {Start, Ws, Proactive} \subseteq Tasks /\ Start # Proactive
        /\ pc[Start] = "ready" /\ pc[Proactive] = "off"
        /\ UNCHANGED <<token, issued, status, running, password, secret, lost, net>>
    BY Constants DEF SessionInv, LockInv, Ready, session, hub
  <1>2. /\ pc'[Start] \in {"started", "failed"}
        /\ pc'[Proactive] \in {"napping", "off"}
        /\ \A b \in Tasks \ {Start, Proactive} : pc'[b] = pc[b]
    BY <1>1 DEF Ready, Goto, Types
  <1>3. RotationInv'
    BY <1>1, RotationKept
  <1>4. \A b \in Tasks : Renewing(b)' => pc'[b] \in Waiting \cup {"cancelled"}
    BY <1>1, <1>2 DEF PlaceInv, Renewing, Waiting
  <1>5. \A b \in Callers : pc'[b] \in {"first", "second"} => net'[b].kind = CallKind(b)
    BY <1>1, <1>2, Constants DEF PlaceInv
  <1>6. \A b \in Tasks : pc'[b] = "cancelled" => ~running' /\ b \in {Ws, Proactive}
    BY <1>1, <1>2 DEF PlaceInv
  <1> QED
    BY <1>1, <1>3, <1>4, <1>5, <1>6 DEF PlaceInv, CallKind

LEMMA StopKeeps ==
    ASSUME SessionInv, PlaceInv, RotationInv, Stop
    PROVE  PlaceInv' /\ RotationInv' /\ UNCHANGED <<password, secret, lost>>
  <1>1. /\ Types /\ {Start, Ws, Proactive} \subseteq Tasks
        /\ 0 <= issued
        /\ UNCHANGED <<token, issued, status, password, secret, lost>> /\ ~running'
    BY Constants DEF SessionInv, Types, Stop, session, hub
  <1>2. /\ pc'[Ws] = "cancelled" /\ pc'[Proactive] = "cancelled"
        /\ \A b \in Tasks \ {Ws, Proactive} : pc'[b] = pc[b]
    BY <1>1 DEF Stop, Types
  <1>3. /\ \A b \in Tasks : net'[b] = net[b] \/ net'[b] = Silence
        /\ \A b \in Tasks \ {Ws, Proactive} : net'[b] = net[b]
        /\ Silence.new = 0 /\ Silence.tok = 0 /\ Silence.st = "none"
    BY DEF Stop, Silence
  <1>4. PlaceInv'
    <2>1. \A b \in Tasks : Renewing(b)' => pc'[b] \in Waiting \cup {"cancelled"}
      BY <1>1, <1>2, <1>3 DEF PlaceInv, Renewing
    <2>2. \A b \in Callers : pc'[b] \in {"first", "second"} => net'[b].kind = CallKind(b)
      BY <1>2, <1>3, Constants DEF PlaceInv
    <2>3. \A b \in Tasks : pc'[b] = "cancelled" => ~running' /\ b \in {Ws, Proactive}
      BY <1>1, <1>2 DEF PlaceInv
    <2> QED
      BY <2>1, <2>2, <2>3 DEF PlaceInv, CallKind
  <1>5. RotationInv'
    BY <1>1, <1>3 DEF RotationInv
  <1> QED
    BY <1>1, <1>4, <1>5

\* The hub rotates away the token that is asked about, which no answer carries, and
\* sends the successor back.
LEMMA HubKeeps ==
    ASSUME SessionInv, PlaceInv, RotationInv, NEW a \in Tasks, HubServes(a) \/ Lose(a)
    PROVE  PlaceInv' /\ RotationInv' /\ UNCHANGED <<password, secret>> /\ (lost' = 0 => lost = 0)
  <1>1. /\ Types /\ TokenInv /\ net[a] \in Message
        /\ UNCHANGED <<token, pc, running, password, secret>>
        /\ issued \in Nat /\ lost \in Nat /\ token <= issued /\ token \in Nat
        /\ \A b \in Tasks : net[b].tok \in 0..MaxToken /\ net[b].new \in 0..MaxToken
        /\ lost' = lost \/ lost' = lost + 1
    <2>1. /\ Types /\ TokenInv /\ net[a] \in Message
          /\ issued \in Nat /\ lost \in Nat /\ token <= issued /\ token \in Nat
          /\ \A b \in Tasks : net[b].tok \in 0..MaxToken /\ net[b].new \in 0..MaxToken
      <3>1. /\ Types /\ TokenInv /\ net[a] \in Message /\ token <= issued
            /\ issued \in 0..MaxToken /\ lost \in 0..MaxLost /\ token \in 0..MaxToken
        BY DEF SessionInv, TokenInv, Types
      <3>2. \A b \in Tasks : net[b].tok \in 0..MaxToken /\ net[b].new \in 0..MaxToken
        BY DEF SessionInv, Types, Message
      <3> QED
        BY <3>1, <3>2, Constants
    <2>2. UNCHANGED <<token, pc, running, password, secret>>
      BY DEF HubServes, HubIssues, HubRefuses, Lose, local, session, hub
    <2>3. lost' = lost \/ lost' = lost + 1
      BY DEF HubServes, HubIssues, HubRefuses, Lose
    <2> QED
      BY <2>1, <2>2, <2>3
  <1>2. /\ net[a].st # "none" /\ net[a].kind \in {"refresh", "login"}
        /\ \/ HubIssues(a) /\ Reply(a, "ok", issued + 1) /\ net[a].st = "asked"
           \/ /\ UNCHANGED <<issued, status>>
              /\ \/ Reply(a, "denied", 0) /\ net[a].st = "asked"
                 \/ Reply(a, "lost", 0) /\ lost' = lost + 1
    BY DEF HubServes, HubIssues, HubRefuses, Lose, hub
  <1>3. ASSUME NEW c \in Codes, NEW t \in 0..MaxToken, Reply(a, c, t)
        PROVE  /\ net'[a].st = "answered" /\ net'[a].code = c /\ net'[a].new = t
               /\ net'[a].tok = net[a].tok /\ net'[a].kind = net[a].kind
               /\ \A b \in Tasks \ {a} : net'[b] = net[b]
    BY <1>1, <1>3 DEF Reply, Types, Message
  <1>4. /\ net'[a].tok = net[a].tok /\ net'[a].kind = net[a].kind
        /\ \A b \in Tasks \ {a} : net'[b] = net[b]
    BY <1>1, <1>2, <1>3, Constants DEF Codes, HubIssues, Types
  <1>5. PlaceInv'
    <2>1. Renewing(a) /\ \A b \in Tasks \ {a} : Renewing(b)' <=> Renewing(b)
      BY <1>2, <1>4 DEF Renewing
    <2>2. \A b \in Tasks : net'[b].kind = net[b].kind
      BY <1>4
    <2> QED
      BY <1>1, <2>1, <2>2, Constants DEF PlaceInv, CallKind
  <1>6. CASE HubIssues(a) /\ Reply(a, "ok", issued + 1) /\ net[a].st = "asked"
    <2> DEFINE n == issued + 1
               t == net[a].tok
    <2>1. /\ issued' = n /\ n \in 0..MaxToken /\ n \in Tokens
          /\ net'[a].st = "answered" /\ net'[a].code = "ok" /\ net'[a].new = n
          /\ lost' = lost
      <3>1. issued' = n /\ n \in 0..MaxToken /\ n \in Tokens /\ lost' = lost
        BY <1>1, <1>6, Constants DEF HubIssues, Tokens
      <3>2. Reply(a, "ok", n) /\ "ok" \in Codes
        BY <1>6 DEF Codes
      <3> QED
        BY <1>3, <3>1, <3>2
    <2>2. \/ status' = status
          \/ /\ status' = [status EXCEPT ![t] = "revoked"] /\ t \in Tokens /\ t \in 1..issued
             /\ net[a].kind = "refresh"
      BY <1>1, <1>6, Constants DEF HubIssues, Accepts, Tokens, Types
    <2>3. \A u \in Tokens : u # t => status'[u] = status[u]
      BY <1>1, <2>2 DEF Types
    <2>4. \A b \in Tasks : net'[b].tok <= issued'
      BY <1>1, <1>4, <2>1, Constants DEF RotationInv
    <2>5. \A u \in Tokens : u > issued => status'[u] = status[u] /\ status[u] # "revoked"
      <3>1. t <= issued /\ t \in Nat
        BY <1>1, Constants DEF RotationInv
      <3> QED
        BY <1>1, <2>3, <3>1, Constants DEF RotationInv, Tokens
    <2>6. ASSUME NEW b \in Tasks, net'[b].new # 0
          PROVE  status'[net'[b].new] # "revoked" /\ \A c \in Tasks : net'[c].tok # net'[b].new
      <3>1. CASE b = a
        BY <1>1, <1>4, <2>1, <2>5, <3>1, Constants DEF RotationInv
      <3>2. CASE b # a
        <4>1. net'[b].new = net[b].new /\ net[b].new \in Tokens
          BY <1>1, <1>4, <2>6, <3>2, Constants DEF Tokens
        <4>2. status[net[b].new] # "revoked" /\ \A c \in Tasks : net[c].tok # net[b].new
          BY <2>6, <4>1 DEF RotationInv
        <4> QED
          BY <1>4, <2>3, <4>1, <4>2
      <3> QED
        BY <3>1, <3>2
    <2>7. ASSUME Revoked(token)', lost' = 0, running'
          PROVE  \E b \in Tasks : Succeeds(b, token)'
      <3>1. token \in 1..issued /\ token \in Tokens /\ status'[token] = "revoked"
        BY <1>1, <2>1, <2>7, Constants DEF Revoked, Tokens, Types
      <3>2. CASE status[token] = "revoked"
        <4>1. PICK b \in Tasks : Succeeds(b, token)
          BY <1>1, <2>1, <2>7, <3>1, <3>2 DEF Revoked, RotationInv
        <4>2. b # a
          BY <1>6, <4>1 DEF Succeeds, Heard
        <4> QED
          BY <1>1, <1>4, <4>1, <4>2 DEF Succeeds, Heard, Answer
      <3>3. CASE status[token] # "revoked"
        <4>1. token = t /\ net[a].kind = "refresh"
          BY <2>2, <2>3, <3>1, <3>3
        <4> QED
          BY <1>1, <1>4, <2>1, <4>1 DEF Succeeds, Heard, Answer
      <3> QED
        BY <3>2, <3>3
    <2>8. \A u \in Tokens : u > issued' => status'[u] # "revoked"
      BY <1>1, <2>1, <2>5 DEF Tokens
    <2> QED
      BY <1>1, <1>5, <2>1, <2>4, <2>6, <2>7, <2>8 DEF RotationInv
  <1>7. CASE /\ UNCHANGED <<issued, status>>
             /\ \/ Reply(a, "denied", 0) /\ net[a].st = "asked"
                \/ Reply(a, "lost", 0) /\ lost' = lost + 1
    <2>1. net'[a].new = 0
      BY <1>3, <1>7, Constants DEF Codes
    <2>2. ASSUME Revoked(token)', lost' = 0, running'
          PROVE  \E b \in Tasks : Succeeds(b, token)'
      <3>1. lost = 0 /\ net[a].st = "asked"
        BY <1>1, <1>7, <2>2
      <3>2. PICK b \in Tasks : Succeeds(b, token)
        BY <1>1, <1>7, <2>2, <3>1 DEF Revoked, RotationInv
      <3>3. b # a
        BY <3>1, <3>2 DEF Succeeds, Heard
      <3> QED
        BY <1>1, <1>4, <3>2, <3>3 DEF Succeeds, Heard, Answer
    <2>3. /\ \A b \in Tasks : net'[b].tok = net[b].tok
          /\ \A b \in Tasks : net'[b].new # 0 => net'[b].new = net[b].new
      BY <1>4, <2>1
    <2> QED
      BY <1>1, <1>5, <1>7, <2>2, <2>3 DEF RotationInv
  <1> QED
    BY <1>2, <1>6, <1>7

LEMMA ExpireKeeps ==
    ASSUME SessionInv, PlaceInv, RotationInv, Expire
    PROVE  PlaceInv' /\ RotationInv' /\ UNCHANGED <<password, secret, lost>>
  <1>1. /\ UNCHANGED <<token, pc, running, password, secret, lost, net, issued>>
        /\ \/ status' = status \/ status' = [status EXCEPT ![token] = "expired"]
    BY DEF Expire
  <1>2. \A t \in Tokens : status'[t] = "revoked" => status[t] = "revoked"
    BY <1>1 DEF SessionInv, Types
  <1>3. PlaceInv'
    BY <1>1 DEF PlaceInv, Renewing, CallKind
  <1>4. \A b \in Tasks : net[b].new # 0 => net[b].new \in Tokens
    BY Constants DEF SessionInv, Types, Message, Tokens
  <1>5. Revoked(token)' => Revoked(token)
    <2>1. Revoked(token)' => token \in Tokens
      BY <1>1, Constants DEF Revoked, SessionInv, Types, Tokens
    <2> QED
      BY <1>1, <1>2, <2>1 DEF Revoked
  <1>6. \A b \in Tasks : Succeeds(b, token)' <=> Succeeds(b, token)
    BY <1>1 DEF Succeeds, Heard, Answer
  <1>7. RotationInv'
    BY <1>1, <1>2, <1>4, <1>5, <1>6 DEF RotationInv
  <1> QED
    BY <1>1, <1>3, <1>7

LEMMA CredentialInit == Init => CredentialInv
  <1> SUFFICES ASSUME Init PROVE CredentialInv
    OBVIOUS
  <1>1. /\ \A a \in Tasks : net[a] = IF a = Start THEN Request("login", 0) ELSE Silence
        /\ \A a \in Tasks : pc[a] \in {"boot", "idle", "off"}
        /\ pc[Start] = "boot" /\ ~running /\ issued = 0 /\ token = 0
        /\ password = "old" /\ secret = "old" /\ status = [t \in Tokens |-> "live"]
    BY Constants DEF Init
  <1>2. \A a \in Tasks : net[a].new = 0 /\ net[a].tok = 0
    BY <1>1, Messages, Constants DEF Silence, Kinds
  <1>3. PlaceInv
    <2>1. \A a \in Tasks : Renewing(a) => pc[a] \in Waiting
      BY <1>1 DEF Renewing, Silence, Waiting
    <2> QED
      BY <1>1, <2>1, Constants DEF PlaceInv
  <1>4. RotationInv
    BY <1>1, <1>2 DEF RotationInv
  <1> QED
    BY <1>1, <1>3, <1>4 DEF CredentialInv, PasswordInv

LEMMA CredentialStep ==
    SessionInv /\ SessionInv' /\ CredentialInv /\ [Next]_vars => CredentialInv'
  <1> SUFFICES ASSUME SessionInv, SessionInv', CredentialInv, [Next]_vars
               PROVE  CredentialInv'
    OBVIOUS
  <1> USE DEF CredentialInv
  <1>1. Types' /\ PlaceInv /\ RotationInv /\ PasswordInv /\ lost \in Nat /\ lost' \in Nat
    <2>1. Types' /\ PlaceInv /\ RotationInv /\ PasswordInv
      BY DEF SessionInv
    <2>2. lost \in 0..MaxLost /\ lost' \in 0..MaxLost
      BY DEF SessionInv, Types
    <2> QED
      BY <2>1, <2>2, Constants
  <1>2. ASSUME NEW a \in Tasks, Proper(a) PROVE CredentialInv'
    <2>1. PlaceInv' /\ RotationInv'
      BY <1>1, <1>2, TurnKeeps DEF Proper
    <2>2. PasswordInv'
      BY <1>1, <1>2 DEF Proper, PasswordInv
    <2> QED
      BY <2>1, <2>2
  <1>3. ASSUME PlaceInv', RotationInv', UNCHANGED <<password, secret>>, lost' = 0 => lost = 0
        PROVE  CredentialInv'
    BY <1>1, <1>3 DEF PasswordInv
  <1>4. CASE UNCHANGED vars
    <2>1. UNCHANGED <<token, pc, running, password, secret, lost, net, issued, status>>
      BY <1>4 DEF vars, local, session, hub
    <2>2. PlaceInv' /\ RotationInv'
      BY <1>1, <2>1 DEF PlaceInv, RotationInv, Renewing, CallKind, Revoked, Succeeds, Heard, Answer
    <2> QED
      BY <1>3, <2>1, <2>2
  <1>5. ASSUME NEW a \in Callers, CallerSteps(a) \/ Recover(a) PROVE CredentialInv'
    BY <1>1, <1>2, <1>5, CallerTurns, Constants
  <1>6. ASSUME NEW r \in Requests, Begin(r) PROVE CredentialInv'
    BY <1>2, <1>6, BeginTurns, Constants
  <1>7. CASE WsSteps \/ ProactiveSteps \/ ProactiveLocks
    BY <1>2, <1>7, WsTurns, ProactiveTurns, Constants DEF SessionInv
  <1>8. CASE BootLogin \/ BootLoginAgain
    BY <1>1, <1>2, <1>3, <1>8, BootTurns, LaunchKeeps, Constants
  <1>9. CASE Ready
    BY <1>1, <1>3, <1>9, ReadyKeeps
  <1>10. CASE Stop
    BY <1>1, <1>3, <1>10, StopKeeps
  <1>11. CASE Expire
    BY <1>1, <1>3, <1>11, ExpireKeeps
  <1>12. ASSUME NEW a \in Tasks, HubServes(a) \/ Lose(a) PROVE CredentialInv'
    BY <1>1, <1>3, <1>12, HubKeeps
  <1> QED
    BY <1>4, <1>5, <1>6, <1>7, <1>8, <1>9, <1>10, <1>11, <1>12 DEF Next, StartSteps

\* As long as no answer is lost, a token the hub has rotated away is replaced by its
\* successor, wherever the WebSocket loop's refreshes fall between the others' and in
\* whatever order the answers arrive; and only a lost answer parts the passwords
\* (AgoraClient.refresh, AgoraAgent._reauth_quiet, change_password).
THEOREM CredentialsKept == Spec => []CredentialsFollow
  <1>1. CredentialInv => CredentialsFollow
    <2>1. ASSUME CredentialInv, NEW a \in Tasks, Succeeds(a, token), running
          PROVE  /\ Heard(a) /\ Answer(a) = "ok" /\ net[a].kind = "refresh"
                 /\ net[a].tok = token /\ pc[a] # "cancelled"
      BY <2>1 DEF CredentialInv, PlaceInv, Succeeds
    <2> QED
      BY <2>1 DEF CredentialInv, RotationInv, PasswordInv, CredentialsFollow
  <1> QED
    BY <1>1, CredentialInit, CredentialStep, InvHolds, PTL DEF Spec

-----------------------------------------------------------------------------
(***************************************************************************)
(* When a loop ends, and what the holder of the lock waits for             *)
(***************************************************************************)

\* A task knows of a lost answer only when one was lost, and a loop ends by
\* nothing else.
LossInv ==
    /\ \A a \in Tasks : Answer(a) = "lost" => lost > 0
    /\ pc[Ws] = "dead" \/ pc[Proactive] = "ended" => lost > 0

\* Who holds the lock has asked the hub for what it holds the lock for.
Wanted(p) == IF p \in {"refresh", "keepRefresh"} THEN "refresh" ELSE "login"
AskedInv == \A a \in Tasks : pc[a] \in Locked =>
    net[a].st # "none" /\ net[a].kind = Wanted(pc[a])

\* What a task that goes somewhere does about messages: it takes the lock only with
\* a request of its own, and ends only when something was lost.
Moves(a) ==
    /\ lost' >= lost
    /\ \E p \in PC :
        /\ Goto(a, p)
        /\ UNCHANGED net \/ Hang(a) \/ \E k \in Kinds, t \in 0..MaxToken : Ask(a, k, t)
        /\ p \in Locked => \E t \in 0..MaxToken : Ask(a, Wanted(p), t)
        /\ p \in {"dead", "ended"} => lost' > 0

LEMMA MovesKeep ==
    ASSUME Types, Types', LossInv, AskedInv, NEW a \in Tasks, Moves(a)
    PROVE  LossInv' /\ AskedInv'
  <1>1. lost \in Nat /\ lost' \in Nat /\ lost' >= lost
    BY Constants DEF Types, Moves
  <1>2. PICK p \in PC :
        /\ Goto(a, p)
        /\ UNCHANGED net \/ Hang(a) \/ \E k \in Kinds, t \in 0..MaxToken : Ask(a, k, t)
        /\ p \in Locked => \E t \in 0..MaxToken : Ask(a, Wanted(p), t)
        /\ p \in {"dead", "ended"} => lost' > 0
    BY DEF Moves
  <1>3. pc'[a] = p /\ \A b \in Tasks \ {a} : pc'[b] = pc[b]
    BY <1>2, GotoIs
  <1>4. /\ \A b \in Tasks \ {a} : net'[b] = net[b]
        /\ net'[a].code \in {net[a].code, "ok"}
    <2>1. Silence.code = "ok" /\ \A k, t : Request(k, t).code = "ok"
      BY DEF Silence, Request
    <2> QED
      BY <1>2, <2>1, AskIs, HangIs
  <1>5. p \in Locked => net'[a].st # "none" /\ net'[a].kind = Wanted(p)
    <2> SUFFICES ASSUME p \in Locked
                 PROVE  net'[a].st # "none" /\ net'[a].kind = Wanted(p)
      OBVIOUS
    <2>1. PICK t \in 0..MaxToken : Ask(a, Wanted(p), t)
      BY <1>2
    <2>2. Wanted(p) \in Kinds
      BY DEF Wanted, Kinds
    <2>3. net'[a] = Request(Wanted(p), t) /\ net'[a].st = "asked"
      BY <2>1, <2>2, AskIs
    <2> QED
      BY <2>2, <2>3, Messages
  <1>6. LossInv'
    BY <1>1, <1>2, <1>3, <1>4, Constants DEF LossInv, Answer
  <1>7. AskedInv'
    BY <1>3, <1>4, <1>5 DEF AskedInv
  <1> QED
    BY <1>6, <1>7

LEMMA AskedFor ==
    ASSUME Types
    PROVE  /\ token \in 0..MaxToken /\ 0 \in 0..MaxToken /\ lost \in Nat
           /\ \A a \in Tasks : CallKind(a) \in Kinds
           /\ {"refresh", "login", "change"} \subseteq Kinds
           /\ Wanted("refresh") = "refresh" /\ Wanted("keepRefresh") = "refresh"
           /\ Wanted("relogin") = "login" /\ Wanted("keepLogin") = "login"
  BY Constants DEF Types, CallKind, Kinds, Wanted

\* A request returns, perhaps because something was lost.
LEMMA ReturnMoves ==
    ASSUME Types, NEW a \in Callers, NEW c \in Codes, Return(a, c), lost' >= lost,
           c = "lost" => lost' > 0
    PROVE  Moves(a)
  <1>1. \/ a \in Requests /\ Goto(a, "done") /\ Hang(a)
        \/ a = Start /\ Goto(a, "bootAgain") /\ Ask(a, "login", 0)
        \/ a = Start /\ Goto(a, "failed") /\ Hang(a)
        \/ a = Ws /\ Goto(a, "asleep") /\ Hang(a)
        \/ a = Ws /\ Goto(a, "ownRefresh") /\ Ask(a, "refresh", token)
        \/ a = Ws /\ c = "lost" /\ Goto(a, "dead") /\ Hang(a)
    BY DEF Return, Onward
  <1>2. {"done", "bootAgain", "failed", "asleep", "ownRefresh", "dead"} \subseteq PC
    BY DEF PC
  <1>3. {"done", "bootAgain", "failed", "asleep", "ownRefresh", "dead"} \cap Locked = {}
    BY DEF Locked
  <1> QED
    BY <1>1, <1>2, <1>3, AskedFor DEF Moves

LEMMA CallerMoves ==
    ASSUME Types, Types', LossInv, NEW a \in Callers, CallerSteps(a) \/ Recover(a)
    PROVE  Moves(a)
  <1>1. /\ {"lock", "second", "refresh", "relogin"} \subseteq PC
        /\ "lock" \notin Locked /\ "second" \notin Locked
        /\ a \in Tasks /\ token' \in 0..MaxToken
    BY Constants DEF PC, Locked, Types
  <1>2. ASSUME NEW c \in Codes, Outcome(a, c)
        PROVE  lost' >= lost /\ (c = "lost" => lost' > 0)
    BY <1>2, AskedFor DEF Outcome
  <1>3. CASE FirstAnswer(a)
    <2>1. PICK c \in Codes : /\ Outcome(a, c)
                             /\ (Goto(a, "lock") /\ Hang(a)) \/ Return(a, c)
      BY <1>3 DEF FirstAnswer
    <2>2. CASE Goto(a, "lock") /\ Hang(a)
      BY <1>1, <1>2, <2>1, <2>2 DEF Moves
    <2> QED
      BY <1>2, <2>1, <2>2, ReturnMoves
  <1>4. CASE SecondAnswer(a)
    BY <1>2, <1>4, ReturnMoves DEF SecondAnswer
  <1>5. CASE Recover(a)
    BY <1>1, <1>5, AskedFor DEF Recover, Moves
  <1>6. CASE Refreshed(a) \/ LoggedIn(a)
    <2>1. lost' = lost /\ Answer(a) \in Codes /\ (Answer(a) = "lost" => lost' > 0)
      BY <1>1, <1>6 DEF Refreshed, LoggedIn, LossInv, Types, Message, Answer
    <2>2. \/ Goto(a, "second") /\ Ask(a, CallKind(a), token')
          \/ Goto(a, "relogin") /\ Ask(a, "login", 0)
          \/ Return(a, Answer(a))
      BY <1>6 DEF Refreshed, LoggedIn
    <2>3. CASE Return(a, Answer(a))
      BY <2>1, <2>3, ReturnMoves, AskedFor
    <2>4. CASE \/ Goto(a, "second") /\ Ask(a, CallKind(a), token')
               \/ Goto(a, "relogin") /\ Ask(a, "login", 0)
      BY <1>1, <2>1, <2>4, AskedFor DEF Moves
    <2> QED
      BY <2>2, <2>3, <2>4
  <1> QED
    BY <1>3, <1>4, <1>5, <1>6 DEF CallerSteps

\* Without the lock.
LEMMA GoesOn ==
    ASSUME Types, NEW a \in Tasks, NEW p \in PC \ Locked, Goto(a, p), lost' >= lost,
           UNCHANGED net \/ Hang(a) \/ \E k \in Kinds, t \in 0..MaxToken : Ask(a, k, t),
           p \in {"dead", "ended"} => lost' > 0
    PROVE  Moves(a)
  BY DEF Moves

LEMMA LoopsMove ==
    ASSUME Types, LossInv
    PROVE  /\ WsSteps => Moves(Ws)
           /\ ProactiveSteps \/ ProactiveLocks => Moves(Proactive)
  <1>1. /\ {"first", "open", "asleep", "connect", "ownLogin", "napping",
            "keepLock", "dead", "ended"} \subseteq PC \ Locked
        /\ {"keepRefresh", "keepLogin"} \subseteq PC
        /\ Ws \in Tasks /\ Proactive \in Tasks
    BY Constants DEF PC, Locked
  <1>2. \A a \in Tasks : Answer(a) = "lost" => lost > 0
    BY DEF LossInv
  <1>3. ASSUME WsConnect \/ WsCloses PROVE Moves(Ws)
    <2>1. lost' >= lost
      BY <1>3, AskedFor DEF WsConnect, WsCloses
    <2>2. \/ Goto(Ws, "open") /\ UNCHANGED net
          \/ Goto(Ws, "asleep") /\ UNCHANGED net
          \/ Goto(Ws, "first") /\ Ask(Ws, CallKind(Ws), token)
      BY <1>3 DEF WsConnect, WsCloses, Send
    <2>3. CASE (Goto(Ws, "open") \/ Goto(Ws, "asleep")) /\ UNCHANGED net
      BY <1>1, <2>1, <2>3 DEF Moves
    <2>4. CASE Goto(Ws, "first") /\ Ask(Ws, CallKind(Ws), token)
      BY <1>1, <2>1, <2>4, AskedFor DEF Moves
    <2> QED
      BY <2>2, <2>3, <2>4
  <1>4. ASSUME WsWakes \/ WsRefreshed \/ WsLoggedIn PROVE Moves(Ws)
    <2>1. lost' >= lost
      BY <1>4, AskedFor DEF WsWakes, WsRefreshed, WsLoggedIn
    <2>2. \/ Goto(Ws, "connect") /\ UNCHANGED net
          \/ Goto(Ws, "asleep") /\ Hang(Ws)
          \/ Goto(Ws, "ownLogin") /\ Ask(Ws, "login", 0)
          \/ Goto(Ws, "dead") /\ Hang(Ws) /\ lost' > 0
      BY <1>1, <1>2, <1>4 DEF WsWakes, WsRefreshed, WsLoggedIn
    <2>3. CASE \/ Goto(Ws, "connect") /\ UNCHANGED net
               \/ Goto(Ws, "asleep") /\ Hang(Ws)
      BY <1>1, <2>1, <2>3 DEF Moves
    <2>4. CASE Goto(Ws, "ownLogin") /\ Ask(Ws, "login", 0)
      BY <1>1, <2>1, <2>4, AskedFor DEF Moves
    <2>5. CASE Goto(Ws, "dead") /\ Hang(Ws) /\ lost' > 0
      BY <1>1, <2>1, <2>5 DEF Moves
    <2> QED
      BY <2>2, <2>3, <2>4, <2>5
  <1>5. ASSUME ProactiveSteps \/ ProactiveLocks PROVE Moves(Proactive)
    <2>1. lost' >= lost
      BY <1>5, AskedFor DEF ProactiveSteps, ProactiveWakes, ProactiveRefreshed,
         ProactiveLoggedIn, ProactiveLocks
    <2>2. \/ Goto(Proactive, "keepLock") /\ UNCHANGED net
          \/ Goto(Proactive, "napping") /\ (Hang(Proactive) \/ UNCHANGED net)
          \/ Goto(Proactive, "keepRefresh") /\ Ask(Proactive, "refresh", token)
          \/ Goto(Proactive, "keepLogin") /\ Ask(Proactive, "login", 0)
          \/ Goto(Proactive, "ended") /\ Hang(Proactive) /\ lost' > 0
      BY <1>1, <1>2, <1>5 DEF ProactiveSteps, ProactiveWakes, ProactiveRefreshed,
         ProactiveLoggedIn, ProactiveLocks
    <2>3. CASE \/ Goto(Proactive, "keepLock") /\ UNCHANGED net
               \/ Goto(Proactive, "napping") /\ (Hang(Proactive) \/ UNCHANGED net)
      BY <1>1, <2>1, <2>3 DEF Moves
    <2>4. CASE Goto(Proactive, "ended") /\ Hang(Proactive) /\ lost' > 0
      BY <1>1, <2>1, <2>4 DEF Moves
    <2>5. CASE Goto(Proactive, "keepRefresh") /\ Ask(Proactive, "refresh", token)
      BY <1>1, <2>1, <2>5, AskedFor DEF Moves
    <2>6. CASE Goto(Proactive, "keepLogin") /\ Ask(Proactive, "login", 0)
      BY <1>1, <2>1, <2>6, AskedFor DEF Moves
    <2> QED
      BY <2>2, <2>3, <2>4, <2>5, <2>6
  <1> QED
    BY <1>3, <1>4, <1>5 DEF WsSteps

\* start: it fails or goes on alone, or launches the loops.
LEMMA StartKeeps ==
    ASSUME Types, Types', LossInv, AskedInv, StartSteps
    PROVE  LossInv' /\ AskedInv'
  <1>1. lost' = lost /\ Start \in Tasks /\ Ws \in Tasks /\ Proactive \in Tasks
        /\ Start # Ws /\ Start # Proactive /\ Ws # Proactive
    BY Constants DEF StartSteps, BootLogin, BootLoginAgain, Ready
  <1>2. CASE Goto(Start, "failed") /\ (Hang(Start) \/ UNCHANGED net)
    <2>1. Moves(Start)
      BY <1>1, <1>2, AskedFor DEF Moves, PC, Locked
    <2> QED
      BY <1>1, <2>1, MovesKeep
  <1>3. CASE Goto(Start, "first") /\ Ask(Start, "change", net[Start].new)
    <2>1. net[Start].new \in 0..MaxToken
      BY <1>1 DEF Types, Message
    <2>2. Moves(Start)
      BY <1>1, <1>3, <2>1, AskedFor DEF Moves, PC, Locked
    <2> QED
      BY <1>1, <2>2, MovesKeep
  <1>4. ASSUME (Hang(Start) /\ pc'[Start] = "ready") \/ UNCHANGED net,
               \A b \in Tasks : pc'[b] \in {pc[b], "ready", "connect", "started", "napping"}
        PROVE  LossInv' /\ AskedInv'
    <2>1. \A b \in Tasks \ {Start} : net'[b] = net[b]
      BY <1>1, <1>4, HangIs
    <2>2. net'[Start].code \in {net[Start].code, "ok"}
      BY <1>1, <1>4, HangIs DEF Silence
    <2>3. LossInv'
      BY <1>1, <1>4, <2>1, <2>2 DEF LossInv, Answer
    <2>4. pc'[Start] \in Locked => UNCHANGED net
      BY <1>4 DEF Locked
    <2> QED
      BY <1>1, <1>4, <2>1, <2>3, <2>4 DEF AskedInv, Locked
  <1>5. CASE Launch /\ Hang(Start)
    <2>1. /\ \A b \in Tasks : pc'[b] \in {pc[b], "ready", "connect"}
          /\ pc'[Start] = "ready"
      BY <1>1, <1>5 DEF Launch, Types
    <2> QED
      BY <1>4, <1>5, <2>1
  <1>6. CASE pc' = [pc EXCEPT ![Start] = "started", ![Proactive] = "napping"] /\ UNCHANGED net
    <2>1. \A b \in Tasks : pc'[b] \in {pc[b], "started", "napping"}
      BY <1>6 DEF Types
    <2> QED
      BY <1>4, <1>6, <2>1
  <1> QED
    BY <1>2, <1>3, <1>5, <1>6 DEF StartSteps, BootLogin, BootLoginAgain, Ready

\* stop cancels the loops; the hub answers, or an answer is lost.
LEMMA OthersKeep ==
    ASSUME Types, LossInv, AskedInv,
           \/ Stop \/ Expire \/ UNCHANGED vars
           \/ \E a \in Tasks : HubServes(a) \/ Lose(a)
    PROVE  LossInv' /\ AskedInv'
  <1>1. lost \in Nat /\ Ws \in Tasks /\ Proactive \in Tasks /\ Ws # Proactive
    BY Constants DEF Types
  <1>2. CASE Stop
    <2>1. /\ lost' = lost
          /\ \A a \in Tasks : \/ pc'[a] = pc[a] /\ net'[a] = net[a]
                              \/ pc'[a] = "cancelled" /\ net'[a] \in {net[a], Silence}
          /\ pc'[Ws] = "cancelled" /\ pc'[Proactive] = "cancelled"
      BY <1>1, <1>2 DEF Stop, Types
    <2>2. LossInv'
      BY <2>1 DEF LossInv, Answer, Silence
    <2>3. AskedInv'
      BY <2>1 DEF AskedInv, Locked
    <2> QED
      BY <2>2, <2>3
  <1>3. CASE Expire \/ UNCHANGED vars
    BY <1>3 DEF Expire, vars, local, LossInv, AskedInv, Answer
  <1>4. ASSUME NEW a \in Tasks, HubServes(a) \/ Lose(a)
        PROVE  LossInv' /\ AskedInv'
    <2>1. /\ UNCHANGED pc /\ lost' >= lost /\ net[a].st # "none"
          /\ \E c \in Codes, t \in 0..MaxToken : Reply(a, c, t) /\ (c = "lost" => lost' > 0)
      <3>1. CASE HubIssues(a)
        <4>1. issued + 1 \in 0..MaxToken
          BY <3>1, Constants DEF HubIssues, Types
        <4> QED
          BY <1>1, <3>1, <4>1 DEF HubIssues, local, Codes
      <3>2. CASE HubRefuses(a)
        BY <1>1, <3>2, Constants DEF HubRefuses, local, Codes
      <3>3. CASE Lose(a)
        BY <1>1, <3>3, Constants DEF Lose, local, Codes
      <3> QED
        BY <1>4, <3>1, <3>2, <3>3 DEF HubServes
    <2>2. PICK c \in Codes, t \in 0..MaxToken : Reply(a, c, t) /\ (c = "lost" => lost' > 0)
      BY <2>1
    <2>3. /\ net'[a].st = "answered" /\ net'[a].code = c
          /\ \A b \in Tasks \ {a} : net'[b] = net[b]
      BY <2>2, ReplyIs
    <2>4. net'[a].kind = net[a].kind
      <3>1. net[a] \in Message
        BY DEF Types
      <3>2. net'[a] = [net[a] EXCEPT !.st = "answered", !.code = c, !.new = t]
        BY <2>2 DEF Reply, Types
      <3> QED
        BY <3>1, <3>2 DEF Message
    <2>5. LossInv'
      <3>1. lost > 0 => lost' > 0
        BY <1>1, <1>4 DEF HubServes, HubIssues, HubRefuses, Lose
      <3> QED
        BY <1>1, <2>1, <2>2, <2>3, <3>1 DEF LossInv, Answer
    <2>6. AskedInv'
      BY <2>1, <2>3, <2>4 DEF AskedInv
    <2> QED
      BY <2>5, <2>6
  <1> QED
    BY <1>2, <1>3, <1>4

LEMMA LossStep ==
    SessionInv /\ SessionInv' /\ LossInv /\ AskedInv /\ [Next]_vars
      => LossInv' /\ AskedInv'
  <1> SUFFICES ASSUME SessionInv, SessionInv', LossInv, AskedInv, [Next]_vars
               PROVE  LossInv' /\ AskedInv'
    OBVIOUS
  <1>1. Types /\ Types'
    BY DEF SessionInv
  <1>2. ASSUME NEW r \in Requests, Begin(r) PROVE LossInv' /\ AskedInv'
    <2>1. /\ r \in Tasks /\ Goto(r, "first") /\ Ask(r, CallKind(r), token)
          /\ lost' = lost /\ lost' >= lost
          /\ "first" \in PC \ Locked
      BY <1>1, <1>2, Constants, AskedFor DEF Begin, Send, PC, Locked
    <2>2. Moves(r)
      BY <1>1, <2>1, GoesOn, AskedFor
    <2> QED
      BY <1>1, <2>1, <2>2, MovesKeep
  <1>3. ASSUME NEW a \in Callers, CallerSteps(a) \/ Recover(a)
        PROVE  LossInv' /\ AskedInv'
    BY <1>1, <1>3, CallerMoves, MovesKeep, Constants
  <1>4. CASE WsSteps \/ ProactiveSteps \/ ProactiveLocks
    BY <1>1, <1>4, LoopsMove, MovesKeep, Constants
  <1>5. CASE StartSteps
    BY <1>1, <1>5, StartKeeps
  <1> QED
    BY <1>1, <1>2, <1>3, <1>4, <1>5, OthersKeep DEF Next

LEMMA LossHolds == Spec => [](LossInv /\ AskedInv)
  <1>1. Init => LossInv /\ AskedInv
    <2> SUFFICES ASSUME Init PROVE LossInv /\ AskedInv
      OBVIOUS
    <2>1. \A a \in Tasks : Answer(a) = "ok"
      BY DEF Init, Answer, Request, Silence
    <2>2. \A a \in Tasks : pc[a] \in {"boot", "idle", "off"}
      BY DEF Init
    <2> QED
      BY <2>1, <2>2, Constants DEF LossInv, AskedInv, Locked
  <1> QED
    BY <1>1, LossStep, InvHolds, PTL DEF Spec

\* The two loops that keep the session alive outlive every refusal of the hub, in
\* whatever order it comes: before stop, one ends only once a request or an answer
\* was lost.
LoopsOutliveRefusals == pc[Ws] = "dead" \/ pc[Proactive] = "ended" => lost > 0

\* "capped-backoff reconnect" (client.py) holds as long as the hub answers: it is an
\* error of the transport alone that ends AgoraAgent._ws_loop, and the proactive
\* refresh loop with it or without it.
THEOREM LoopsEndByLoss == Spec => []LoopsOutliveRefusals
  <1>1. LossInv => LoopsOutliveRefusals
    BY DEF LossInv, LoopsOutliveRefusals
  <1> QED
    BY <1>1, LossHolds, PTL

\* Who holds the authentication lock waits for the hub to answer its own refresh or
\* login, never for another task.
HolderWaitsForHub ==
    lock # NoTask => net[lock].st # "none" /\ net[lock].kind \in {"refresh", "login"}

\* So the lock is passed on as soon as the hub answers or the request fails: no two
\* tasks wait for each other, wherever a stop or a failure falls
\* (AgoraSession._recover_session, RefreshingAgoraAgent._proactive_refresh_loop).
THEOREM LockIsNotStuck == Spec => []HolderWaitsForHub
  <1>1. SessionInv /\ AskedInv => HolderWaitsForHub
    <2> SUFFICES ASSUME SessionInv, AskedInv, lock # NoTask
                 PROVE  net[lock].st # "none" /\ net[lock].kind \in {"refresh", "login"}
      BY DEF HolderWaitsForHub
    <2>1. lock \in Tasks /\ pc[lock] \in Locked
      BY DEF SessionInv, Types, LockInv
    <2> QED
      BY <2>1 DEF AskedInv, Wanted
  <1> QED
    BY <1>1, LossHolds, InvHolds, PTL
=============================================================================
