---------------------------- MODULE ChatUI_proofs ----------------------------
(***************************************************************************)
(* Proofs about ChatUI, for any number of flows and of retried poll        *)
(* errors.                                                                 *)
(***************************************************************************)
EXTENDS ChatUI, SequenceTheorems, TLAPS

(***************************************************************************)
(* Until New Chat leaves something behind, at most one flow is alive, its  *)
(* card is the working card, and ctrl is set just while a chat is.  This   *)
(* is what makes the shared variables safe to use: Submit, Retry and the   *)
(* key dialog start a flow only when there is none.                        *)
(***************************************************************************)
Alone ==
    ~abandoned =>
        /\ \A f, g \in Flows : Alive(f) /\ Alive(g) => f = g
        /\ \A f \in Flows : Alive(f) => card.kind = "working"
        /\ \A f \in Flows : at[f] = "chat" <=> ctrl = f
        /\ FlowIsShown

(***************************************************************************)
(* A run the page was not told of is named by none of its variables, so    *)
(* nobody answers its gate.                                                *)
(***************************************************************************)
Untold(f) == f \in unheard \/ at[f] \in {"new", "create"}

UntoldInv ==
    /\ \A f \in unheard : at[f] = "ended"
    /\ \A f \in Flows : Untold(f) =>
           /\ runId # f
           /\ \A g \in Flows : target[g] # f
           /\ ~token[f]
           /\ run[f] \notin {"executing", "awaiting", "completed"}

CardSet ==
    [kind : {"none", "working", "waiting", "error"}, of : Flows \cup {None},
     buttons : {"none", "abort", "stop", "plan", "decide", "retry", "chat",
                "agent", "nothing"}]

\* A waiting card is no flow's, and knows what its button starts.
CardType ==
    {c \in CardSet : c.kind = "waiting" =>
         c.of = None /\ c.buttons \in {"none", "chat", "agent", "nothing"}}

IInv ==
    /\ TypeOK
    /\ card \in CardType
    /\ Alone
    /\ ConversationAlternates
    /\ UntoldInv

Places == {"new", "chat", "create", "timer", "tick", "paused", "post", "ended"}

Replies == {"ok", "gone", "none", "planning", "planned",
            "executing", "awaiting", "completed", "failed"}

-----------------------------------------------------------------------------

USE ChatAssumption DEF Flows

LEMMA InitIInv == Init => IInv
  <1> SUFFICES ASSUME Init PROVE IInv
    OBVIOUS
  <1>1. TypeOK
    <2>1. << >> \in Seq({"user", "assistant"})
      OBVIOUS
    <2>2. card \in [kind : {"none", "working", "waiting", "error"},
                    of : Flows \cup {None},
                    buttons : {"none", "abort", "stop", "plan", "decide",
                               "retry", "chat", "agent", "nothing"}]
      BY DEF Init, NoCard
    <2>3. key \in BOOLEAN /\ abandoned \in BOOLEAN /\ unheard \in SUBSET Flows
      BY DEF Init
    <2>4. /\ at \in [Flows -> {"new", "chat", "create", "timer", "tick",
                              "paused", "post", "ended"}]
          /\ run \in [Flows -> {"none", "planning", "planned", "executing",
                               "awaiting", "completed", "failed", "lost"}]
          /\ token \in [Flows -> BOOLEAN] /\ errors \in [Flows -> 0..MaxErrors]
      BY DEF Init
    <2>5. /\ target \in [Flows -> Flows \cup {None}]
          /\ reply \in [Flows -> {None, "ok", "gone", "none", "planning",
                                 "planned", "executing", "awaiting",
                                 "completed", "failed"}]
      BY DEF Init
    <2>6. /\ status = "idle" /\ retry = "none" /\ runId = None /\ poll = None
          /\ ctrl = None /\ msgs = << >>
      BY DEF Init
    <2> QED
      BY <2>1, <2>2, <2>3, <2>4, <2>5, <2>6 DEF TypeOK
  <1>2. Alone
    BY DEF Init, Alone, FlowIsShown, Alive
  <1>3. ConversationAlternates
    BY DEF Init, ConversationAlternates
  <1>4. UntoldInv
    BY DEF Init, UntoldInv, Untold
  <1>5. card \in CardType
    BY DEF Init, NoCard, CardType, CardSet
  <1> QED
    BY <1>1, <1>2, <1>3, <1>4, <1>5 DEF IInv

\* What Goto does, whatever the flow and the place.
LEMMA GotoFacts ==
    ASSUME TypeOK, NEW f \in Flows, NEW l \in Places, Goto(f, l)
    PROVE  /\ at' \in [Flows -> Places]
           /\ reply' \in [Flows -> Replies \cup {None}]
           /\ target' \in [Flows -> Flows \cup {None}]
           /\ at'[f] = l /\ reply'[f] = None
           /\ target'[f] = IF l \in {"tick", "post"} THEN runId ELSE None
           /\ \A g \in Flows : g # f => /\ at'[g] = at[g]
                                        /\ reply'[g] = reply[g]
                                        /\ target'[g] = target[g]
  BY DEF Goto, TypeOK, Places, Replies

LEMMA PoppedType ==
    ASSUME msgs \in Seq({"user", "assistant"})
    PROVE  Popped(msgs) \in Seq({"user", "assistant"})
  <1>1. CASE msgs = << >>
    BY <1>1 DEF Popped
  <1>2. CASE msgs # << >>
    BY <1>2 DEF Popped
  <1> QED
    BY <1>1, <1>2

\* What the cards are, one by one.
LEMMA CardFacts ==
    /\ NoCard \in CardType /\ NoCard.kind = "none"
    /\ ErrorCard => status' = "error" /\ card' \in CardType
    /\ \A b \in {"none", "chat", "agent", "nothing"} :
           WaitingCard(b) => status' = "waiting" /\ card' \in CardType
    /\ \A f \in Flows, b \in {"abort", "stop"} :
           WorkingCard(f, b) => /\ status' = "working" /\ card' \in CardType
                                /\ card'.kind = "working" /\ card'.of = f
                                /\ card'.buttons = b
  BY DEF NoCard, CardType, CardSet, ErrorCard, WaitingCard, WorkingCard

LEMMA ButtonsFacts ==
    ASSUME card \in CardType, NEW f \in Flows,
           NEW b \in {"stop", "plan", "decide"}, Buttons(f, b)
    PROVE  /\ card' \in CardType /\ card'.kind = card.kind
           /\ card'.of = card.of
           /\ card.of = f => card'.buttons = b
  BY DEF Buttons, CardType, CardSet

-----------------------------------------------------------------------------
(***************************************************************************)
(* Each part of the invariant, for the kinds of step there are.            *)
(***************************************************************************)

\* A flow that goes on keeps the others as they are.
LEMMA TypeGoes ==
    ASSUME IInv, NEW f \in Flows, NEW l \in Places, Goto(f, l),
           status' \in {"idle", "working", "waiting", "error", "done"},
           card' \in CardType, key' \in BOOLEAN,
           retry' \in {"none", "chat", "agent"},
           runId' \in Flows \cup {None}, poll' \in Flows \cup {None},
           ctrl' \in Flows \cup {None}, msgs' \in Seq({"user", "assistant"}),
           errors' \in [Flows -> 0..MaxErrors], UNCHANGED <<serverVars, abandoned>>,
           unheard' \in SUBSET Flows
    PROVE  TypeOK'
  <1>1. TypeOK
    BY DEF IInv
  <1>2. /\ at' \in [Flows -> Places]
        /\ reply' \in [Flows -> Replies \cup {None}]
        /\ target' \in [Flows -> Flows \cup {None}]
    BY <1>1, GotoFacts
  <1>3. run' = run /\ token' = token /\ abandoned' = abandoned
    BY DEF serverVars
  <1>4. reply' \in [Flows -> {None, "ok", "gone", "none", "planning", "planned",
                             "executing", "awaiting", "completed", "failed"}]
    BY <1>2 DEF Replies
  <1> QED
    BY <1>1, <1>2, <1>3, <1>4 DEF TypeOK, CardType, CardSet, Places

LEMMA AloneEnds ==
    ASSUME IInv, NEW f \in Flows, Alive(f), Goto(f, "ended"),
           abandoned' = abandoned,
           ctrl' = None \/ (ctrl' = ctrl /\ at[f] # "chat")
    PROVE  Alone'
  <1> SUFFICES ASSUME ~abandoned' PROVE Alone'
    BY DEF Alone
  <1>1. "ended" \in Places /\ TypeOK
    BY DEF Places, IInv
  <1>2. at'[f] = "ended" /\ \A g \in Flows : g # f => at'[g] = at[g]
    BY <1>1, GotoFacts
  <1>3. \A g \in Flows : g # f => ~Alive(g)
    BY DEF IInv, Alone
  <1>4. \A g \in Flows : ~Alive(g)'
    BY <1>2, <1>3 DEF Alive
  <1>5. \A g \in Flows : at'[g] # "chat" /\ ctrl' # g
    <2>1. \A g \in Flows : at'[g] # "chat"
      BY <1>4 DEF Alive
    <2>2. ctrl' = ctrl /\ at[f] # "chat" => \A g \in Flows : ctrl' # g
      BY <1>3 DEF IInv, Alone, Alive
    <2> QED
      BY <2>1, <2>2
  <1> QED
    BY <1>4, <1>5 DEF Alone, FlowIsShown

LEMMA AloneGoes ==
    ASSUME IInv, NEW f \in Flows, Alive(f), at[f] # "chat",
           NEW l \in {"timer", "tick", "paused", "post"}, Goto(f, l),
           abandoned' = abandoned, status' = status, ctrl' = ctrl,
           card'.kind = card.kind, card'.of = card.of,
           ~abandoned /\ card.of = f =>
               (l = "paused" <=> card'.buttons \in {"plan", "decide"}),
           (runId' = f /\ l = "timer") \/ (runId' = runId /\ at[f] # "create")
    PROVE  Alone'
  <1> SUFFICES ASSUME ~abandoned' PROVE Alone'
    BY DEF Alone
  <1>1. l \in Places /\ TypeOK
    BY DEF Places, IInv
  <1>2. /\ at'[f] = l /\ \A g \in Flows : g # f => at'[g] = at[g]
        /\ l \in {"tick", "post"} => target'[f] = runId
    BY <1>1, GotoFacts
  <1>3. \A g \in Flows : g # f => ~Alive(g) /\ ~Alive(g)'
    BY <1>2 DEF IInv, Alone, Alive
  <1>4. /\ status = "working" /\ card.kind = "working" /\ card.of = f
        /\ at[f] \in {"timer", "tick", "paused", "post"} => runId = f
    BY DEF IInv, Alone, FlowIsShown
  <1>5. at[f] \in {"create", "timer", "tick", "paused", "post"}
    BY <1>1 DEF TypeOK, Alive
  <1>6. \A g \in Flows : at'[g] = "chat" <=> ctrl' = g
    BY <1>2, <1>3 DEF IInv, Alone, Alive
  <1> QED
    BY <1>2, <1>3, <1>4, <1>5, <1>6 DEF Alone, FlowIsShown

LEMMA ConversationGoes ==
    ASSUME IInv, NEW f \in Flows, NEW l \in Places, l # "chat", at[f] # "chat",
           Goto(f, l), msgs' = msgs, abandoned' = abandoned
    PROVE  ConversationAlternates'
  <1>1. TypeOK
    BY DEF IInv
  <1>2. \A g \in Flows : at'[g] = "chat" <=> at[g] = "chat"
    BY <1>1, GotoFacts
  <1> QED
    BY <1>2 DEF IInv, ConversationAlternates

LEMMA OddEven == \A n \in Nat : n % 2 = 1 => (n - 1) % 2 = 0 /\ (n + 1) % 2 = 0
  OBVIOUS

\* The end of a chat, with its answer or without a trace.
LEMMA ConversationEnds ==
    ASSUME IInv, NEW f \in Flows, at[f] = "chat", Goto(f, "ended"),
           msgs' = Popped(msgs) \/ msgs' = Append(msgs, "assistant"),
           abandoned' = abandoned
    PROVE  ConversationAlternates'
  <1> SUFFICES ASSUME ~abandoned' PROVE ConversationAlternates'
    BY DEF ConversationAlternates
  <1>1. "ended" \in Places /\ TypeOK /\ msgs \in Seq({"user", "assistant"})
    BY DEF Places, IInv, TypeOK
  <1>2. \A g \in Flows : at'[g] # "chat"
    BY <1>1, GotoFacts DEF IInv, Alone, Alive
  <1>3. /\ Len(msgs) % 2 = 1 /\ Len(msgs) \in Nat
        /\ \A i \in 1..Len(msgs) :
               msgs[i] = IF i % 2 = 1 THEN "user" ELSE "assistant"
    BY <1>1 DEF IInv, ConversationAlternates
  <1>4. Len(msgs) >= 1 /\ msgs # << >>
    BY <1>1, <1>3
  <1>5. CASE msgs' = Popped(msgs)
    <2>1. msgs' = SubSeq(msgs, 1, Len(msgs) - 1)
      BY <1>4, <1>5 DEF Popped
    <2> DEFINE n == Len(msgs)
    <2>a. n \in Nat /\ n >= 1 /\ n - 1 \in 0..n
      BY <1>3, <1>4
    <2>b. 1..n = DOMAIN msgs /\ msgs \in Seq({"user", "assistant"})
      BY <1>1
    <2> HIDE DEF n
    <2>2. /\ Len(msgs') = n - 1
          /\ \A i \in 1..(n - 1) : msgs'[i] = msgs[i]
      <3>1. \A i \in 1..(n - 1) : msgs[i] \in {"user", "assistant"}
        BY <2>a, <2>b
      <3>2. 1 \in Int /\ n - 1 \in Int /\ (n - 1) - 1 + 1 = n - 1
        BY <2>a
      <3>3. /\ Len(SubSeq(msgs, 1, n - 1)) =
                   IF 1 <= n - 1 THEN (n - 1) - 1 + 1 ELSE 0
            /\ \A i \in 1..((n - 1) - 1 + 1) :
                   SubSeq(msgs, 1, n - 1)[i] = msgs[1 + i - 1]
        BY <3>1, <3>2, SubSeqProperties
      <3>4. \A i \in 1..(n - 1) : 1 + i - 1 = i
        OBVIOUS
      <3>5. msgs' = SubSeq(msgs, 1, n - 1)
        BY <2>1 DEF n
      <3> QED
        BY <2>a, <3>2, <3>3, <3>4, <3>5
    <2>3. Len(msgs') % 2 = 0
      BY <1>3, <2>2, OddEven DEF n
    <2>4. \A i \in 1..Len(msgs') : i \in 1..Len(msgs) /\ msgs'[i] = msgs[i]
      BY <2>2, <2>a DEF n
    <2>5. \A i \in 1..Len(msgs') :
              msgs'[i] = IF i % 2 = 1 THEN "user" ELSE "assistant"
      BY <1>3, <2>4
    <2>6. ~(Len(msgs') % 2 = 1)
      BY <2>3
    <2> QED
      BY <1>2, <2>5, <2>6 DEF ConversationAlternates
  <1>6. CASE msgs' = Append(msgs, "assistant")
    <2>1. /\ Len(msgs') = Len(msgs) + 1 /\ msgs'[Len(msgs) + 1] = "assistant"
          /\ \A i \in 1..Len(msgs) : msgs'[i] = msgs[i]
      BY <1>1, <1>6
    <2>2. (Len(msgs) + 1) % 2 = 0
      BY <1>3
    <2>3. \A i \in 1..Len(msgs') : i \in 1..Len(msgs) \/ i = Len(msgs) + 1
      BY <1>3, <2>1
    <2> QED
      BY <1>2, <1>3, <2>1, <2>2, <2>3 DEF ConversationAlternates
  <1> QED
    BY <1>5, <1>6

LEMMA UntoldGoes ==
    ASSUME IInv, NEW f \in Flows, NEW l \in Places, Goto(f, l),
           at[f] # "ended" \/ l = "ended", l # "new",
           l = "create" => at[f] = "new",
           runId' = runId \/ runId' = None
               \/ (runId' = f /\ l = "timer"),
           UNCHANGED <<serverVars, unheard>>
    PROVE  UntoldInv'
  <1>1. TypeOK /\ UntoldInv
    BY DEF IInv
  <1>2. /\ at'[f] = l /\ \A g \in Flows : g # f => at'[g] = at[g]
        /\ \A g \in Flows : target'[g] \in {target[g], runId, None}
    BY <1>1, GotoFacts
  <1>3. f \notin unheard \/ l = "ended"
    BY <1>1 DEF UntoldInv
  <1>4. \A g \in Flows : Untold(g)' => Untold(g)
    BY <1>2, <1>3 DEF Untold
  <1>5. l = "timer" => ~Untold(f)'
    BY <1>2, <1>3 DEF Untold
  <1>6. \A g \in Flows : Untold(g)' => runId' # g
    <2> TAKE g \in Flows
    <2> HAVE Untold(g)'
    <2>1. runId # g /\ g # None
      BY <1>1, <1>4 DEF UntoldInv
    <2>2. runId' = f /\ l = "timer" => g # f
      BY <1>5
    <2> QED
      BY <2>1, <2>2
  <1>7. \A g \in unheard : at'[g] = "ended"
    BY <1>1, <1>2, <1>3 DEF UntoldInv, TypeOK
  <1> QED
    BY <1>1, <1>2, <1>4, <1>6, <1>7 DEF UntoldInv, serverVars

-----------------------------------------------------------------------------
(***************************************************************************)
(* The steps.                                                              *)
(***************************************************************************)

PageTypeOK ==
    /\ status \in {"idle", "working", "waiting", "error", "done"}
    /\ card \in CardType
    /\ key \in BOOLEAN
    /\ retry \in {"none", "chat", "agent"}
    /\ runId \in Flows \cup {None} /\ poll \in Flows \cup {None}
    /\ ctrl \in Flows \cup {None}
    /\ msgs \in Seq({"user", "assistant"})

LEMMA PageTyped == IInv => PageTypeOK /\ errors \in [Flows -> 0..MaxErrors]
  BY DEF IInv, TypeOK, PageTypeOK, CardType, CardSet

\* A flow comes to its end.
LEMMA FlowEnds ==
    ASSUME IInv, NEW f \in Flows, Alive(f), Goto(f, "ended"), PageTypeOK',
           errors' \in [Flows -> 0..MaxErrors],
           UNCHANGED <<serverVars, history>>, runId' \in {runId, None},
           \/ /\ at[f] = "chat" /\ ctrl' = None
              /\ msgs' = Popped(msgs) \/ msgs' = Append(msgs, "assistant")
           \/ at[f] # "chat" /\ UNCHANGED <<ctrl, msgs>>
    PROVE  IInv'
  <1>1. "ended" \in Places /\ UNCHANGED <<abandoned, unheard>>
    BY DEF Places, history
  <1>2. TypeOK'
    BY <1>1, TypeGoes DEF PageTypeOK, IInv, TypeOK
  <1>3. Alone'
    BY <1>1, AloneEnds
  <1>4. ConversationAlternates'
    BY <1>1, ConversationEnds, ConversationGoes
  <1>5. UntoldInv'
    BY <1>1, UntoldGoes DEF Alive
  <1> QED
    BY <1>2, <1>3, <1>4, <1>5 DEF IInv, PageTypeOK

\* An agent flow goes on.
LEMMA FlowGoes ==
    ASSUME IInv, NEW f \in Flows, Alive(f), at[f] # "chat",
           NEW l \in {"timer", "tick", "paused", "post"}, Goto(f, l),
           PageTypeOK', errors' \in [Flows -> 0..MaxErrors],
           UNCHANGED <<serverVars, history, status, ctrl, msgs>>,
           card'.kind = card.kind, card'.of = card.of,
           ~abandoned /\ card.of = f =>
               (l = "paused" <=> card'.buttons \in {"plan", "decide"}),
           (runId' = f /\ l = "timer") \/ (runId' = runId /\ at[f] # "create")
    PROVE  IInv'
  <1>1. l \in Places /\ l # "chat" /\ UNCHANGED <<abandoned, unheard>>
    BY DEF Places, history
  <1>2. TypeOK'
    BY <1>1, TypeGoes DEF PageTypeOK, IInv, TypeOK
  <1>3. Alone'
    BY <1>1, AloneGoes
  <1>4. ConversationAlternates'
    BY <1>1, ConversationGoes
  <1>5. UntoldInv'
    BY <1>1, UntoldGoes DEF Alive
  <1> QED
    BY <1>2, <1>3, <1>4, <1>5 DEF IInv, PageTypeOK

LEMMA CallbackIInv ==
    ASSUME IInv, NEW f \in Flows, Callback(f)
    PROVE  IInv'
  <1>1. PageTypeOK /\ errors \in [Flows -> 0..MaxErrors] /\ TypeOK
    BY PageTyped DEF IInv
  <1>2. Popped(msgs) \in Seq({"user", "assistant"})
        /\ Append(msgs, "assistant") \in Seq({"user", "assistant"})
    BY <1>1, PoppedType DEF PageTypeOK
  <1> USE DEF Alive, ChatEnds, Schedule, PollEnds, TickOver, Refused, DropCard
  <1>3. CASE ChatReply(f) \/ ChatRefused(f) \/ ChatFails(f)
    <2>1. PageTypeOK'
      BY <1>1, <1>2, <1>3, CardFacts
      DEF PageTypeOK, ChatReply, ChatRefused, ChatFails
    <2> QED
      BY <1>1, <1>3, <2>1, FlowEnds DEF ChatReply, ChatRefused, ChatFails
  <1>4. CASE CreateRefused(f) \/ TickGone(f) \/ TickRefused(f)
             \/ TickCompleted(f) \/ TickFailed(f)
    <2>a. errors' \in [Flows -> 0..MaxErrors]
      BY <1>1, <1>4
      DEF CreateRefused, TickGone, TickRefused, TickCompleted, TickFailed
    <2>b. ASSUME CreateRefused(f) PROVE PageTypeOK'
      BY <1>1, <2>b, CardFacts DEF PageTypeOK, CreateRefused
    <2>c. ASSUME TickGone(f) \/ TickRefused(f) PROVE PageTypeOK'
      BY <1>1, <2>c, CardFacts DEF PageTypeOK, TickGone, TickRefused
    <2>d. ASSUME TickCompleted(f) \/ TickFailed(f) PROVE PageTypeOK'
      BY <1>1, <2>d, CardFacts DEF PageTypeOK, TickCompleted, TickFailed
    <2>1. PageTypeOK' /\ errors' \in [Flows -> 0..MaxErrors]
      BY <1>4, <2>a, <2>b, <2>c, <2>d
    <2> QED
      BY <1>1, <1>4, <2>1, FlowEnds
      DEF CreateRefused, TickGone, TickRefused, TickCompleted, TickFailed
  <1>5. CASE CreateReply(f) \/ TimerFires(f) \/ TickWorking(f)
    <2>a. errors' \in [Flows -> 0..MaxErrors]
      BY <1>1, <1>5 DEF CreateReply, TimerFires, TickWorking
    <2>b. /\ UNCHANGED <<status, card, retry, key, ctrl, msgs>>
          /\ runId' \in {runId, f} /\ poll' \in {poll, f, None}
      BY <1>5 DEF CreateReply, TimerFires, TickWorking
    <2>1. PageTypeOK' /\ errors' \in [Flows -> 0..MaxErrors]
      BY <1>1, <2>a, <2>b DEF PageTypeOK
    <2>2. at[f] \in {"create", "timer", "tick"} /\ UNCHANGED card
      BY <1>5 DEF CreateReply, TimerFires, TickWorking
    <2>3. ~abandoned /\ card.of = f => card'.buttons \notin {"plan", "decide"}
      BY <2>2 DEF IInv, Alone, FlowIsShown
    <2>4. CASE CreateReply(f)
      <3>1. /\ Goto(f, "timer") /\ runId' = f /\ at[f] = "create"
            /\ UNCHANGED <<serverVars, history, status, ctrl, msgs>>
        BY <2>4 DEF CreateReply
      <3>2. card'.kind = card.kind /\ card'.of = card.of /\ Alive(f)
        BY <2>2, <3>1
      <3> HIDE DEF Alive
      <3> QED
        BY <2>1, <2>3, <3>1, <3>2, FlowGoes
    <2>5. CASE TimerFires(f)
      <3>1. /\ Goto(f, "tick") /\ runId' = runId /\ at[f] = "timer"
            /\ UNCHANGED <<serverVars, history, status, ctrl, msgs>>
        BY <2>5 DEF TimerFires
      <3> QED
        BY <2>1, <2>2, <2>3, <3>1, FlowGoes
    <2>6. CASE TickWorking(f)
      <3>1. /\ Goto(f, "timer") /\ runId' = runId /\ at[f] = "tick"
            /\ UNCHANGED <<serverVars, history, status, ctrl, msgs>>
        BY <2>6 DEF TickWorking
      <3> QED
        BY <2>1, <2>2, <2>3, <3>1, FlowGoes
    <2> QED
      BY <1>5, <2>4, <2>5, <2>6
  <1>6. CASE TickPauses(f)
    <2>1. PICK b \in {"stop", "plan", "decide"} :
              b # "stop" /\ Buttons(f, b)
      BY <1>6 DEF TickPauses
    <2>2. /\ Goto(f, "paused") /\ runId' = runId /\ at[f] = "tick"
          /\ UNCHANGED <<serverVars, history, status, key, retry, poll, ctrl,
                         msgs>>
          /\ errors' = [errors EXCEPT ![f] = 0]
      BY <1>6 DEF TickPauses
    <2>3. /\ card' \in CardType /\ card'.kind = card.kind /\ card'.of = card.of
          /\ card.of = f => card'.buttons \in {"plan", "decide"}
      BY <1>1, <2>1, ButtonsFacts DEF PageTypeOK
    <2>4. PageTypeOK' /\ errors' \in [Flows -> 0..MaxErrors]
      BY <1>1, <2>2, <2>3 DEF PageTypeOK
    <2> QED
      BY <2>2, <2>3, <2>4, FlowGoes
  <1>7. ASSUME NEW n \in Nat, at[f] = "tick", Caught(f, n) PROVE IInv'
    <2>1. CASE GivesUp(n)
      <3>1. /\ Goto(f, "ended") /\ ErrorCard
            /\ errors' = [errors EXCEPT ![f] = 0]
            /\ runId' = None
            /\ UNCHANGED <<key, retry, poll, ctrl, msgs, serverVars, history>>
        BY <1>7, <2>1 DEF Caught
      <3>2. PageTypeOK'
        BY <1>1, <3>1, CardFacts DEF PageTypeOK
      <3>3. errors' \in [Flows -> 0..MaxErrors]
        BY <1>1, <3>1
      <3> QED
        BY <1>1, <1>7, <3>1, <3>2, <3>3, FlowEnds
    <2>2. CASE ~GivesUp(n)
      <3>1. /\ Goto(f, "timer") /\ runId' = runId /\ at[f] = "tick"
            /\ UNCHANGED <<serverVars, history, status, card, ctrl, msgs, key,
                           retry>>
            /\ poll' = f /\ errors' = [errors EXCEPT ![f] = n]
        BY <1>7, <2>2 DEF Caught
      <3>2. PageTypeOK' /\ errors' \in [Flows -> 0..MaxErrors]
        BY <1>1, <1>7, <2>2, <3>1 DEF PageTypeOK, GivesUp
      <3>3. ~abandoned /\ card.of = f => card'.buttons \notin {"plan", "decide"}
        BY <3>1 DEF IInv, Alone, FlowIsShown
      <3> QED
        BY <3>1, <3>2, <3>3, FlowGoes
    <2> QED
      BY <2>1, <2>2
  <1>8. CASE PostOver(f)
    <2>1. CASE Goto(f, "timer") /\ poll' = f /\ UNCHANGED <<status, card>>
      <3>1. /\ at[f] = "post" /\ runId' = runId
            /\ UNCHANGED <<serverVars, history, ctrl, msgs, key, retry, errors>>
        BY <1>8 DEF PostOver
      <3>2. PageTypeOK' /\ errors' \in [Flows -> 0..MaxErrors]
        BY <1>1, <2>1, <3>1 DEF PageTypeOK
      <3>3. ~abandoned /\ card.of = f => card'.buttons \notin {"plan", "decide"}
        BY <2>1, <3>1 DEF IInv, Alone, FlowIsShown
      <3> QED
        BY <2>1, <3>1, <3>2, <3>3, FlowGoes
    <2>2. CASE ErrorCard /\ Goto(f, "ended") /\ UNCHANGED poll
      <3>1. PageTypeOK' /\ errors' \in [Flows -> 0..MaxErrors]
        BY <1>1, <1>8, <2>2, CardFacts DEF PageTypeOK, PostOver
      <3> QED
        BY <1>1, <1>8, <2>2, <3>1, FlowEnds DEF PostOver
    <2> QED
      BY <1>8, <2>1, <2>2 DEF PostOver
  <1>9. CASE CreateFails(f)
    <2>1. /\ at[f] = "create" /\ Goto(f, "ended") /\ ErrorCard
          /\ UNCHANGED <<key, retry, runId, poll, ctrl, msgs, errors,
                         serverVars, abandoned>>
          /\ unheard' \in {unheard, unheard \cup {f}}
      BY <1>9 DEF CreateFails
    <2>2. "ended" \in Places
      BY DEF Places
    <2>3. TypeOK'
      <3>1. unheard' \in SUBSET Flows
        BY <1>1, <2>1 DEF TypeOK
      <3> QED
        BY <1>1, <2>1, <2>2, <3>1, CardFacts, TypeGoes DEF PageTypeOK
    <2>4. Alone' /\ ConversationAlternates'
      BY <2>1, <2>2, AloneEnds, ConversationGoes
    <2>5. UntoldInv'
      <3>1. /\ at'[f] = "ended" /\ \A g \in Flows : g # f => at'[g] = at[g]
            /\ \A g \in Flows : target'[g] \in {target[g], None}
        BY <1>1, <2>1, <2>2, GotoFacts
      <3>2. \A g \in Flows : Untold(g)' => Untold(g)
        BY <2>1, <3>1 DEF Untold
      <3>3. \A g \in unheard' : at'[g] = "ended"
        BY <1>1, <2>1, <3>1 DEF IInv, UntoldInv, TypeOK
      <3> QED
        BY <1>1, <2>1, <3>1, <3>2, <3>3 DEF IInv, UntoldInv, serverVars
    <2> QED
      BY <2>1, <2>3, <2>4, <2>5, CardFacts DEF IInv
  <1>10. CASE TickFails(f)
    <2>1. OneMore(f) \in Nat
      BY <1>1 DEF OneMore
    <2> QED
      BY <1>7, <1>10, <2>1 DEF TickFails
  <1>11. CASE TickNoSnapshot(f)
    BY <1>7, <1>11 DEF TickNoSnapshot, Refused
  <1> QED
    BY <1>3, <1>4, <1>5, <1>6, <1>8, <1>9, <1>10, <1>11 DEF Callback

\* A flow starts while there is none.
LEMMA LaunchIInv ==
    ASSUME IInv, NEW f \in Flows, NEW kind \in {"none", "chat", "agent"},
           Launch(f, kind), ~abandoned => \A g \in Flows : ~Alive(g),
           key' \in BOOLEAN,
           UNCHANGED <<runId, poll, errors, serverVars, history>>
    PROVE  IInv'
  <1>1. PageTypeOK /\ errors \in [Flows -> 0..MaxErrors] /\ TypeOK
    BY PageTyped DEF IInv
  <1>2. PICK l \in {"chat", "create"} :
            /\ Goto(f, l)
            /\ l = "chat" => /\ msgs' = Append(msgs, "user") /\ ctrl' = f
                             /\ WorkingCard(f, "abort")
            /\ l = "create" => /\ UNCHANGED <<msgs, ctrl>>
                               /\ WorkingCard(f, "stop")
    BY DEF Launch
  <1>3. at[f] = "new" /\ retry' = kind /\ l \in Places
        /\ UNCHANGED <<abandoned, unheard>>
    BY DEF Launch, Places, history
  <1>4. /\ status' = "working" /\ card' \in CardType /\ card'.kind = "working"
        /\ card'.of = f /\ card'.buttons \in {"abort", "stop"}
    BY <1>2, CardFacts
  <1>5. /\ at'[f] = l /\ \A g \in Flows : g # f => at'[g] = at[g]
    BY <1>1, <1>2, <1>3, GotoFacts
  <1>6. Append(msgs, "user") \in Seq({"user", "assistant"})
    BY <1>1 DEF PageTypeOK
  <1>7. TypeOK'
    BY <1>1, <1>2, <1>3, <1>4, <1>6, TypeGoes DEF PageTypeOK, TypeOK
  <1>8. Alone'
    <2> SUFFICES ASSUME ~abandoned' PROVE Alone'
      BY DEF Alone
    <2>1. \A g \in Flows : g # f => ~Alive(g)'
      BY <1>3, <1>5 DEF Alive
    <2>2. \A g \in Flows : at[g] # "chat" /\ ctrl # g
      BY <1>3 DEF IInv, Alone, Alive
    <2>3. \A g \in Flows : at'[g] = "chat" <=> ctrl' = g
      BY <1>2, <1>5, <2>2
    <2> QED
      BY <1>4, <1>5, <2>1, <2>3 DEF Alone, FlowIsShown
  <1>9. ConversationAlternates'
    <2> SUFFICES ASSUME ~abandoned' PROVE ConversationAlternates'
      BY DEF ConversationAlternates
    <2>1. /\ ~(Len(msgs) % 2 = 1) /\ Len(msgs) \in Nat
          /\ \A i \in 1..Len(msgs) :
                 msgs[i] = IF i % 2 = 1 THEN "user" ELSE "assistant"
          /\ \A g \in Flows : at[g] # "chat"
      <3>1. \A g \in Flows : at[g] # "chat"
        BY <1>3 DEF Alive
      <3>2. msgs \in Seq({"user", "assistant"}) /\ Len(msgs) \in Nat
        BY <1>1 DEF PageTypeOK
      <3> QED
        BY <1>3, <3>1, <3>2 DEF IInv, ConversationAlternates
    <2>2. CASE l = "create"
      <3>1. msgs' = msgs
        BY <1>2, <1>5, <2>2
      <3>2. \A g \in Flows : at'[g] # "chat"
        BY <1>2, <1>5, <2>1, <2>2
      <3> QED
        BY <2>1, <3>1, <3>2 DEF ConversationAlternates
    <2>3. CASE l = "chat"
      <3>1. /\ Len(msgs') = Len(msgs) + 1 /\ msgs'[Len(msgs) + 1] = "user"
            /\ \A i \in 1..Len(msgs) : msgs'[i] = msgs[i]
        BY <1>1, <1>2, <2>3 DEF PageTypeOK
      <3>2. (Len(msgs) + 1) % 2 = 1
        BY <2>1
      <3>3. \A i \in 1..Len(msgs') : i \in 1..Len(msgs) \/ i = Len(msgs) + 1
        BY <2>1, <3>1
      <3>4. \A i \in 1..Len(msgs') :
                msgs'[i] = IF i % 2 = 1 THEN "user" ELSE "assistant"
        BY <2>1, <3>1, <3>2, <3>3
      <3> QED
        BY <1>5, <2>3, <3>1, <3>2, <3>4 DEF ConversationAlternates
    <2> QED
      BY <2>2, <2>3
  <1>10. UntoldInv'
    BY <1>2, <1>3, UntoldGoes
  <1> QED
    BY <1>4, <1>7, <1>8, <1>9, <1>10 DEF IInv

\* What leaves the flows and the conversation alone.
LEMMA PageOnly ==
    ASSUME IInv, PageTypeOK',
           UNCHANGED <<runId, ctrl, msgs, flowVars, serverVars, history>>,
           ~abandoned => \/ \A g \in Flows : ~Alive(g)
                         \/ UNCHANGED <<status, card>>
    PROVE  IInv'
  <1>1. UNCHANGED <<at, target, reply, errors, run, token, abandoned, unheard>>
    BY DEF flowVars, serverVars, history
  <1>2. TypeOK'
    BY <1>1 DEF IInv, TypeOK, PageTypeOK, CardType, CardSet
  <1>3. Alone'
    BY <1>1 DEF IInv, Alone, Alive, FlowIsShown
  <1>4. ConversationAlternates' /\ UntoldInv'
    BY <1>1 DEF IInv, ConversationAlternates, UntoldInv, Untold
  <1> QED
    BY <1>2, <1>3, <1>4 DEF IInv, PageTypeOK

LEMMA UserIInv ==
    ASSUME IInv, NEW f \in Flows, User(f)
    PROVE  IInv'
  <1>1. PageTypeOK /\ errors \in [Flows -> 0..MaxErrors] /\ TypeOK
    BY PageTyped DEF IInv
  <1>2. ASSUME NEW kind \in {"none", "chat", "agent"}, Send(f, kind),
               ~abandoned => \A g \in Flows : ~Alive(g)
        PROVE  IInv'
    <2>1. CASE Launch(f, kind)
      BY <1>1, <1>2, <2>1, LaunchIInv DEF Send, PageTypeOK
    <2>2. CASE ~Launch(f, kind)
      <3>1. /\ WaitingCard(kind)
            /\ UNCHANGED <<key, retry, ctrl, msgs, at, target, reply, runId,
                           poll, errors, serverVars, history>>
        BY <1>2, <2>2 DEF Send
      <3>2. PageTypeOK'
        BY <1>1, <3>1, CardFacts DEF PageTypeOK
      <3> QED
        BY <1>2, <3>1, <3>2, PageOnly DEF flowVars
    <2> QED
      BY <2>1, <2>2
  <1>3. ~abandoned /\ (card.kind # "working" \/ status # "working") =>
            \A g \in Flows : ~Alive(g)
    BY DEF IInv, Alone, FlowIsShown
  <1>4. CASE Submit(f)
    BY <1>2, <1>3, <1>4 DEF Submit, FormIsOpen
  <1>5. CASE Retry(f)
    BY <1>1, <1>2, <1>3, <1>5 DEF Retry, PageTypeOK
  <1>6. CASE EnterKey(f)
    <2>1. CASE card.buttons # "nothing"
      <3>1. Launch(f, card.buttons)
        BY <1>6, <2>1 DEF EnterKey
      <3>2. card.buttons \in {"none", "chat", "agent"}
        BY <1>1, <1>6, <2>1 DEF PageTypeOK, CardType, EnterKey
      <3> QED
        BY <1>3, <1>6, <3>1, <3>2, LaunchIInv DEF EnterKey
    <2>2. CASE card.buttons = "nothing"
      <3>1. /\ DropCard /\ key' = TRUE
            /\ UNCHANGED <<status, retry, ctrl, msgs, at, target, reply, runId,
                           poll, errors, serverVars, history>>
        BY <1>6, <2>2 DEF EnterKey, Launch
      <3>2. PageTypeOK'
        BY <1>1, <3>1, CardFacts DEF PageTypeOK, DropCard
      <3> QED
        BY <1>3, <1>6, <3>1, <3>2, PageOnly DEF flowVars, EnterKey
    <2> QED
      BY <2>1, <2>2
  <1>7. CASE Answer(f)
    <2>1. /\ at[f] = "paused" /\ Goto(f, "post") /\ Buttons(f, "stop")
          /\ UNCHANGED <<status, key, retry, runId, poll, ctrl, msgs, errors,
                         serverVars, history>>
      BY <1>7 DEF Answer
    <2>2. /\ card' \in CardType /\ card'.kind = card.kind /\ card'.of = card.of
          /\ card.of = f => card'.buttons \notin {"plan", "decide"}
      BY <1>1, <2>1, ButtonsFacts DEF PageTypeOK
    <2>3. PageTypeOK' /\ errors' \in [Flows -> 0..MaxErrors]
      BY <1>1, <2>1, <2>2 DEF PageTypeOK
    <2> QED
      BY <2>1, <2>2, <2>3, FlowGoes DEF Alive
  <1>8. CASE CancelPlan(f)
    <2>1. PageTypeOK'
      BY <1>1, <1>8, CardFacts DEF PageTypeOK, CancelPlan, DropCard
    <2> QED
      BY <1>1, <1>8, <2>1, FlowEnds DEF CancelPlan, Alive
  <1> QED
    BY <1>4, <1>5, <1>6, <1>7, <1>8 DEF User

LEMMA ServerIInv ==
    ASSUME IInv, NEW f \in Flows,
           ServerActs(f) \/ Server(f)
    PROVE  IInv'
  <1>1. UNCHANGED <<pageVars, at, target, errors, history>>
    BY DEF ServerActs, Server, RunMoves, RunEnds, RunIsLost, flowVars
  <1>2. Alone' /\ ConversationAlternates'
    BY <1>1 DEF IInv, Alone, Alive, FlowIsShown, ConversationAlternates,
                pageVars, history
  <1>3. TypeOK'
    <2> DEFINE Stages == {"none", "planning", "planned", "executing",
                          "awaiting", "completed", "failed", "lost"}
    <2>1. /\ reply \in [Flows -> Replies \cup {None}]
          /\ run \in [Flows -> Stages] /\ token \in [Flows -> BOOLEAN]
          /\ target \in [Flows -> Flows \cup {None}]
      BY DEF IInv, TypeOK, Replies
    <2>2. reply' \in [Flows -> Replies \cup {None}]
      <3>1. CASE ServerActs(f)
        <4>1. target[f] \in Flows \cup {None}
          BY <2>1
        <4>2. at[f] = "tick" => Snapshot(target[f]) \in Replies
          BY <2>1, <4>1 DEF Snapshot, Replies
        <4>3. PICK x \in Replies : reply' = [reply EXCEPT ![f] = x]
          BY <3>1, <4>2 DEF ServerActs, Replies
        <4> QED
          BY <2>1, <4>3
      <3>2. CASE Server(f)
        BY <2>1, <3>2 DEF Server, RunMoves, RunEnds, RunIsLost, flowVars
      <3> QED
        BY <3>1, <3>2
    <2>3. run' \in [Flows -> Stages] /\ token' \in [Flows -> BOOLEAN]
      <3>1. CASE ServerActs(f)
        BY <2>1, <3>1 DEF ServerActs, serverVars
      <3>2. CASE Server(f)
        BY <2>1, <3>2 DEF Server, RunMoves, RunEnds, RunIsLost
      <3> QED
        BY <3>1, <3>2
    <2> QED
      BY <1>1, <2>2, <2>3 DEF IInv, TypeOK, Replies, pageVars, history
  <1>4. UntoldInv'
    <2>1. \A g \in Flows : Untold(g)' <=> Untold(g)
      BY <1>1 DEF Untold, history
    <2>2. ASSUME NEW g \in Flows, Untold(g)
          PROVE  ~token'[g]
                 /\ run'[g] \notin {"executing", "awaiting", "completed"}
      <3>1. /\ ~token[g] /\ \A h \in Flows : target[h] # g
            /\ run[g] \notin {"executing", "awaiting", "completed"}
        BY <2>2 DEF IInv, UntoldInv
      <3>2. CASE ServerActs(f)
        BY <3>1, <3>2 DEF ServerActs, serverVars, IInv, TypeOK
      <3>3. CASE Server(f)
        BY <3>1, <3>3 DEF Server, RunMoves, Answered, RunEnds, RunIsLost, IInv,
                          TypeOK
      <3> QED
        BY <3>2, <3>3
    <2> QED
      BY <1>1, <2>1, <2>2 DEF IInv, UntoldInv, pageVars, history
  <1> QED
    BY <1>1, <1>2, <1>3, <1>4 DEF IInv, pageVars

\* The buttons above the cards: Stop, and those of the header.
LEMMA HeaderIInv ==
    ASSUME IInv, SetKey \/ CancelCard \/ StopChat \/ NewChat \/ DoneFades
    PROVE  IInv'
  <1>1. PageTypeOK /\ errors \in [Flows -> 0..MaxErrors] /\ TypeOK
    BY PageTyped DEF IInv
  <1>2. ~abandoned /\ (card.kind # "working" \/ status # "working") =>
            \A g \in Flows : ~Alive(g)
    BY DEF IInv, Alone, FlowIsShown
  <1>3. CASE SetKey
    <2>1. PageTypeOK'
      BY <1>1, <1>3 DEF PageTypeOK, SetKey
    <2> QED
      BY <1>3, <2>1, PageOnly DEF SetKey
  <1>4. CASE CancelCard
    <2>1. PageTypeOK'
      BY <1>1, <1>4, CardFacts DEF PageTypeOK, CancelCard, DropCard
    <2> QED
      BY <1>2, <1>4, <2>1, PageOnly DEF CancelCard
  <1>5. CASE DoneFades
    <2>1. PageTypeOK'
      BY <1>1, <1>5 DEF PageTypeOK, DoneFades
    <2> QED
      BY <1>2, <1>5, <2>1, PageOnly DEF DoneFades
  <1>6. CASE StopChat
    <2>1. PICK f \in Flows : f = ctrl
      BY <1>1, <1>6 DEF PageTypeOK, StopChat
    <2>2. /\ Goto(f, "ended") /\ ctrl' = None /\ DropCard /\ msgs' = Popped(msgs)
          /\ status' = "idle" /\ "ended" \in Places
          /\ UNCHANGED <<key, retry, runId, poll, errors, serverVars, history,
                         abandoned, unheard>>
      BY <1>6, <2>1 DEF StopChat, Places, history
    <2>3. PageTypeOK' /\ TypeOK'
      <3>1. PageTypeOK'
        BY <1>1, <2>2, CardFacts, PoppedType DEF PageTypeOK, DropCard
      <3> QED
        BY <1>1, <2>2, <3>1, TypeGoes DEF PageTypeOK, TypeOK
    <2>4. CASE ~abandoned
      <3>1. at[f] = "chat"
        BY <2>1, <2>4 DEF IInv, Alone
      <3> QED
        BY <1>1, <2>2, <2>3, <3>1, FlowEnds DEF Alive
    <2>5. CASE abandoned
      <3>1. Alone' /\ ConversationAlternates'
        BY <2>2, <2>5 DEF Alone, ConversationAlternates
      <3>2. UntoldInv'
        BY <2>2, UntoldGoes
      <3> QED
        BY <2>3, <3>1, <3>2 DEF IInv, PageTypeOK
    <2> QED
      BY <2>4, <2>5
  <1>7. CASE NewChat
    <2>1. /\ status' = "idle" /\ card' = NoCard /\ runId' = None /\ poll' = None
          /\ ctrl' = None /\ msgs' = << >>
          /\ at' = [f \in Flows |->
                        IF f \in {ctrl, poll} \/ at[f] = "paused"
                          THEN "ended" ELSE at[f]]
          /\ reply' = [f \in Flows |-> IF at'[f] = at[f] THEN reply[f] ELSE None]
          /\ abandoned' = (abandoned \/ \E f \in Flows :
                                     at'[f] \notin {"new", "ended"})
          /\ errors' = [f \in Flows |-> IF at'[f] = at[f] THEN errors[f] ELSE 0]
          /\ UNCHANGED <<key, retry, target, run, token, unheard>>
      BY <1>7 DEF NewChat, DropCard, serverVars
    <2>2. TypeOK'
      <3>1. /\ at' \in [Flows -> {"new", "chat", "create", "timer", "tick",
                                "paused", "post", "ended"}]
            /\ reply' \in [Flows -> {None, "ok", "gone", "none", "planning",
                                   "planned", "executing", "awaiting",
                                   "completed", "failed"}]
        BY <1>1, <2>1 DEF TypeOK
      <3>2. << >> \in Seq({"user", "assistant"})
        OBVIOUS
      <3>3. NoCard \in CardSet
        BY DEF NoCard, CardSet
      <3>4. abandoned' \in BOOLEAN
        BY <2>1, ZenonT(20)
      <3> QED
        BY <1>1, <2>1, <3>1, <3>2, <3>3, <3>4 DEF TypeOK, CardSet
    <2>3. ~abandoned' => \A f \in Flows : at'[f] \in {"new", "ended"}
      BY <2>1
    <2>4. Alone'
      BY <2>1, <2>3 DEF Alone, Alive, FlowIsShown
    <2>5. ConversationAlternates'
      BY <2>1, <2>3 DEF ConversationAlternates
    <2>6. UntoldInv'
      <3>1. \A g \in Flows : at'[g] \in {at[g], "ended"}
        BY <2>1
      <3>2. \A g \in Flows : Untold(g)' => Untold(g)
        BY <2>1, <3>1 DEF Untold
      <3>3. \A g \in unheard : g \in Flows /\ at'[g] = "ended"
        BY <1>1, <3>1 DEF IInv, UntoldInv, TypeOK
      <3> QED
        BY <2>1, <3>2, <3>3 DEF IInv, UntoldInv
    <2> QED
      BY <2>1, <2>2, <2>4, <2>5, <2>6, CardFacts DEF IInv
  <1> QED
    BY <1>3, <1>4, <1>5, <1>6, <1>7

-----------------------------------------------------------------------------
(***************************************************************************)
(* The theorems.                                                           *)
(***************************************************************************)

LEMMA StepIInv == IInv /\ [Next]_vars => IInv'
  <1> SUFFICES ASSUME IInv, [Next]_vars PROVE IInv'
    OBVIOUS
  <1>1. ASSUME NEW f \in Flows, User(f) \/ Callback(f) PROVE IInv'
    BY <1>1, UserIInv, CallbackIInv
  <1>2. ASSUME NEW f \in Flows,
               ServerActs(f) \/ Server(f)
        PROVE  IInv'
    BY <1>2, ServerIInv
  <1>3. CASE SetKey \/ CancelCard \/ StopChat \/ NewChat \/ DoneFades
    BY <1>3, HeaderIInv
  <1>4. CASE UNCHANGED vars
    <2> USE <1>4 DEF vars, pageVars, flowVars, serverVars, history
    <2>1. TypeOK' /\ card' \in CardType
      BY DEF IInv, TypeOK
    <2>2. Alone' /\ ConversationAlternates'
      BY DEF IInv, Alone, Alive, FlowIsShown, ConversationAlternates
    <2>3. UntoldInv'
      BY DEF IInv, UntoldInv, Untold
    <2> QED
      BY <2>1, <2>2, <2>3 DEF IInv
  <1> QED
    BY <1>1, <1>2, <1>3, <1>4 DEF Next

LEMMA Invariance == Spec => []IInv
  BY InitIInv, StepIInv, PTL DEF Spec

\* Every variable of the page, of its flows and of the server stays in its
\* range; in particular no poller retries more errors in a row than pollRun
\* allows.
THEOREM TypeCorrect == Spec => []TypeOK
  <1>1. IInv => TypeOK
    BY DEF IInv
  <1> QED
    BY <1>1, Invariance, PTL

\* The conversation the page sends upstream alternates between
\* questions and answers, whichever flows failed, were refused or stopped.
THEOREM ConversationIsSound == Spec => []ConversationAlternates
  <1>1. IInv => ConversationAlternates
    BY DEF IInv
  <1> QED
    BY <1>1, Invariance, PTL

\* The card, the buttons and the run id that all the flows share are those of
\* the one flow that is alive, until New Chat leaves one behind.
THEOREM ShownFlowIsTheLiveOne == Spec => []FlowIsShown
  <1>1. IInv => FlowIsShown
    BY DEF IInv, Alone, FlowIsShown
  <1> QED
    BY <1>1, Invariance, PTL

\* A run whose create answer was lost never gets past its gate: no variable of
\* the page ever names it, so nothing the user approves later is about it.
THEOREM LostRunWaits == Spec => []UnheardRunIsIdle
  <1>1. IInv => UnheardRunIsIdle
    BY DEF IInv, TypeOK, UntoldInv, Untold, UnheardRunIsIdle
  <1> QED
    BY <1>1, Invariance, PTL

-----------------------------------------------------------------------------
(***************************************************************************)
(* The runs the page meets are those of PolledRun.                         *)
(***************************************************************************)
LEMMA RunTyped ==
    IInv => /\ \A g \in Flows : run[g] \in {"none", "planning", "planned",
                   "executing", "awaiting", "completed", "failed", "lost"}
            /\ run \in [Flows -> {"none", "planning", "planned", "executing",
                                  "awaiting", "completed", "failed", "lost"}]
            /\ token \in [Flows -> BOOLEAN]
            /\ target \in [Flows -> Flows \cup {None}]
  BY DEF IInv, TypeOK

(***************************************************************************)
(* A request creates one run at most, and only the request does.           *)
(***************************************************************************)
NotCreated(f) == at[f] = "new" \/ (at[f] = "create" /\ reply[f] = None)

CreateInv == \A f \in Flows : NotCreated(f) => run[f] = "none"

\* The flow that goes on is not there again.
LEMMA GoesOn ==
    ASSUME IInv, CreateInv, NEW f \in Flows, NEW l \in Places, Goto(f, l),
           l # "new", l = "create" => at[f] = "new", run' = run
    PROVE  CreateInv'
  <1>1. TypeOK
    BY DEF IInv
  <1>2. \A g \in Flows : NotCreated(g)' => NotCreated(g)
    BY <1>1, GotoFacts DEF NotCreated
  <1> QED
    BY <1>2 DEF CreateInv

LEMMA CreatedOnce == Spec => []CreateInv
  <1>1. Init => CreateInv
    BY DEF Init, CreateInv
  <1>2. IInv /\ CreateInv /\ [Next]_vars => CreateInv'
    <2> SUFFICES ASSUME IInv, CreateInv, [Next]_vars PROVE CreateInv'
      OBVIOUS
    <2>1. ASSUME UNCHANGED <<at, reply, run>> PROVE CreateInv'
      BY <2>1 DEF CreateInv, NotCreated
    <2>2. ASSUME NEW f \in Flows, User(f) \/ Callback(f) PROVE CreateInv'
      <3>1. UNCHANGED run
        BY <2>2 DEF User, Submit, Send, Retry, EnterKey, Answer, CancelPlan,
                    Callback, ChatReply, ChatRefused, ChatFails, CreateReply,
                    CreateRefused, CreateFails, TimerFires, TickGone,
                    TickRefused, TickFails, TickNoSnapshot, Caught,
                    TickWorking, TickPauses, TickCompleted, TickFailed,
                    PostOver, serverVars
      <3>2. \/ UNCHANGED <<at, reply>>
            \/ Goto(f, "create") /\ at[f] = "new"
            \/ \E l \in Places \ {"new", "create"} : Goto(f, l)
        BY <2>2 DEF User, Submit, Send, Retry, EnterKey, Launch, Answer,
                    CancelPlan, Callback, ChatReply, ChatRefused, ChatFails,
                    ChatEnds, CreateReply, CreateRefused, CreateFails,
                    TimerFires, TickGone, TickRefused, TickFails,
                    TickNoSnapshot, Caught, TickWorking, TickPauses,
                    TickCompleted, TickFailed, PostOver, PollEnds, Schedule,
                    TickOver, Refused, Places
      <3> QED
        BY <2>1, <3>1, <3>2, GoesOn DEF Places
    <2>3. ASSUME NEW f \in Flows,
                 ServerActs(f) \/ Server(f)
          PROVE  CreateInv'
      <3>1. at' = at /\ reply \in [Flows -> Replies \cup {None}]
        BY <2>3 DEF ServerActs, Server, RunMoves, RunEnds, RunIsLost, flowVars,
                    IInv, TypeOK, Replies
      <3>2. CASE ServerActs(f)
        <4>1. \A g \in Flows : g # f =>
                  reply'[g] = reply[g] /\ run'[g] = run[g]
          BY <3>1, <3>2, RunTyped DEF ServerActs, serverVars
        <4>2. \/ run' = run /\ reply[f] = None
              \/ at[f] = "create" /\ reply'[f] = "ok"
          BY <3>1, <3>2 DEF ServerActs, serverVars
        <4>3. NotCreated(f)' => NotCreated(f) /\ run'[f] = run[f]
          BY <3>1, <4>2 DEF NotCreated
        <4> QED
          BY <3>1, <4>1, <4>3 DEF CreateInv, NotCreated
      <3>3. CASE Server(f)
        <4>1. \A g \in Flows : run[g] = "none" => run'[g] = "none"
          BY <3>3, RunTyped DEF Server, RunMoves, Answered, RunEnds, RunIsLost
        <4> QED
          BY <3>1, <3>3, <4>1
          DEF Server, RunMoves, RunEnds, RunIsLost, flowVars, CreateInv,
              NotCreated
      <3> QED
        BY <2>3, <3>2, <3>3
    <2>4. CASE StopChat
      <3>1. ctrl \in Flows /\ Goto(ctrl, "ended") /\ UNCHANGED run
        BY <2>4, RunTyped DEF StopChat, serverVars, IInv, TypeOK
      <3> QED
        BY <3>1, GoesOn DEF Places
    <2>5. CASE NewChat
      BY <2>5 DEF NewChat, serverVars, CreateInv, NotCreated
    <2>6. CASE SetKey \/ CancelCard \/ DoneFades \/ UNCHANGED vars
      BY <2>1, <2>6 DEF SetKey, CancelCard, DoneFades, vars, flowVars,
                        serverVars
    <2> QED
      BY <2>2, <2>3, <2>4, <2>5, <2>6 DEF Next
  <1> QED
    BY <1>1, <1>2, Invariance, PTL DEF Spec

LEMMA RunStep ==
    ASSUME IInv, CreateInv, [Next]_vars, NEW f \in Flows
    PROVE  [Polled(f)!Next]_(Polled(f)!vars)
  <1> USE RunTyped DEF Polled!Next, Polled!vars
  <1>1. CASE UNCHANGED serverVars
    BY <1>1 DEF serverVars
  <1>2. ASSUME NEW g \in Flows, RunMoves(g)
        PROVE  [Polled(f)!Next]_(Polled(f)!vars)
    BY <1>2 DEF RunMoves, Answered, Polled!Propose, Polled!Release,
                Polled!Pause, Polled!Resume
  <1>3. ASSUME NEW g \in Flows, RunEnds(g)
        PROVE  [Polled(f)!Next]_(Polled(f)!vars)
    <2>1. CASE g = f
      BY <1>3, <2>1 DEF RunEnds, Polled!Complete, Polled!Fail, Polled!Working
    <2>2. CASE g # f
      BY <1>3, <2>2 DEF RunEnds
    <2> QED
      BY <2>1, <2>2
  <1>4. ASSUME NEW g \in Flows, RunIsLost(g)
        PROVE  [Polled(f)!Next]_(Polled(f)!vars)
    BY <1>4 DEF RunIsLost, Polled!Lose
  <1>5. ASSUME NEW g \in Flows, ServerActs(g)
        PROVE  [Polled(f)!Next]_(Polled(f)!vars)
    <2>1. CASE UNCHANGED serverVars
      BY <2>1, <1>1
    <2>2. CASE /\ at[g] = "create" /\ reply[g] = None /\ UNCHANGED token
               /\ run' = [run EXCEPT ![g] = "planning"]
      BY <2>2 DEF CreateInv, NotCreated
    <2>3. CASE /\ target[g] \in Flows /\ run[target[g]] = "planned"
               /\ token' = [token EXCEPT ![target[g]] = TRUE] /\ UNCHANGED run
      BY <2>3 DEF Polled!Grant
    <2> QED
      BY <1>5, <2>1, <2>2, <2>3 DEF ServerActs, Snapshot, serverVars
  <1>6. CASE ~UNCHANGED serverVars
    <2>1. \E g \in Flows :
              RunMoves(g) \/ RunEnds(g) \/ RunIsLost(g) \/ ServerActs(g)
      BY <1>6 DEF Next, User, Submit, Send, Retry, EnterKey, Answer,
                  CancelPlan, Callback, ChatReply, ChatRefused, ChatFails,
                  CreateReply, CreateRefused, CreateFails, TimerFires,
                  TickGone, TickRefused, TickFails, TickWorking, TickPauses,
                  TickCompleted, TickFailed, PostOver, Server,
                  Caught, TickNoSnapshot, SetKey, CancelCard, StopChat,
                  NewChat, DoneFades, vars
    <2> QED
      BY <2>1, <1>2, <1>3, <1>4, <1>5
  <1> QED
    BY <1>1, <1>6

\* Every run of the page is a gated run: it is created once, however often the
\* page asks for it in vain, and works only on an approval.
THEOREM RunsArePolled ==
    ASSUME NEW f \in Flows
    PROVE  Spec => Polled(f)!Spec
  <1>1. Init => Polled(f)!Init
    BY DEF Init, Polled!Init
  <1>2. IInv /\ CreateInv /\ [Next]_vars
        => [Polled(f)!Next]_(Polled(f)!vars)
    BY RunStep
  <1> QED
    BY <1>1, <1>2, Invariance, CreatedOnce, PTL DEF Spec, Polled!Spec

\* The run of f alone takes a step.
OnlyRun(f) ==
    /\ run' = [run EXCEPT ![f] = run'[f]]
    /\ token' = [token EXCEPT ![f] = token'[f]]
    /\ UNCHANGED <<pageVars, flowVars, history>>

\* And none is missing: whatever PolledRun lets a run do by itself, the runs of
\* the page may do, at any time; only the approval is left to the page.
THEOREM PolledRunsAreMet ==
    ASSUME TypeOK, NEW f \in Flows, run[f] # "none", OnlyRun(f),
           \/ Polled(f)!Propose \/ Polled(f)!Release
           \/ Polled(f)!Pause \/ Polled(f)!Resume
           \/ Polled(f)!Complete \/ Polled(f)!Fail \/ Polled(f)!Lose,
           run'[f] # "none"
    PROVE  Server(f)
  <1>1. run \in [Flows -> {"none", "planning", "planned", "executing",
                           "awaiting", "completed", "failed", "lost"}]
        /\ token \in [Flows -> BOOLEAN]
    BY DEF TypeOK
  <1> QED
    BY <1>1 DEF OnlyRun, Server, RunMoves, Answered, RunEnds, RunIsLost,
                Polled!Propose, Polled!Release, Polled!Pause, Polled!Resume,
                Polled!Complete, Polled!Fail, Polled!Lose, Polled!Working

=============================================================================
