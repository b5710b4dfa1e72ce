-------------------------- MODULE NegotiationProofs --------------------------
(***************************************************************************)
(* Proofs about Negotiation, for every set of services, offers, amounts    *)
(* and concurrent invocations, and any number of crashes.                  *)
(***************************************************************************)
EXTENDS Negotiation, FiniteSetTheorems, TLAPS

----------------------------------------------------------------------------
(* The inductive invariant *)

\* What the rows agree on
Rows ==
    /\ \A o \in Offers : offer[o] # "ABSENT" => about[o] \in Threads /\ amount[o] \in Amounts
    /\ \A o \in Offers : offer[o] = "ACCEPTED" => amount[o] \in terms[about[o]]
    /\ \A t \in Threads : {agreed[t], listPrice[t]} \subseteq terms[t] \cup {None}

\* What an invocation knows whatever else happens
KnowsRows(c) ==
    /\ c.pc # "idle" => c.tgt \in Threads
    /\ c.pc \in DecidingSteps => thread[c.tgt] # "ABSENT"
    /\ c.pc = "quote.create" => c.amt \in Amounts
    /\ c.pc \in {"accept.transaction", "reject.update"} =>
          c.offer \in Offers /\ offer[c.offer] # "ABSENT" /\ about[c.offer] = c.tgt
    /\ c.pc = "checkout.insert" => c.amt \in terms[c.tgt]

\* At most one quote per thread, two after a re-quote; one of them in play.
QuoteCount(t) ==
    /\ t \notin requoted => \A o, p \in OffersOf(t) : o = p
    /\ \A o, p, q \in OffersOf(t) : o = p \/ p = q \/ o = q

Deal(t) ==
    /\ \A o, p \in Live(t) : o = p
    /\ thread[t] = "DEAL_ACCEPTED" <=> Accepted(t) # {}

\* What an invocation knows of a thread on which no two decisions overlapped
KnowsThread(c) ==
    /\ c.pc = "quote.create" =>
          /\ thread[c.tgt] = "OPEN" /\ Live(c.tgt) = {}
          /\ c.tgt \notin requoted => OffersOf(c.tgt) = {}
          /\ \A o, p \in OffersOf(c.tgt) : o = p
    /\ c.pc \in {"accept.transaction", "reject.update"} => Decidable(c.offer)
    /\ c.pc \in {"requote.find", "requote.transaction"} => thread[c.tgt] = "OPEN" /\ c.tgt \notin requoted
    /\ c.pc = "requote.transaction" =>
          OffersOf(c.tgt) # {} /\ (c.seen <=> Pending(c.tgt) # {})
    /\ c.pc = "checkout.insert" /\ c.after => AtTheDeal(c)

CallsKnowRows   == \A hd \in Handlers : KnowsRows(call[hd])
CallsKnowThread == \A hd \in Handlers : call[hd].tgt \in Threads \ raced => KnowsThread(call[hd])
ThreadsOrderly  == \A t \in Threads \ raced : QuoteCount(t) /\ Deal(t)
OneDecision     == \A t \in Threads \ raced : \A hd, other \in Handlers :
                      Decides(call[hd], t) /\ Decides(call[other], t) => hd = other

\* What a booking was paid at is one of its charges.
AgreedIsCharged == \A t \in Threads : agreed[t] # None =>
                      \E d \in charges : d.tgt = t /\ d.amt = agreed[t]

IInv ==
    /\ TypeOK
    /\ Rows
    /\ CallsKnowRows
    /\ CallsKnowThread
    /\ ThreadsOrderly
    /\ OneDecision
    /\ AgreedIsCharged
    /\ PriceWasAgreed
    /\ ChargesAreTheDeal

\* What the invocations that add requests and threads know
OneAdder   == ~hubRaced => \A hd, other \in Handlers : Adds(call[hd]) /\ Adds(call[other]) => hd = other
NoneBefore == life[Venue] = "ABSENT" =>
                 /\ \A s \in Services : requests[s] = 0
                 /\ \A hd \in Handlers : ~Adds(call[hd])
YetToAdd   == ~hubRaced =>
                 \A hd \in Handlers : At(hd, "post.request") \/ (call[hd].fresh /\ Adds(call[hd])) =>
                    \A s \in call[hd].todo : requests[s] = 0
InOrder    == \A hd \in Handlers :
                 /\ ~Adds(call[hd]) => ~call[hd].fresh
                 /\ At(hd, "end.update") => call[hd].to # "ABSENT"
Opened     == crashes = 0 /\ thread[Venue] # "ABSENT" =>
                 \/ Venue \in opening
                 \/ \E hd \in Handlers : At(hd, "thread.seed") /\ call[hd].tgt = Venue

HubInv == OneAdder /\ NoneBefore /\ YetToAdd /\ InOrder /\ Opened /\ OneRequestPerService

----------------------------------------------------------------------------
(* The invocation slots *)

\* The invocation in slot hd becomes c and the others stand still.
Moves(hd, c) ==
    /\ call' \in [Handlers -> Calls]
    /\ call'[hd] = c
    /\ \A other \in Handlers \ {hd} : call'[other] = call[other]

LEMMA IdleIsACall == Idle \in Calls
BY DEF Idle, Calls, Steps, Lives, Sources

LEMMA SlotEffect ==
  ASSUME NEW hd \in Handlers, NEW c \in Calls, TypeOK, Become(hd, c)
  PROVE  Moves(hd, c)
BY DEF TypeOK, Become, Moves

LEMMA ContinueEffect ==
  ASSUME NEW hd \in Handlers, NEW pc \in Steps, TypeOK, Continue(hd, pc)
  PROVE  Moves(hd, [call[hd] EXCEPT !.pc = pc])
<1>1. [call[hd] EXCEPT !.pc = pc] \in Calls
  BY DEF TypeOK, Calls
<1>. QED  BY <1>1, SlotEffect DEF Continue

LEMMA FinishEffect ==
  ASSUME NEW hd \in Handlers, TypeOK, Finish(hd)
  PROVE  Moves(hd, Idle)
BY IdleIsACall, SlotEffect DEF Finish

LEMMA BeginEffect ==
  ASSUME NEW hd \in Handlers, NEW c \in Calls, TypeOK, Begin(hd, c)
  PROVE  Moves(hd, c) /\ call[hd] = Idle
BY SlotEffect DEF Begin

----------------------------------------------------------------------------
(* Steps that touch no quote and no price *)

\* c decides about a thread only if the invocation in slot hd did, or nobody else does.
NoNewRace(hd, c) ==
    \A t \in Threads \ raced' : Decides(c, t) =>
        Decides(call[hd], t) \/ \A other \in Handlers \ {hd} : ~Decides(call[other], t)

\* Threads may open; quotes, prices and requests for a second quote stand still.
Still ==
    /\ life' \in [Threads -> Lives]
    /\ requests' \in [Services -> Nat]
    /\ thread' \in [Threads -> ThreadStates]
    /\ \A t \in Threads : thread'[t] = thread[t] \/ (thread[t] = "ABSENT" /\ thread'[t] = "OPEN")
    /\ opening' \subseteq Threads
    /\ raced \subseteq raced' /\ raced' \subseteq Threads
    /\ hubRaced' \in BOOLEAN
    /\ crashes' \in 0..MaxCrashes
    /\ UNCHANGED requoted
    /\ UNCHANGED_offers
    /\ UNCHANGED_prices

LEMMA RaceStep ==
  ASSUME IInv, NEW hd \in Handlers, NEW c \in Calls, Moves(hd, c), NoNewRace(hd, c),
         raced \subseteq raced'
  PROVE  OneDecision'
<1>. SUFFICES ASSUME NEW t \in Threads \ raced', NEW a \in Handlers, NEW b \in Handlers,
                     Decides(call'[a], t), Decides(call'[b], t)
              PROVE  a = b
  BY DEF OneDecision, Decides
<1>1. t \in Threads \ raced
  OBVIOUS
<1>. QED  BY <1>1 DEF IInv, OneDecision, Moves, NoNewRace

\* An accepted offer that stays, and charges that stay, keep the deal.
LEMMA StillAtTheDeal ==
  ASSUME NEW c, AtTheDeal(c), charges \subseteq charges',
         \A o \in Accepted(c.tgt) : o \in Accepted(c.tgt)' /\ amount'[o] = amount[o]
  PROVE  AtTheDeal(c)'
BY DEF AtTheDeal

LEMMA StillStep ==
  ASSUME IInv, Still, NEW hd \in Handlers, NEW c \in Calls, Moves(hd, c), NoNewRace(hd, c),
         KnowsRows(c), c.tgt \in Threads \ raced' => KnowsThread(c)'
  PROVE  IInv'
<1>. USE DEF Still, UNCHANGED_offers, UNCHANGED_prices
<1>1. TypeOK'
  BY DEF IInv, TypeOK, Moves
<1>2. Rows' /\ PriceWasAgreed'
  BY DEF IInv, Rows, PriceWasAgreed
<1>3. CallsKnowRows'
  BY DEF IInv, CallsKnowRows, KnowsRows, Moves, DecidingSteps
<1>4. \A t \in Threads : /\ OffersOf(t)' = OffersOf(t)
                         /\ Pending(t)' = Pending(t)
                         /\ Accepted(t)' = Accepted(t)
                         /\ Live(t)' = Live(t)
  BY DEF OffersOf, Pending, Accepted, Live
<1>5. ThreadsOrderly'
  BY <1>4 DEF IInv, ThreadsOrderly, QuoteCount, Deal
<1>6. ChargesAreTheDeal' /\ AgreedIsCharged'
  BY <1>4 DEF IInv, TypeOK, Charges, ChargesAreTheDeal, AtTheDeal, AgreedIsCharged
<1>7. ASSUME NEW other \in Handlers \ {hd}, call[other].tgt \in Threads \ raced'
      PROVE  KnowsThread(call[other])'
  <2>1. KnowsThread(call[other]) /\ KnowsRows(call[other])
    BY <1>7 DEF IInv, CallsKnowThread, CallsKnowRows
  <2>2. call'[other] = call[other]
    BY DEF Moves
  <2>3. AtTheDeal(call[other]) /\ call[other].pc = "checkout.insert" => AtTheDeal(call[other])'
    BY <1>4, <1>7, <2>2 DEF AtTheDeal
  <2>. QED  BY <1>4, <1>7, <2>1, <2>2, <2>3 DEF KnowsThread, KnowsRows, Decidable
<1>8. CallsKnowThread'
  BY <1>7 DEF CallsKnowThread, Moves
<1>. QED  BY <1>1, <1>2, <1>3, <1>5, <1>6, <1>8, RaceStep DEF IInv
----------------------------------------------------------------------------
(* The invocations begin *)

LEMMA BeginStep ==
  ASSUME IInv, Still, NEW hd \in Handlers, NEW c \in Calls, Begin(hd, c), NoNewRace(hd, c),
         KnowsRows(c), c.tgt \in Threads \ raced' => KnowsThread(c)'
  PROVE  IInv'
BY BeginEffect, StillStep DEF IInv

\* An invocation that decides nothing holds no price and no offer.
LEMMA PlainBegin ==
  ASSUME IInv, NEW hd \in Handlers, NEW c \in Calls, Begin(hd, c), Still,
         c.pc \in {"post.request", "thread.find"}, c.tgt = Venue
  PROVE  IInv'
<1>1. NoNewRace(hd, c) /\ KnowsRows(c) /\ KnowsThread(c)'
  BY DEF NoNewRace, Decides, DecidingSteps, KnowsRows, KnowsThread, Threads
<1>. QED  BY <1>1, BeginStep

\* The invocation that decides about t is the only one, or t is now raced.
LEMMA DecidingBegin ==
  ASSUME IInv, NEW hd \in Handlers, NEW t \in Threads, NEW c \in Calls, StartDeciding(hd, t, c),
         c.tgt = t, c.pc \in DecidingSteps, KnowsRows(c), t \notin raced' => KnowsThread(c)
  PROVE  IInv'
<1>. USE DEF UNCHANGED_rows, UNCHANGED_threads, UNCHANGED_offers, UNCHANGED_prices, StartDeciding
<1>1. Still
  BY DEF Still, IInv, TypeOK, Overlap
<1>2. NoNewRace(hd, c)
  BY DEF NoNewRace, Decides, DecidingSteps, Overlap
<1>3. KnowsThread(c)' <=> KnowsThread(c)
  BY DEF KnowsThread, AtTheDeal, OffersOf, Pending, Accepted, Live, Decidable
<1>. QED  BY <1>1, <1>2, <1>3, BeginStep

\* Fewer than one quote is none; fewer than two are all the same.
LEMMA FewOffers ==
  ASSUME NEW S \in SUBSET Offers
  PROVE  /\ Cardinality(S) < 1 => S = {}
         /\ Cardinality(S) < 2 => \A o, p \in S : o = p
<1>1. IsFiniteSet(S)
  BY NegotiationAssumption, FS_Subset
<1>2. Cardinality(S) \in Nat
  BY <1>1, FS_CardinalityType
<1>3. ASSUME Cardinality(S) < 1
      PROVE  S = {}
  BY <1>1, <1>2, <1>3, FS_EmptySet
<1>4. ASSUME Cardinality(S) < 2, NEW o \in S, NEW p \in S, o # p
      PROVE  FALSE
  <2>1. IsFiniteSet({p}) /\ Cardinality({p}) = 1
    BY FS_Singleton
  <2>2. IsFiniteSet({p} \cup {o}) /\ Cardinality({p} \cup {o}) = 2
    BY <1>4, <2>1, FS_AddElement
  <2>3. {p} \cup {o} \subseteq S
    OBVIOUS
  <2>. QED  BY <1>1, <1>2, <1>4, <2>2, <2>3, FS_Subset
<1>. QED  BY <1>3, <1>4

LEMMA StartersKeepIInv ==
  ASSUME IInv, NEW hd \in Handlers, Start(hd)
  PROVE  IInv'
<1>. USE DEF UNCHANGED_rows, UNCHANGED_threads, UNCHANGED_offers, UNCHANGED_prices, HubOverlap
<1>. TypeOK /\ Rows /\ None \notin Threads \cup Offers \cup Amounts
  BY NegotiationAssumption DEF IInv
<1>1. ASSUME NEW chosen \in SUBSET Services, Post(hd, chosen)
      PROVE  IInv'
  <2>. DEFINE c == [Idle EXCEPT !.pc = "post.request", !.tgt = Venue, !.post = TRUE,
                                !.list = chosen, !.todo = chosen]
  <2>1. c \in Calls /\ c.pc = "post.request" /\ c.tgt = Venue
    BY IdleIsACall DEF Idle, Calls, Steps, AddingSteps, Threads
  <2>2. Still
    BY <1>1 DEF Post, Still, TypeOK, Lives, Threads
  <2>. QED  BY <1>1, <2>1, <2>2, PlainBegin DEF Post
<1>2. CASE Hub(hd)
  <2>. DEFINE c == [Idle EXCEPT !.pc = "thread.find", !.tgt = Venue]
  <2>1. c \in Calls /\ c.pc = "thread.find" /\ c.tgt = Venue
    BY IdleIsACall DEF Idle, Calls, Steps, AddingSteps, Threads
  <2>2. Still
    BY <1>2 DEF Hub, Still, TypeOK
  <2>. QED  BY <1>2, <2>1, <2>2, PlainBegin DEF Hub
<1>3. ASSUME NEW t \in Threads, NEW a \in Amounts, Quote(hd, t, a)
      PROVE  IInv'
  <2>. DEFINE c == [Idle EXCEPT !.pc = "quote.create", !.tgt = t, !.amt = a]
  <2>1. c \in Calls /\ c.tgt = t /\ c.pc \in DecidingSteps /\ KnowsRows(c)
    BY <1>3, IdleIsACall DEF Quote, Idle, Calls, Steps, DecidingSteps, KnowsRows
  <2>2. t \notin raced' => KnowsThread(c)
    <3>1. /\ t \notin requoted => OffersOf(t) = {}
          /\ \A o, p \in OffersOf(t) : o = p
      BY <1>3, FewOffers DEF Quote, MaxQuotes, OffersOf
    <3>2. t \notin raced' => Live(t) = {}
      BY <1>3 DEF Quote, StartDeciding, Overlap, IInv, ThreadsOrderly, Deal, Live
    <3>. QED  BY <1>3, <3>1, <3>2 DEF Quote, KnowsThread, Idle
  <2>. QED  BY <1>3, <2>1, <2>2, DecidingBegin DEF Quote
<1>4. ASSUME NEW o \in Offers, Accept(hd, o)
      PROVE  IInv'
  <2>. DEFINE c == [Idle EXCEPT !.pc = "accept.transaction", !.tgt = about[o], !.offer = o]
  <2>1. about[o] \in Threads /\ offer[o] # "ABSENT" /\ thread[about[o]] = "OPEN"
    BY <1>4 DEF Accept, Decidable, Rows
  <2>2. /\ c \in Calls /\ c.tgt = about[o] /\ c.pc \in DecidingSteps
        /\ KnowsRows(c) /\ KnowsThread(c)
    BY <1>4, <2>1, IdleIsACall
       DEF Accept, Idle, Calls, Steps, DecidingSteps, KnowsRows, KnowsThread
  <2>. QED  BY <1>4, <2>1, <2>2, DecidingBegin DEF Accept
<1>5. ASSUME NEW o \in Offers, Reject(hd, o)
      PROVE  IInv'
  <2>. DEFINE c == [Idle EXCEPT !.pc = "reject.update", !.tgt = about[o], !.offer = o]
  <2>1. about[o] \in Threads /\ offer[o] # "ABSENT" /\ thread[about[o]] = "OPEN"
    BY <1>5 DEF Reject, Decidable, Rows
  <2>2. /\ c \in Calls /\ c.tgt = about[o] /\ c.pc \in DecidingSteps
        /\ KnowsRows(c) /\ KnowsThread(c)
    BY <1>5, <2>1, IdleIsACall
       DEF Reject, Idle, Calls, Steps, DecidingSteps, KnowsRows, KnowsThread
  <2>. QED  BY <1>5, <2>1, <2>2, DecidingBegin DEF Reject
<1>6. ASSUME NEW t \in Threads, Requote(hd, t)
      PROVE  IInv'
  <2>. DEFINE c == [Idle EXCEPT !.pc = "requote.find", !.tgt = t]
  <2>1. /\ c \in Calls /\ c.tgt = t /\ c.pc \in DecidingSteps
        /\ KnowsRows(c) /\ KnowsThread(c)
    BY <1>6, IdleIsACall DEF Requote, Idle, Calls, Steps, DecidingSteps, KnowsRows, KnowsThread
  <2>. QED  BY <1>6, <2>1, DecidingBegin DEF Requote
<1>7. ASSUME NEW t \in Threads, Checkout(hd, t)
      PROVE  IInv'
  <2>1. PICK p \in PriceAndSource(t) :
           Begin(hd, [Idle EXCEPT !.pc = "checkout.insert", !.tgt = t, !.amt = p[1], !.from = p[2],
                                  !.after = (Accepted(t) # {})])
    BY <1>7 DEF Checkout
  <2>a. PICK c : c = [Idle EXCEPT !.pc = "checkout.insert", !.tgt = t, !.amt = p[1], !.from = p[2],
                                  !.after = (Accepted(t) # {})]
    OBVIOUS
  <2>2. /\ p[1] \in terms[t] /\ p[2] \in Sources
        /\ \/ p[2] = "agreed" /\ agreed[t] # None /\ p[1] = agreed[t]
           \/ p[2] = "offer" /\ \E o \in Accepted(t) : amount[o] = p[1]
           \/ p[2] = "list" /\ Accepted(t) = {}
    BY <2>1 DEF PriceAndSource, Sources, Rows, Accepted, OffersOf, TypeOK
  <2>3. c \in Calls /\ KnowsRows(c)
    BY <2>a, <2>2, IdleIsACall DEF Idle, Calls, Steps, KnowsRows, TypeOK, DecidingSteps
  <2>4. Still /\ NoNewRace(hd, c)
    BY <1>7, <2>a DEF Checkout, Still, TypeOK, UNCHANGED_history, NoNewRace, Decides, DecidingSteps, Idle
  <2>5. c.tgt = t /\ c.amt = p[1] /\ c.from = p[2] /\ (c.after <=> Accepted(t) # {})
        /\ c.pc = "checkout.insert"
    BY <2>a DEF Idle
  <2>6. t \notin raced /\ c.after => AtTheDeal(c)
    \* an amount paid before is that of an earlier charge, itself before or at the deal
    <3>1. CASE p[2] = "agreed"
      <4>1. PICK d \in charges : d.tgt = t /\ d.amt = p[1]
        BY <2>2, <3>1 DEF IInv, AgreedIsCharged
      <4>2. t \notin raced /\ d.after => AtTheDeal(d)
        BY <4>1 DEF IInv, ChargesAreTheDeal
      <4>. QED  BY <2>5, <3>1, <4>1, <4>2 DEF AtTheDeal
    <3>2. CASE p[2] # "agreed"
      BY <2>2, <2>5, <3>2 DEF AtTheDeal
    <3>. QED  BY <3>1, <3>2
  <2>7. c.tgt \notin raced' => KnowsThread(c)'
    <3>1. UNCHANGED <<raced, charges, offer, about, amount>>
      BY <1>7 DEF Checkout, UNCHANGED_history
    <3>2. AtTheDeal(c) => AtTheDeal(c)'
      BY <3>1 DEF AtTheDeal, Accepted, OffersOf
    <3>. QED  BY <2>5, <2>6, <3>1, <3>2 DEF KnowsThread
  <2>8. Begin(hd, c)
    BY <2>1, <2>a
  <2>. QED  BY <2>3, <2>4, <2>7, <2>8, BeginStep
<1>8. ASSUME NEW to \in {"REJECTED", "CANCELLED"}, End(hd, to)
      PROVE  IInv'
  <2>. DEFINE c == [Idle EXCEPT !.pc = "end.update", !.tgt = Venue, !.to = to]
  <2>1. c \in Calls /\ KnowsRows(c) /\ KnowsThread(c)'
    BY IdleIsACall DEF Idle, Calls, Steps, EndingSteps, Lives, KnowsRows, KnowsThread, DecidingSteps, Threads
  <2>2. Still /\ NoNewRace(hd, c)
    BY <1>8 DEF End, Still, TypeOK, NoNewRace, Decides, Overlap
  <2>. QED  BY <1>8, <2>1, <2>2, BeginStep DEF End
<1>. QED  BY <1>1, <1>2, <1>3, <1>4, <1>5, <1>6, <1>7, <1>8 DEF Start, Submit
----------------------------------------------------------------------------
(* The invocations move on without touching a quote *)

LEMMA ReadersKeepIInv ==
  ASSUME IInv, NEW hd \in Handlers,
         \/ PostRequest(hd) \/ ThreadFind(hd) \/ ThreadCreate(hd) \/ ThreadSeed(hd)
         \/ HubRead(hd) \/ HubNext(hd) \/ EndUpdate(hd) \/ EndRequests(hd) \/ RequoteFind(hd)
         \/ Crash(hd)
  PROVE  IInv'
<1>. USE DEF UNCHANGED_rows, UNCHANGED_threads, UNCHANGED_offers, UNCHANGED_prices,
             UNCHANGED_history, At
<1>. /\ TypeOK /\ call[hd] \in Calls /\ KnowsRows(call[hd])
     /\ None \notin Threads \cup Offers \cup Amounts
  BY NegotiationAssumption DEF IInv, TypeOK, CallsKnowRows
<1>0. KnowsRows(Idle) /\ KnowsThread(Idle)' /\ NoNewRace(hd, Idle)
  BY DEF KnowsRows, KnowsThread, NoNewRace, Decides, DecidingSteps, Idle
\* An invocation that adds threads knows no more than which thread it is about.
<1>a. ASSUME Still, NEW c \in Calls, Moves(hd, c), c.pc \in AddingSteps, c.tgt \in Threads
      PROVE  IInv'
  <2>1. KnowsRows(c) /\ KnowsThread(c)' /\ NoNewRace(hd, c)
    BY <1>a DEF AddingSteps, KnowsRows, KnowsThread, NoNewRace, Decides, DecidingSteps
  <2>. QED  BY <1>a, <2>1, StillStep
<1>b. ASSUME Still, Finish(hd)
      PROVE  IInv'
  BY <1>b, <1>0, IdleIsACall, FinishEffect, StillStep DEF Idle
<1>c. ASSUME NEW s \in Services, NewRequest(s)
      PROVE  life' \in [Threads -> Lives] /\ requests' \in [Services -> Nat]
  BY <1>c DEF NewRequest, TypeOK, Lives, Threads
<1>d. ASSUME NEW s \in Services
      PROVE  /\ [call[hd] EXCEPT !.todo = @ \ {s}] \in Calls
             /\ [call[hd] EXCEPT !.pc = "thread.find", !.tgt = s, !.todo = @ \ {s}] \in Calls
  BY DEF Calls, Threads, Steps, AddingSteps
<1>e. call[hd].pc # "idle" => call[hd].tgt \in Threads
  BY DEF KnowsRows
<1>f. call[hd].todo \subseteq Services
  BY DEF Calls
\* The invocation goes on to another step of the same kind.
<1>g. ASSUME Still, At(hd, "post.request") \/ call[hd].pc \in AddingSteps, NEW pc \in AddingSteps,
             Continue(hd, pc)
      PROVE  IInv'
  <2>. DEFINE c == [call[hd] EXCEPT !.pc = pc]
  <2>1. c \in Calls /\ c.pc = pc /\ c.tgt \in Threads
    BY <1>g, <1>e DEF Calls, Steps, AddingSteps
  <2>2. Moves(hd, c)
    BY <1>g, ContinueEffect DEF Steps
  <2>. QED  BY <1>g, <2>1, <2>2, <1>a
<1>1. CASE PostRequest(hd)
  <2>1. Still
    BY <1>1, <1>c, <1>f DEF PostRequest, Still, TypeOK
  <2>2. ASSUME NEW s \in call[hd].todo, Become(hd, [call[hd] EXCEPT !.todo = @ \ {s}])
        PROVE  IInv'
    <3>. DEFINE c == [call[hd] EXCEPT !.todo = @ \ {s}]
    <3>1. c \in Calls /\ c.pc = "post.request" /\ c.tgt \in Threads
      BY <1>1, <1>d, <1>e, <1>f DEF PostRequest, Calls
    <3>. QED  BY <2>1, <2>2, <3>1, <1>a, SlotEffect DEF AddingSteps
  <2>. QED  BY <1>1, <2>1, <2>2, <1>g DEF PostRequest, AddingSteps
<1>2. CASE ThreadFind(hd)
  <2>1. Still
    BY <1>2 DEF ThreadFind, Still, TypeOK
  <2>. QED  BY <1>2, <2>1, <1>g DEF ThreadFind, AfterThread, AddingSteps
<1>3. CASE ThreadCreate(hd)
  <2>1. Still
    BY <1>3 DEF ThreadCreate, Still, TypeOK, ThreadStates
  <2>. QED  BY <1>3, <2>1, <1>b, <1>g DEF ThreadCreate, AddingSteps
<1>4. CASE ThreadSeed(hd)
  <2>1. Still
    BY <1>4, <1>e DEF ThreadSeed, Still, TypeOK
  <2>. QED  BY <1>4, <2>1, <1>g DEF ThreadSeed, AfterThread, AddingSteps
<1>5. CASE HubRead(hd)
  <2>1. Still
    BY <1>5 DEF HubRead, Still, TypeOK
  <2>2. PICK todo \in SUBSET Services, fresh \in BOOLEAN :
           Become(hd, [call[hd] EXCEPT !.pc = "hub.next", !.todo = todo, !.fresh = fresh])
    BY <1>5 DEF HubRead, Calls
  <2>. DEFINE c == [call[hd] EXCEPT !.pc = "hub.next", !.todo = todo, !.fresh = fresh]
  <2>3. c \in Calls /\ c.pc = "hub.next" /\ c.tgt \in Threads
    BY <1>5, <1>e DEF HubRead, Calls, Steps, AddingSteps
  <2>. QED  BY <2>1, <2>2, <2>3, <1>a, SlotEffect DEF AddingSteps
<1>6. CASE HubNext(hd)
  <2>1. Still
    BY <1>6, <1>c, <1>f DEF HubNext, Still, TypeOK
  <2>2. ASSUME NEW s \in call[hd].todo,
               Become(hd, [call[hd] EXCEPT !.pc = "thread.find", !.tgt = s, !.todo = @ \ {s}])
        PROVE  IInv'
    <3>. DEFINE c == [call[hd] EXCEPT !.pc = "thread.find", !.tgt = s, !.todo = @ \ {s}]
    <3>1. c \in Calls /\ c.pc = "thread.find" /\ c.tgt \in Threads
      BY <1>d, <1>f DEF Threads, Calls
    <3>. QED  BY <2>1, <2>2, <3>1, <1>a, SlotEffect DEF AddingSteps
  <2>. QED  BY <1>6, <2>1, <2>2, <1>b DEF HubNext
<1>7. CASE EndUpdate(hd)
  <2>0. PICK c : c = [call[hd] EXCEPT !.pc = "end.threads"]
    OBVIOUS
  <2>1. Still
    BY <1>7 DEF EndUpdate, Still, TypeOK, Calls
  <2>2. c \in Calls /\ c.pc = "end.threads" /\ c.tgt \in Threads /\ Moves(hd, c)
    BY <1>7, <1>e, <2>0, ContinueEffect DEF EndUpdate, Calls, Steps, EndingSteps
  <2>3. KnowsRows(c) /\ KnowsThread(c)' /\ NoNewRace(hd, c)
    BY <1>7, <2>2 DEF EndUpdate, KnowsRows, KnowsThread, NoNewRace, Decides, DecidingSteps
  <2>. QED  BY <2>1, <2>2, <2>3, StillStep
<1>8. CASE EndRequests(hd)
  <2>1. Still
    BY <1>8 DEF EndRequests, Still, TypeOK, Lives
  <2>. QED  BY <1>8, <2>1, <1>b DEF EndRequests
<1>9. CASE RequoteFind(hd)
  <2>0. PICK c : c = [call[hd] EXCEPT !.pc = "requote.transaction",
                                      !.seen = (Pending(call[hd].tgt) # {})]
    OBVIOUS
  <2>1. Still
    BY <1>9 DEF RequoteFind, Still, TypeOK
  <2>2. /\ c \in Calls /\ c.pc = "requote.transaction" /\ c.tgt = call[hd].tgt
        /\ c.tgt \in Threads
    BY <1>9, <1>e, <2>0 DEF RequoteFind, Calls, Steps, DecidingSteps
  <2>3. KnowsRows(c) /\ NoNewRace(hd, c)
    BY <1>9, <2>2 DEF RequoteFind, KnowsRows, NoNewRace, Decides, DecidingSteps
  <2>4. ASSUME OffersOf(c.tgt) # {}, c.tgt \in Threads \ raced'
        PROVE  KnowsThread(c)'
    <3>1. OffersOf(c.tgt)' = OffersOf(c.tgt) /\ Pending(c.tgt)' = Pending(c.tgt)
      BY <1>9 DEF RequoteFind, OffersOf, Pending
    <3>2. c.seen <=> Pending(c.tgt) # {}
      BY <2>0, <2>2 DEF Calls
    <3>3. thread'[c.tgt] = "OPEN" /\ c.tgt \notin requoted'
      BY <1>9, <2>2, <2>4 DEF RequoteFind, KnowsThread, IInv, CallsKnowThread
    <3>. QED  BY <2>2, <2>4, <3>1, <3>2, <3>3 DEF KnowsThread
  <2>5. CASE Become(hd, c) /\ OffersOf(c.tgt) # {}
    BY <2>5, <2>1, <2>2, <2>3, <2>4, SlotEffect, StillStep
  <2>6. (Become(hd, c) /\ OffersOf(c.tgt) # {}) \/ Finish(hd)
    <3>1. Become(hd, c) \/ Finish(hd)
      BY <1>9, <2>0 DEF RequoteFind
    <3>2. Finish(hd) \/ OffersOf(c.tgt) # {}
      BY <1>9, <2>2 DEF RequoteFind, Pending
    <3>. QED  BY <3>1, <3>2
  <2>. QED  BY <2>1, <2>5, <2>6, <1>b
<1>10. CASE Crash(hd)
  <2>1. Still
    BY <1>10, NegotiationAssumption DEF Crash, Still, TypeOK
  <2>. QED  BY <1>10, <2>1, <1>b DEF Crash
<1>. QED  BY <1>1, <1>2, <1>3, <1>4, <1>5, <1>6, <1>7, <1>8, <1>9, <1>10
----------------------------------------------------------------------------
(* The invocations that decide write; what they write is about T alone *)

\* Rows stay what they are about, and prices once agreed stay agreed.
Grows ==
    /\ \A o \in Offers : offer[o] # "ABSENT" =>
          offer'[o] # "ABSENT" /\ about'[o] = about[o] /\ amount'[o] = amount[o]
    /\ \A t \in Threads : terms[t] \subseteq terms'[t]
    /\ \A t \in Threads : thread[t] # "ABSENT" => thread'[t] # "ABSENT"
    /\ UNCHANGED <<raced, listPrice, agreed, charges>>

\* Threads outside T, and their quotes, stand still.
OnlyAbout(T) ==
    /\ \A t \in Threads \ T : thread'[t] = thread[t] /\ (t \in requoted <=> t \in requoted')
    /\ \A o \in Offers : offer[o] # "ABSENT" /\ about[o] \notin T => offer'[o] = offer[o]
    /\ \A o \in Offers : offer[o] = "ABSENT" /\ offer'[o] # "ABSENT" => about'[o] \in T

LEMMA WriteStep ==
  ASSUME IInv, TypeOK', Rows', Grows, NEW T \in SUBSET Threads, OnlyAbout(T),
         NEW hd \in Handlers, NEW c \in Calls, Moves(hd, c),
         \A t \in T : Decides(call[hd], t),
         c.pc \in {"idle", "end.requests"}, KnowsRows(c)',
         \A t \in T \ raced : QuoteCount(t)' /\ Deal(t)' /\ Accepted(t) \subseteq Accepted(t)'
  PROVE  IInv'
<1>1. \A t \in Threads \ T : /\ OffersOf(t)' = OffersOf(t)
                             /\ Pending(t)' = Pending(t)
                             /\ Accepted(t)' = Accepted(t)
                             /\ Live(t)' = Live(t)
  BY DEF Grows, OnlyAbout, OffersOf, Pending, Accepted, Live
<1>2. \A t \in T \ raced : \A other \in Handlers \ {hd} : ~Decides(call[other], t)
  BY DEF IInv, OneDecision
<1>3. PriceWasAgreed'
  BY DEF IInv, TypeOK, Charges, PriceWasAgreed, Grows
<1>4. CallsKnowRows'
  <2>1. ASSUME NEW other \in Handlers \ {hd}
        PROVE  KnowsRows(call[other])'
    BY <2>1 DEF IInv, CallsKnowRows, KnowsRows, Grows, Moves, DecidingSteps
  <2>. QED  BY <2>1 DEF CallsKnowRows, Moves
<1>5. ThreadsOrderly'
  BY <1>1 DEF IInv, ThreadsOrderly, QuoteCount, Deal, Grows, OnlyAbout
<1>6. \A t \in Threads \ raced : Accepted(t) \subseteq Accepted(t)' /\ Accepted(t) \subseteq Offers
  BY <1>1 DEF Accepted, OffersOf
<1>7. ASSUME NEW d, d.tgt \in Threads \ raced, AtTheDeal(d)
      PROVE  AtTheDeal(d)'
  BY <1>6, <1>7, StillAtTheDeal DEF Grows, Accepted, OffersOf
<1>a. ChargesAreTheDeal'
  BY <1>7 DEF IInv, TypeOK, Charges, ChargesAreTheDeal, Grows
<1>b. AgreedIsCharged'
  BY DEF IInv, AgreedIsCharged, Grows
<1>8. ASSUME NEW other \in Handlers \ {hd}, call[other].tgt \in Threads \ raced
      PROVE  KnowsThread(call[other])'
  <2>. DEFINE d == call[other]
  <2>0. d' = d
    BY DEF Moves
  <2>1. KnowsThread(d) /\ KnowsRows(d) /\ (d.tgt \in T => ~Decides(d, d.tgt))
    BY <1>2, <1>8 DEF IInv, CallsKnowThread, CallsKnowRows
  <2>2. CASE d.pc \in DecidingSteps
    <3>1. d.tgt \notin T
      BY <2>1, <2>2 DEF Decides
    <3>. QED  BY <1>1, <1>8, <2>0, <2>1, <2>2, <3>1
              DEF KnowsThread, KnowsRows, Decidable, DecidingSteps, OnlyAbout, Grows
  <2>3. CASE d.pc = "checkout.insert"
    BY <1>7, <1>8, <2>0, <2>1, <2>3 DEF KnowsThread
  <2>. QED  BY <2>0, <2>2, <2>3 DEF KnowsThread, DecidingSteps
<1>9. CallsKnowThread'
  BY <1>8 DEF CallsKnowThread, Moves, Grows, KnowsThread
<1>10. NoNewRace(hd, c) /\ raced \subseteq raced'
  BY DEF NoNewRace, Decides, DecidingSteps, Grows
<1>. QED  BY <1>3, <1>4, <1>5, <1>a, <1>b, <1>9, <1>10, RaceStep DEF IInv

LEMMA DecidersKeepIInv ==
  ASSUME IInv, NEW hd \in Handlers,
         \/ QuoteCreate(hd) \/ AcceptTransaction(hd) \/ RejectUpdate(hd) \/ RequoteTransaction(hd)
         \/ EndThreads(hd)
  PROVE  IInv'
<1>. USE DEF UNCHANGED_rows, UNCHANGED_threads, UNCHANGED_offers, UNCHANGED_prices,
             UNCHANGED_history, At
<1>. PICK t : t = call[hd].tgt
  OBVIOUS
<1>. /\ TypeOK /\ Rows /\ call[hd] \in Calls /\ KnowsRows(call[hd])
     /\ None \notin Threads \cup Offers \cup Amounts
  BY NegotiationAssumption DEF IInv, TypeOK, CallsKnowRows
<1>0. /\ Idle \in Calls /\ Idle.pc = "idle" /\ KnowsRows(Idle)'
      /\ call[hd].pc # "idle" => t \in Threads
      /\ t \in Threads \ raced => KnowsThread(call[hd]) /\ QuoteCount(t) /\ Deal(t)
  BY IdleIsACall DEF Idle, KnowsRows, IInv, CallsKnowThread, ThreadsOrderly, DecidingSteps
<1>1. CASE QuoteCreate(hd)
  <2>1. PICK o \in Offers : /\ offer[o] = "ABSENT"
                            /\ offer' = [offer EXCEPT ![o] = "PENDING"]
                            /\ about' = [about EXCEPT ![o] = t]
                            /\ amount' = [amount EXCEPT ![o] = call[hd].amt]
    BY <1>1 DEF QuoteCreate
  <2>2. t \in Threads /\ call[hd].amt \in Amounts /\ Moves(hd, Idle)
    BY <1>1, <1>0, FinishEffect DEF QuoteCreate, KnowsRows
  <2>3. TypeOK' /\ Rows' /\ Grows /\ OnlyAbout({t})
    BY <1>1, <2>1, <2>2 DEF QuoteCreate, TypeOK, Moves, OfferStates, Rows, Grows, OnlyAbout
  <2>4. ASSUME t \notin raced
        PROVE  QuoteCount(t)' /\ Deal(t)' /\ Accepted(t) \subseteq Accepted(t)'
    <3>1. /\ OffersOf(t)' = OffersOf(t) \cup {o}
          /\ Accepted(t)' = Accepted(t)
          /\ Live(t)' = Live(t) \cup {o}
      BY <1>1, <2>1, <2>2 DEF QuoteCreate, OffersOf, Pending, Accepted, Live, TypeOK
    <3>2. /\ thread[t] = "OPEN" /\ Live(t) = {}
          /\ t \notin requoted => OffersOf(t) = {}
          /\ \A p, q \in OffersOf(t) : p = q
      BY <1>0, <1>1, <2>2, <2>4 DEF KnowsThread, QuoteCreate
    <3>. QED  BY <1>1, <3>1, <3>2 DEF QuoteCreate, QuoteCount, Deal, Live
  <2>5. Decides(call[hd], t)
    BY <1>1 DEF QuoteCreate, Decides, DecidingSteps
  <2>. QED  BY <1>0, <2>2, <2>3, <2>4, <2>5, WriteStep
<1>2. CASE AcceptTransaction(hd)
  <2>. DEFINE o == call[hd].offer
  <2>1. /\ t \in Threads /\ o \in Offers /\ offer[o] # "ABSENT" /\ about[o] = t
        /\ Moves(hd, Idle) /\ Decides(call[hd], t)
    BY <1>2, <1>0, FinishEffect DEF AcceptTransaction, KnowsRows, Decides, DecidingSteps
  <2>2. /\ \A x \in Offers : offer'[x] = IF x = o THEN "ACCEPTED"
                                        ELSE IF x \in Pending(t) THEN "SUPERSEDED" ELSE offer[x]
        /\ thread' = [thread EXCEPT ![t] = "DEAL_ACCEPTED"]
        /\ terms' = [terms EXCEPT ![t] = @ \cup {amount[o]}]
    BY <1>2 DEF AcceptTransaction
  <2>3. TypeOK' /\ Rows'
    BY <1>2, <2>1, <2>2
       DEF AcceptTransaction, TypeOK, Moves, OfferStates, ThreadStates, Lives, Rows, Pending, OffersOf
  <2>4. Grows /\ OnlyAbout({t})
    BY <1>2, <2>1, <2>2 DEF AcceptTransaction, TypeOK, Grows, OnlyAbout, Pending, OffersOf
  <2>5. ASSUME t \notin raced
        PROVE  QuoteCount(t)' /\ Deal(t)' /\ Accepted(t) \subseteq Accepted(t)'
    <3>1. Live(t) = {o} /\ Accepted(t) = {}
      BY <1>0, <1>2, <2>1, <2>5
         DEF AcceptTransaction, KnowsThread, Decidable, Deal, Live, Pending, Accepted, OffersOf
    <3>2. OffersOf(t)' = OffersOf(t) /\ Accepted(t)' = {o} /\ Live(t)' = {o}
      BY <1>2, <2>1, <2>2, <3>1 DEF AcceptTransaction, OffersOf, Pending, Accepted, Live
    <3>. QED  BY <1>0, <1>2, <2>1, <2>2, <2>5, <3>1, <3>2 DEF AcceptTransaction, QuoteCount, Deal, TypeOK
  <2>. QED  BY <1>0, <2>1, <2>3, <2>4, <2>5, WriteStep
<1>3. CASE RejectUpdate(hd)
  <2>. DEFINE o == call[hd].offer
  <2>1. /\ t \in Threads /\ o \in Offers /\ offer[o] # "ABSENT" /\ about[o] = t
        /\ Moves(hd, Idle) /\ Decides(call[hd], t)
    BY <1>3, <1>0, FinishEffect DEF RejectUpdate, KnowsRows, Decides, DecidingSteps
  <2>2. TypeOK' /\ Rows' /\ Grows /\ OnlyAbout({t})
    BY <1>3, <2>1 DEF RejectUpdate, TypeOK, Moves, OfferStates, Rows, Grows, OnlyAbout
  <2>3. ASSUME t \notin raced
        PROVE  QuoteCount(t)' /\ Deal(t)' /\ Accepted(t) \subseteq Accepted(t)'
    <3>1. offer[o] = "PENDING"
      BY <1>0, <1>3, <2>1, <2>3 DEF RejectUpdate, KnowsThread, Decidable
    <3>2. OffersOf(t)' = OffersOf(t) /\ Accepted(t)' = Accepted(t) /\ Live(t)' = Live(t) \ {o}
      BY <1>3, <2>1, <3>1 DEF RejectUpdate, OffersOf, Pending, Accepted, Live, TypeOK
    <3>. QED  BY <1>0, <1>3, <2>1, <2>3, <3>2 DEF RejectUpdate, QuoteCount, Deal
  <2>. QED  BY <1>0, <2>1, <2>2, <2>3, WriteStep
<1>4. CASE RequoteTransaction(hd)
  <2>1. t \in Threads /\ Moves(hd, Idle) /\ Decides(call[hd], t)
    BY <1>4, <1>0, FinishEffect DEF RequoteTransaction, Decides, DecidingSteps
  <2>2. /\ \A x \in Offers : \/ offer'[x] = offer[x]
                             \/ x \in Pending(t) /\ offer'[x] = "SUPERSEDED"
        /\ requoted' = requoted \cup {t}
    BY <1>4 DEF RequoteTransaction
  <2>3. TypeOK' /\ Rows' /\ Grows /\ OnlyAbout({t})
    BY <1>4, <2>1, <2>2
       DEF RequoteTransaction, TypeOK, Moves, OfferStates, Rows, Grows, OnlyAbout, Pending, OffersOf
  <2>4. ASSUME t \notin raced
        PROVE  QuoteCount(t)' /\ Deal(t)' /\ Accepted(t) \subseteq Accepted(t)'
    <3>1. t \notin requoted
      BY <1>0, <1>4, <2>1, <2>4 DEF RequoteTransaction, KnowsThread
    <3>2. OffersOf(t)' = OffersOf(t) /\ Accepted(t)' = Accepted(t) /\ Live(t)' \subseteq Live(t)
      BY <1>4, <2>1, <2>2 DEF RequoteTransaction, OffersOf, Pending, Accepted, Live
    <3>. QED  BY <1>0, <1>4, <2>1, <2>2, <2>4, <3>1, <3>2 DEF RequoteTransaction, QuoteCount, Deal
  <2>. QED  BY <1>0, <2>1, <2>3, <2>4, WriteStep
<1>5. CASE EndThreads(hd)
  <2>0. PICK c : c = [call[hd] EXCEPT !.pc = "end.requests"]
    OBVIOUS
  <2>1. c \in Calls /\ Moves(hd, c) /\ c.pc = "end.requests" /\ KnowsRows(c)'
    BY <1>0, <1>5, <2>0, ContinueEffect
       DEF EndThreads, Calls, Steps, EndingSteps, DecidingSteps, KnowsRows
  <2>2. TypeOK' /\ Rows' /\ Grows /\ OnlyAbout(Threads)
    BY <1>5, <2>1 DEF EndThreads, TypeOK, Moves, ThreadStates, Rows, Grows, OnlyAbout
  <2>3. ASSUME NEW u \in Threads \ raced
        PROVE  QuoteCount(u)' /\ Deal(u)' /\ Accepted(u) \subseteq Accepted(u)'
    <3>1. /\ OffersOf(u)' = OffersOf(u) /\ Accepted(u)' = Accepted(u) /\ Live(u)' = Live(u)
          /\ thread'[u] = "DEAL_ACCEPTED" <=> thread[u] = "DEAL_ACCEPTED"
      BY <1>5 DEF EndThreads, OffersOf, Pending, Accepted, Live
    <3>. QED  BY <1>5, <3>1 DEF EndThreads, IInv, ThreadsOrderly, QuoteCount, Deal
  <2>4. \A u \in Threads : Decides(call[hd], u)
    BY <1>5 DEF EndThreads, Decides
  <2>. QED  BY <2>1, <2>2, <2>3, <2>4, WriteStep
<1>. QED  BY <1>1, <1>2, <1>3, <1>4, <1>5

----------------------------------------------------------------------------
(* Prices and statuses set outside the negotiation *)

LEMMA OthersKeepIInv ==
  ASSUME IInv,
         \/ \E t \in Threads, s \in {"LIVE", "CANCELLED"} : SetStatus(t, s)
         \/ \E t \in Threads, p \in ListPrices \cup {None} : EditPrice(t, p)
         \/ \E c \in charges : Settle(c)
         \/ UNCHANGED vars
  PROVE  IInv'
<1>. USE DEF UNCHANGED_rows, UNCHANGED_threads, UNCHANGED_offers, UNCHANGED_prices,
             UNCHANGED_history
<1>. TypeOK /\ Rows /\ PriceWasAgreed
  BY DEF IInv
<1>1. /\ UNCHANGED <<requests, thread, opening, requoted, offer, about, amount, charges, call,
                     crashes, raced, hubRaced>>
      /\ life' \in [Threads -> Lives]
      /\ listPrice' \in [Threads -> ListPrices \cup {None}]
      /\ agreed' \in [Threads -> Amounts \cup {None}]
      /\ terms' \in [Threads -> SUBSET Amounts]
      /\ \A t \in Threads : terms[t] \subseteq terms'[t]
      /\ \A t \in Threads : {agreed'[t], listPrice'[t]} \subseteq terms'[t] \cup {None}
  <2>1. CASE \E t \in Threads, s \in {"LIVE", "CANCELLED"} : SetStatus(t, s)
    BY <2>1 DEF SetStatus, TypeOK, Rows, Lives
  <2>2. CASE \E t \in Threads, p \in ListPrices \cup {None} : EditPrice(t, p)
    BY <2>2, NegotiationAssumption DEF EditPrice, TypeOK, Rows
  <2>3. CASE \E c \in charges : Settle(c)
    BY <2>3 DEF Settle, TypeOK, Rows, Charges, Lives, PriceWasAgreed
  <2>4. CASE UNCHANGED vars
    BY <2>4 DEF vars, TypeOK, Rows
  <2>. QED  BY <2>1, <2>2, <2>3, <2>4
<1>2. TypeOK' /\ Rows' /\ PriceWasAgreed'
  BY <1>1 DEF TypeOK, Rows, PriceWasAgreed, Charges
<1>a. AgreedIsCharged'
  <2>1. ASSUME NEW c \in charges, Settle(c)
        PROVE  AgreedIsCharged'
    BY <2>1 DEF Settle, IInv, AgreedIsCharged, TypeOK
  <2>2. CASE UNCHANGED <<agreed, charges>>
    BY <2>2 DEF IInv, AgreedIsCharged
  <2>. QED  BY <2>1, <2>2 DEF SetStatus, EditPrice, vars
<1>3. CallsKnowRows'
  BY <1>1 DEF IInv, CallsKnowRows, KnowsRows
<1>4. CallsKnowThread' /\ ThreadsOrderly' /\ OneDecision' /\ ChargesAreTheDeal'
  BY <1>1 DEF IInv, CallsKnowThread, KnowsThread, Decidable, ThreadsOrderly, QuoteCount, Deal,
              OneDecision, ChargesAreTheDeal, AtTheDeal, OffersOf, Pending, Accepted, Live
<1>. QED  BY <1>2, <1>a, <1>3, <1>4 DEF IInv

LEMMA ChargeKeepsIInv ==
  ASSUME IInv, NEW hd \in Handlers, CheckoutInsert(hd)
  PROVE  IInv'
<1>. USE DEF UNCHANGED_rows, UNCHANGED_threads, UNCHANGED_offers, UNCHANGED_history
<1>. DEFINE c == [tgt |-> call[hd].tgt, amt |-> call[hd].amt, from |-> call[hd].from,
                  after |-> call[hd].after]
<1>. TypeOK /\ call[hd] \in Calls
  BY DEF IInv, TypeOK
<1>1. /\ c \in Charges /\ c.amt \in terms[c.tgt]
      /\ c.after /\ c.tgt \notin raced => AtTheDeal(c)
      /\ charges' = charges \cup {c} /\ Moves(hd, Idle)
  <2>1. KnowsRows(call[hd]) /\ (call[hd].tgt \in Threads \ raced => KnowsThread(call[hd]))
    BY DEF IInv, CallsKnowRows, CallsKnowThread
  <2>. QED  BY <2>1, FinishEffect
            DEF CheckoutInsert, At, KnowsRows, KnowsThread, AtTheDeal, Charges, Calls, TypeOK
<1>2. TypeOK' /\ Rows' /\ PriceWasAgreed'
  BY <1>1 DEF CheckoutInsert, IInv, TypeOK, Rows, PriceWasAgreed, Moves
<1>3. \A t \in Threads : /\ OffersOf(t)' = OffersOf(t)
                         /\ Pending(t)' = Pending(t)
                         /\ Accepted(t)' = Accepted(t)
                         /\ Live(t)' = Live(t)
  BY DEF CheckoutInsert, OffersOf, Pending, Accepted, Live
<1>4. ThreadsOrderly'
  BY <1>3 DEF CheckoutInsert, IInv, ThreadsOrderly, QuoteCount, Deal
<1>5. ChargesAreTheDeal' /\ AgreedIsCharged'
  <2>. HIDE DEF c
  <2>0. charges' = charges \cup {c} /\ UNCHANGED <<raced, agreed, offer, about, amount>>
    BY <1>1 DEF CheckoutInsert
  <2>1. \A d : AtTheDeal(d) => AtTheDeal(d)'
    BY <2>0 DEF AtTheDeal, Accepted, OffersOf
  <2>2. ChargesAreTheDeal'
    BY <1>1, <2>0, <2>1 DEF IInv, ChargesAreTheDeal
  <2>3. AgreedIsCharged'
    BY <2>0 DEF IInv, AgreedIsCharged
  <2>. QED  BY <2>2, <2>3
<1>6. /\ Idle \in Calls /\ KnowsRows(Idle)' /\ KnowsThread(Idle)' /\ NoNewRace(hd, Idle)
      /\ raced \subseteq raced'
  BY IdleIsACall DEF CheckoutInsert, Idle, KnowsRows, KnowsThread, NoNewRace, Decides, DecidingSteps
<1>7. CallsKnowRows'
  BY <1>1, <1>6 DEF CheckoutInsert, IInv, CallsKnowRows, KnowsRows, Moves
<1>8. CallsKnowThread'
  <2>1. ASSUME NEW other \in Handlers \ {hd}, call[other].tgt \in Threads \ raced
        PROVE  KnowsThread(call[other])'
    <3>1. call'[other] = call[other] /\ KnowsThread(call[other])
      BY <1>1, <2>1 DEF Moves, IInv, CallsKnowThread
    <3>2. AtTheDeal(call[other]) => AtTheDeal(call[other])'
      BY <1>1, <3>1 DEF CheckoutInsert, AtTheDeal, Accepted, OffersOf
    <3>. QED  BY <3>1, <3>2 DEF CheckoutInsert, KnowsThread, Decidable, OffersOf, Pending, Accepted, Live
  <2>. QED  BY <1>1, <1>6, <2>1 DEF CheckoutInsert, CallsKnowThread, Moves
<1>9. OneDecision'
  BY <1>1, <1>6, RaceStep
<1>. QED  BY <1>2, <1>4, <1>5, <1>7, <1>8, <1>9 DEF IInv
----------------------------------------------------------------------------
(* Every step keeps IInv *)

LEMMA InitIInv == Init => IInv
<1>. SUFFICES ASSUME Init PROVE IInv
  OBVIOUS
<1>. /\ Idle \in Calls /\ \A hd \in Handlers : call[hd] = Idle
     /\ None \notin Threads \cup Offers \cup Amounts /\ ListPrices \subseteq Amounts
     /\ MaxCrashes \in Nat
  BY IdleIsACall, NegotiationAssumption DEF Init
<1>1. TypeOK /\ Rows /\ AgreedIsCharged /\ PriceWasAgreed /\ ChargesAreTheDeal
  <2>0. \A t \in Threads : {listPrice[t]} \ {None} \in SUBSET Amounts
    BY DEF Init
  <2>1. terms = [t \in Threads |-> {listPrice[t]} \ {None}]
    BY DEF Init
  <2>2. terms \in [Threads -> SUBSET Amounts]
    BY <2>0, <2>1
  <2>3. /\ life \in [Threads -> Lives] /\ requests \in [Services -> Nat]
        /\ thread \in [Threads -> ThreadStates] /\ opening \subseteq Threads
        /\ requoted \subseteq Threads /\ raced \subseteq Threads /\ hubRaced \in BOOLEAN
    BY DEF Init, Lives, ThreadStates
  <2>4. /\ offer \in [Offers -> OfferStates] /\ about \in [Offers -> Threads \cup {None}]
        /\ amount \in [Offers -> Amounts \cup {None}] /\ agreed \in [Threads -> Amounts \cup {None}]
        /\ listPrice \in [Threads -> ListPrices \cup {None}] /\ charges \subseteq Charges
        /\ call \in [Handlers -> Calls] /\ crashes \in 0..MaxCrashes
    BY DEF Init, OfferStates
  <2>5. TypeOK
    BY <2>2, <2>3, <2>4 DEF TypeOK
  <2>. QED  BY <2>5 DEF Init, Rows, AgreedIsCharged, PriceWasAgreed, ChargesAreTheDeal
<1>2. CallsKnowRows /\ CallsKnowThread /\ OneDecision
  BY DEF CallsKnowRows, KnowsRows, CallsKnowThread, KnowsThread, OneDecision, Decides,
         DecidingSteps, Idle
<1>3. ThreadsOrderly
  BY DEF Init, ThreadsOrderly, QuoteCount, Deal, OffersOf, Pending, Accepted, Live
<1>. QED  BY <1>1, <1>2, <1>3 DEF IInv

LEMMA NextIInv == IInv /\ [Next]_vars => IInv'
<1>. SUFFICES ASSUME IInv, [Next]_vars PROVE IInv'
  OBVIOUS
<1>1. ASSUME NEW hd \in Handlers, Proceed(hd)
      PROVE  IInv'
  BY <1>1, ReadersKeepIInv, DecidersKeepIInv, ChargeKeepsIInv DEF Proceed
<1>. QED  BY <1>1, StartersKeepIInv, ReadersKeepIInv, OthersKeepIInv DEF Next, Outside

\* Every row and every invocation has its type.
THEOREM TypeCorrect == Spec => []TypeOK
<1>1. IInv => TypeOK
  BY DEF IInv
<1>. QED  BY <1>1, InitIInv, NextIInv, PTL DEF Spec

LEMMA Orderly == IInv => OneDeal /\ QuotesWithinLimit
BY DEF IInv, ThreadsOrderly, QuoteCount, Deal, OneDeal, QuotesWithinLimit

\* One quote in play per thread, and a deal exactly when one is accepted
\* (negotiationOfferActions, createInquiryOffer), unless decisions overlapped.
THEOREM OneDealHolds == Spec => []OneDeal
<1>. QED  BY Orderly, InitIInv, NextIInv, PTL DEF Spec

\* A provider quotes once, twice after a re-quote (assertCanCreateExactQuote).
THEOREM QuotesLimited == Spec => []QuotesWithinLimit
<1>. QED  BY Orderly, InitIInv, NextIInv, PTL DEF Spec

\* No checkout charges an amount nobody accepted or listed (bookingAmount).
THEOREM PriceAgreed == Spec => []PriceWasAgreed
<1>1. IInv => PriceWasAgreed
  BY DEF IInv
<1>. QED  BY <1>1, InitIInv, NextIInv, PTL DEF Spec

\* Once an orderly thread has a deal, a checkout charges the deal's amount, or
\* what the booking was already paid at before it (resolveInquiryCheckoutAmountNis).
THEOREM ChargedAsAccepted == Spec => []ChargesAreTheDeal
<1>1. IInv => ChargesAreTheDeal
  BY DEF IInv
<1>. QED  BY <1>1, InitIInv, NextIInv, PTL DEF Spec

\* Both together: a charge is an accepted or listed amount, and that of the deal
\* once there is one, but for a price the booking was paid at before.
THEOREM ChargedAsAgreed == Spec => []ChargesAreAgreed
BY PriceAgreed, ChargedAsAccepted, PTL DEF ChargesAreAgreed
----------------------------------------------------------------------------
(* Decisions and deals are final *)

\* The steps that write a thread or an offer, and how
LEMMA ThreadWrites ==
  ASSUME IInv, [Next]_vars, NEW t \in Threads
  PROVE  \/ thread'[t] = thread[t]
         \/ thread[t] = "ABSENT"
         \/ \E hd \in Handlers : AcceptTransaction(hd) /\ call[hd].tgt = t /\ thread'[t] = "DEAL_ACCEPTED"
         \/ thread[t] = "OPEN" /\ thread'[t] = "CLOSED"
<1>. USE DEF UNCHANGED_threads
<1>. TypeOK
  BY DEF IInv
<1>1. ASSUME NEW hd \in Handlers, Start(hd) \/ Crash(hd)
      PROVE  thread' = thread
  BY <1>1 DEF Start, Submit, Crash, Post, Hub, Quote, Accept, Reject, Requote, Checkout, End, StartDeciding
<1>2. ASSUME NEW hd \in Handlers,
             \/ PostRequest(hd) \/ ThreadFind(hd) \/ ThreadSeed(hd) \/ HubRead(hd) \/ HubNext(hd)
             \/ QuoteCreate(hd) \/ RejectUpdate(hd) \/ RequoteFind(hd) \/ RequoteTransaction(hd)
             \/ EndUpdate(hd) \/ EndRequests(hd) \/ CheckoutInsert(hd)
      PROVE  thread' = thread
  BY <1>2 DEF PostRequest, ThreadFind, ThreadSeed, HubRead, HubNext, QuoteCreate, RejectUpdate,
              RequoteFind, RequoteTransaction, EndUpdate, EndRequests, CheckoutInsert
<1>3. ASSUME NEW hd \in Handlers, ThreadCreate(hd)
      PROVE  thread'[t] = thread[t] \/ thread[t] = "ABSENT"
  BY <1>3 DEF ThreadCreate, TypeOK
<1>4. ASSUME NEW hd \in Handlers, AcceptTransaction(hd)
      PROVE  thread'[t] = thread[t] \/ (call[hd].tgt = t /\ thread'[t] = "DEAL_ACCEPTED")
  BY <1>4 DEF AcceptTransaction, TypeOK
<1>5. ASSUME NEW hd \in Handlers, EndThreads(hd)
      PROVE  thread'[t] = thread[t] \/ (thread[t] = "OPEN" /\ thread'[t] = "CLOSED")
  BY <1>5 DEF EndThreads, TypeOK
<1>6. ASSUME \/ \E u \in Threads, s \in {"LIVE", "CANCELLED"} : SetStatus(u, s)
             \/ \E u \in Threads, p \in ListPrices \cup {None} : EditPrice(u, p)
             \/ \E c \in charges : Settle(c)
             \/ UNCHANGED vars
      PROVE  thread' = thread
  BY <1>6 DEF SetStatus, EditPrice, Settle, vars
<1>. QED  BY <1>1, <1>2, <1>3, <1>4, <1>5, <1>6 DEF Next, Outside, Proceed

\* Nothing reopens or closes a thread with a deal: not the end of the inquiry
\* (inquiryCancellation), nor a hub or a quote that comes late.
THEOREM DealsAreFinal == Spec => DealIsFinal
<1>1. IInv /\ [Next]_vars =>
        [\A t \in Threads : thread[t] = "DEAL_ACCEPTED" => thread'[t] = "DEAL_ACCEPTED"]_vars
  BY ThreadWrites
<1>. QED  BY <1>1, InitIInv, NextIInv, PTL DEF Spec, DealIsFinal
LEMMA RacedGrows == [Next]_vars => raced \subseteq raced'
<1>. SUFFICES ASSUME [Next]_vars PROVE raced \subseteq raced'
  OBVIOUS
<1>. USE DEF UNCHANGED_history, Overlap
<1>1. ASSUME NEW hd \in Handlers, Start(hd) \/ Crash(hd)
      PROVE  raced \subseteq raced'
  BY <1>1 DEF Start, Submit, Crash, Post, Hub, Quote, Accept, Reject, Requote, Checkout, End, StartDeciding
<1>2. ASSUME NEW hd \in Handlers, Proceed(hd)
      PROVE  raced' = raced
  BY <1>2 DEF Proceed, PostRequest, ThreadFind, ThreadCreate, ThreadSeed, HubRead, HubNext,
              QuoteCreate, AcceptTransaction, RejectUpdate, RequoteFind, RequoteTransaction,
              EndUpdate, EndThreads, EndRequests, CheckoutInsert
<1>. QED  BY <1>1, <1>2 DEF Next, Outside, SetStatus, EditPrice, Settle, vars

LEMMA OfferWrites ==
  ASSUME IInv, [Next]_vars, NEW t \in Threads \ raced, NEW o \in Accepted(t)
  PROVE  offer'[o] = "ACCEPTED"
<1>. USE DEF UNCHANGED_offers, At
<1>. TypeOK /\ o \in Offers /\ offer[o] = "ACCEPTED" /\ about[o] = t /\ t \in Threads
  BY DEF IInv, Accepted, OffersOf
<1>1. ASSUME NEW hd \in Handlers, Start(hd) \/ Crash(hd)
      PROVE  offer' = offer
  BY <1>1 DEF Start, Submit, Crash, Post, Hub, Quote, Accept, Reject, Requote, Checkout, End, StartDeciding
<1>2. ASSUME NEW hd \in Handlers,
             \/ PostRequest(hd) \/ ThreadFind(hd) \/ ThreadCreate(hd) \/ ThreadSeed(hd)
             \/ HubRead(hd) \/ HubNext(hd) \/ RequoteFind(hd)
             \/ EndUpdate(hd) \/ EndThreads(hd) \/ EndRequests(hd) \/ CheckoutInsert(hd)
      PROVE  offer' = offer
  BY <1>2 DEF PostRequest, ThreadFind, ThreadCreate, ThreadSeed, HubRead, HubNext, RequoteFind,
              EndUpdate, EndThreads, EndRequests, CheckoutInsert
<1>3. ASSUME NEW hd \in Handlers,
             QuoteCreate(hd) \/ AcceptTransaction(hd) \/ RequoteTransaction(hd)
      PROVE  offer'[o] = "ACCEPTED"
  BY <1>3 DEF QuoteCreate, AcceptTransaction, RequoteTransaction, TypeOK, Pending
<1>4. ASSUME NEW hd \in Handlers, RejectUpdate(hd)
      PROVE  offer'[o] = "ACCEPTED"
  <2>1. KnowsRows(call[hd]) /\ (call[hd].tgt \in Threads \ raced => KnowsThread(call[hd]))
    BY DEF IInv, CallsKnowRows, CallsKnowThread
  <2>2. call[hd].offer # o
    BY <1>4, <2>1 DEF RejectUpdate, KnowsRows, KnowsThread, Decidable
  <2>. QED  BY <1>4, <2>2 DEF RejectUpdate, TypeOK
<1>5. ASSUME \/ \E u \in Threads, s \in {"LIVE", "CANCELLED"} : SetStatus(u, s)
             \/ \E u \in Threads, p \in ListPrices \cup {None} : EditPrice(u, p)
             \/ \E c \in charges : Settle(c)
             \/ UNCHANGED vars
      PROVE  offer' = offer
  BY <1>5 DEF SetStatus, EditPrice, Settle, vars
<1>. QED  BY <1>1, <1>2, <1>3, <1>4, <1>5 DEF Next, Outside, Proceed

\* Nothing takes an acceptance back or reopens a closed thread
\* (assertThreadOpenForNegotiation), unless decisions overlapped.
THEOREM DecisionsFinal == Spec => DecisionsAreFinal
<1>1. ASSUME IInv, [Next]_vars, NEW t \in Threads \ raced'
      PROVE  /\ thread[t] = "CLOSED" => thread'[t] = "CLOSED"
             /\ \A o \in Accepted(t) : offer'[o] = "ACCEPTED"
  <2>1. t \in Threads \ raced
    BY <1>1, NextIInv, RacedGrows
  <2>2. ASSUME NEW hd \in Handlers, AcceptTransaction(hd), call[hd].tgt = t
        PROVE  thread[t] = "OPEN"
    BY <2>1, <2>2, <1>1
       DEF IInv, CallsKnowThread, CallsKnowRows, KnowsThread, KnowsRows, Decidable,
           AcceptTransaction, At
  <2>. QED  BY <1>1, <2>1, <2>2, ThreadWrites, OfferWrites
<1>2. IInv /\ [Next]_vars =>
        [\A t \in Threads \ raced' :
            /\ thread[t] = "CLOSED" => thread'[t] = "CLOSED"
            /\ \A o \in Accepted(t) : offer'[o] = "ACCEPTED"]_vars
  BY <1>1
<1>. QED  BY <1>2, InitIInv, NextIInv, PTL DEF Spec, DecisionsAreFinal
----------------------------------------------------------------------------
(* A thread implements Bargain until decisions overlap on it.  The steps    *)
(* that write a quote or a thread are its steps; all others leave it alone. *)

Bargains(t) == Table(t)!BargainNext \/ UNCHANGED Table(t)!bargainVars

LEMMA OthersLeaveTheTable ==
  ASSUME NEW t \in Threads, thread'[t] = thread[t],
         t \in requoted' <=> t \in requoted,
         \A o \in Offers : o \in OffersOf(t) \/ o \in OffersOf(t)' =>
             offer'[o] = offer[o] /\ about'[o] = about[o] /\ amount'[o] = amount[o]
  PROVE  UNCHANGED Table(t)!bargainVars
<1>1. OffersOf(t)' = OffersOf(t)
  BY DEF OffersOf
<1>2. Live(t)' = Live(t)
  BY <1>1 DEF Live, Pending, Accepted, OffersOf
<1>3. [o \in OffersOf(t) |-> amount[o]]' = [o \in OffersOf(t) |-> amount[o]]
  BY <1>1 DEF OffersOf
<1>. QED  BY <1>1, <1>2, <1>3 DEF Table!bargainVars

LEMMA QuotingBargains ==
  ASSUME IInv, NEW hd \in Handlers, QuoteCreate(hd), NEW t \in Threads \ raced
  PROVE  Bargains(t)
<1>. USE DEF UNCHANGED_rows, UNCHANGED_threads, UNCHANGED_prices, UNCHANGED_history, At
<1>1. PICK q \in Offers, a \in Amounts :
         /\ offer[q] = "ABSENT"
         /\ offer' = [offer EXCEPT ![q] = "PENDING"]
         /\ about' = [about EXCEPT ![q] = call[hd].tgt]
         /\ amount' = [amount EXCEPT ![q] = a]
  BY DEF QuoteCreate, IInv, CallsKnowRows, KnowsRows
<1>2. TypeOK /\ UNCHANGED <<thread, requoted>>
  BY DEF IInv, QuoteCreate
<1>3. CASE call[hd].tgt # t
  BY <1>1, <1>2, <1>3, OthersLeaveTheTable DEF Bargains, OffersOf, TypeOK
<1>4. CASE call[hd].tgt = t
  <2>1. /\ thread[t] = "OPEN" /\ Live(t) = {}
        /\ t \notin requoted => OffersOf(t) = {}
        /\ \A o, p \in OffersOf(t) : o = p
    BY <1>4 DEF IInv, CallsKnowThread, KnowsThread, QuoteCreate
  <2>2. /\ q \notin OffersOf(t)
        /\ OffersOf(t)' = OffersOf(t) \cup {q}
        /\ Live(t)' = Live(t) \cup {q}
    BY <1>1, <1>2, <1>4 DEF OffersOf, Live, Pending, Accepted, TypeOK
  <2>3. [o \in OffersOf(t) |-> amount[o]]'
          = [o \in OffersOf(t) \cup {q} |-> IF o = q THEN a ELSE [p \in OffersOf(t) |-> amount[p]][o]]
    BY <1>1, <1>2, <2>2 DEF OffersOf, TypeOK
  <2>4. Table(t)!MayQuote
    BY <2>1 DEF Table!MayQuote
  <2>5. Table(t)!MakeQuote(q, a)
    BY <1>2, <2>1, <2>2, <2>3, <2>4 DEF Table!MakeQuote
  <2>. QED  BY <1>1, <2>5 DEF Bargains, Table!BargainNext
<1>. QED  BY <1>3, <1>4

LEMMA AcceptingBargains ==
  ASSUME IInv, NEW hd \in Handlers, AcceptTransaction(hd), NEW t \in Threads \ raced
  PROVE  Bargains(t)
<1>. USE DEF UNCHANGED_history, At
<1>1. PICK o \in Offers :
         /\ o = call[hd].offer /\ offer[o] # "ABSENT" /\ about[o] = call[hd].tgt
         /\ call[hd].tgt \in Threads
  BY DEF AcceptTransaction, IInv, CallsKnowRows, KnowsRows
<1>2. /\ \A x \in Offers : offer'[x] = IF x = o THEN "ACCEPTED"
                                      ELSE IF x \in Pending(call[hd].tgt) THEN "SUPERSEDED" ELSE offer[x]
      /\ thread' = [thread EXCEPT ![call[hd].tgt] = "DEAL_ACCEPTED"]
      /\ UNCHANGED <<about, amount, requoted>> /\ TypeOK
  BY <1>1 DEF AcceptTransaction, IInv
<1>3. CASE call[hd].tgt # t
  BY <1>1, <1>2, <1>3, OthersLeaveTheTable DEF Bargains, OffersOf, Pending, TypeOK
<1>4. CASE call[hd].tgt = t
  <2>1. thread[t] = "OPEN" /\ Live(t) = {o} /\ Pending(t) = {o}
    BY <1>1, <1>4 DEF IInv, CallsKnowThread, KnowsThread, Decidable, ThreadsOrderly, Deal, Live, Pending,
                      Accepted, OffersOf, AcceptTransaction
  <2>2. OffersOf(t)' = OffersOf(t) /\ Live(t)' = {o}
    BY <1>1, <1>2, <1>4, <2>1 DEF OffersOf, Live, Pending, Accepted
  <2>3. [x \in OffersOf(t) |-> amount[x]]' = [x \in OffersOf(t) |-> amount[x]]
    BY <1>2, <2>2
  <2>4. Table(t)!AcceptQuote
    BY <1>2, <1>4, <2>1, <2>2, <2>3 DEF Table!AcceptQuote, TypeOK
  <2>. QED  BY <2>4 DEF Bargains, Table!BargainNext
<1>. QED  BY <1>3, <1>4

LEMMA RejectingBargains ==
  ASSUME IInv, NEW hd \in Handlers, RejectUpdate(hd), NEW t \in Threads \ raced
  PROVE  Bargains(t)
<1>. USE DEF UNCHANGED_threads, UNCHANGED_history, At
<1>1. PICK o \in Offers :
         /\ o = call[hd].offer /\ offer[o] # "ABSENT" /\ about[o] = call[hd].tgt
         /\ call[hd].tgt \in Threads
  BY DEF RejectUpdate, IInv, CallsKnowRows, KnowsRows
<1>2. /\ offer' = [offer EXCEPT ![o] = "REJECTED"]
      /\ UNCHANGED <<thread, about, amount, requoted>> /\ TypeOK
  BY <1>1 DEF RejectUpdate, IInv
<1>3. CASE call[hd].tgt # t
  BY <1>1, <1>2, <1>3, OthersLeaveTheTable DEF Bargains, OffersOf, TypeOK
<1>4. CASE call[hd].tgt = t
  <2>1. thread[t] = "OPEN" /\ Live(t) = {o}
    BY <1>1, <1>4 DEF IInv, CallsKnowThread, KnowsThread, Decidable, ThreadsOrderly, Deal, Live, Pending,
                      Accepted, OffersOf, RejectUpdate
  <2>2. OffersOf(t)' = OffersOf(t) /\ Live(t)' = {}
    BY <1>1, <1>2, <1>4, <2>1 DEF OffersOf, Live, Pending, Accepted, TypeOK
  <2>3. [x \in OffersOf(t) |-> amount[x]]' = [x \in OffersOf(t) |-> amount[x]]
    BY <1>2, <2>2
  <2>4. Table(t)!TurnDown
    BY <1>2, <2>1, <2>2, <2>3 DEF Table!TurnDown
  <2>. QED  BY <2>4 DEF Bargains, Table!BargainNext
<1>. QED  BY <1>3, <1>4

LEMMA RequotingBargains ==
  ASSUME IInv, NEW hd \in Handlers, RequoteTransaction(hd), NEW t \in Threads \ raced
  PROVE  Bargains(t)
<1>. USE DEF UNCHANGED_history, At
<1>1. /\ \A x \in Offers : offer'[x] = IF call[hd].seen /\ x \in Pending(call[hd].tgt)
                                      THEN "SUPERSEDED" ELSE offer[x]
      /\ requoted' = requoted \cup {call[hd].tgt}
      /\ UNCHANGED <<thread, about, amount>> /\ TypeOK
  BY DEF RequoteTransaction, IInv
<1>2. CASE call[hd].tgt # t
  BY <1>1, <1>2, OthersLeaveTheTable DEF Bargains, OffersOf, Pending
<1>3. CASE call[hd].tgt = t
  <2>1. /\ thread[t] = "OPEN" /\ t \notin requoted /\ OffersOf(t) # {}
        /\ call[hd].seen <=> Pending(t) # {}
    BY <1>3 DEF IInv, CallsKnowThread, KnowsThread, RequoteTransaction
  <2>2. Accepted(t) = {}
    BY <2>1 DEF IInv, ThreadsOrderly, Deal
  <2>3. OffersOf(t)' = OffersOf(t)
    BY <1>1 DEF OffersOf, Pending
  <2>4. Live(t)' = {}
    BY <1>1, <1>3, <2>1, <2>2, <2>3 DEF Live, Pending, Accepted, OffersOf
  <2>5. [x \in OffersOf(t) |-> amount[x]]' = [x \in OffersOf(t) |-> amount[x]]
    BY <1>1, <2>3
  <2>6. t \in requoted'
    BY <1>1, <1>3
  <2>7. Table(t)!AskAgain
    BY <1>1, <2>1, <2>3, <2>4, <2>5, <2>6 DEF Table!AskAgain
  <2>. QED  BY <2>7 DEF Bargains, Table!BargainNext
<1>. QED  BY <1>2, <1>3

\* A hub or a POST opens the thread, the end of the inquiry closes it.
LEMMA OpeningAndClosingBargain ==
  ASSUME IInv, NEW hd \in Handlers, ThreadCreate(hd) \/ EndThreads(hd), NEW t \in Threads
  PROVE  Bargains(t)
<1>1. UNCHANGED <<offer, about, amount, requoted>> /\ TypeOK
  BY DEF ThreadCreate, EndThreads, UNCHANGED_offers, IInv
<1>2. OffersOf(t)' = OffersOf(t) /\ Live(t)' = Live(t)
  BY <1>1 DEF OffersOf, Live, Pending, Accepted
<1>3. [x \in OffersOf(t) |-> amount[x]]' = [x \in OffersOf(t) |-> amount[x]]
  BY <1>1, <1>2
<1>4. \/ thread'[t] = thread[t]
      \/ thread[t] = "ABSENT" /\ thread'[t] = "OPEN"
      \/ thread[t] = "OPEN" /\ thread'[t] = "CLOSED"
  BY <1>1 DEF ThreadCreate, EndThreads, TypeOK
<1>5. UNCHANGED Table(t)!bargainVars \/ Table(t)!Open \/ Table(t)!Close
  BY <1>1, <1>2, <1>3, <1>4 DEF Table!bargainVars, Table!Open, Table!Close
<1>. QED  BY <1>5 DEF Bargains, Table!BargainNext

LEMMA ThreadBargains ==
  ASSUME IInv, [Next]_vars, NEW t \in Threads \ raced
  PROVE  Bargains(t)
<1>. USE DEF UNCHANGED_offers, UNCHANGED_threads
<1>1. CASE UNCHANGED <<thread, requoted, offer, about, amount>>
  BY <1>1, OthersLeaveTheTable DEF Bargains
<1>2. ASSUME NEW hd \in Handlers, Start(hd) \/ Crash(hd)
      PROVE  Bargains(t)
  BY <1>1, <1>2 DEF Start, Submit, Crash, Post, Hub, Quote, Accept, Reject, Requote, Checkout, End, StartDeciding
<1>3. ASSUME NEW hd \in Handlers,
             \/ PostRequest(hd) \/ ThreadFind(hd) \/ ThreadSeed(hd) \/ HubRead(hd) \/ HubNext(hd)
             \/ RequoteFind(hd) \/ EndUpdate(hd) \/ EndRequests(hd) \/ CheckoutInsert(hd)
      PROVE  Bargains(t)
  BY <1>1, <1>3 DEF PostRequest, ThreadFind, ThreadSeed, HubRead, HubNext, RequoteFind,
                    EndUpdate, EndRequests, CheckoutInsert
<1>4. ASSUME \/ \E u \in Threads, s \in {"LIVE", "CANCELLED"} : SetStatus(u, s)
             \/ \E u \in Threads, p \in ListPrices \cup {None} : EditPrice(u, p)
             \/ \E c \in charges : Settle(c)
             \/ UNCHANGED vars
      PROVE  Bargains(t)
  BY <1>1, <1>4 DEF SetStatus, EditPrice, Settle, vars
<1>. QED  BY <1>2, <1>3, <1>4, QuotingBargains, AcceptingBargains, RejectingBargains,
             RequotingBargains, OpeningAndClosingBargain DEF Next, Outside, Proceed

LEMMA BargainStarts ==
  ASSUME Init, NEW t \in Threads
  PROVE  Table(t)!BargainInit
<1>1. OffersOf(t) = {} /\ Live(t) = {}
  BY DEF Init, OffersOf, Live, Pending, Accepted
<1>2. [o \in OffersOf(t) |-> amount[o]] \in [{} -> Amounts]
  BY <1>1
<1>. QED  BY <1>1, <1>2 DEF Init, Table!BargainInit

\* However many invocations work on the other threads, die half way, edit prices
\* or settle payments, a thread is an orderly bargain until two decisions overlap
\* on it: the guards of the routes (assertCanCreateExactQuote,
\* assertThreadOpenForNegotiation, requestSeekerReQuote) are enough for that.
THEOREM ThreadsBargain == Spec => OrderlyBargain
<1>1. IInv /\ [Next]_vars => [\A t \in Threads \ raced' : Bargains(t)]_vars
  BY RacedGrows, ThreadBargains
<1>2. Init => \A t \in Threads : Table(t)!BargainInit
  BY BargainStarts
<1>. QED  BY <1>1, <1>2, InitIInv, NextIInv, PTL DEF Spec, OrderlyBargain, Bargains

\* A thread on which no two decisions ever overlap implements Bargain.
THEOREM UnracedImplementsBargain ==
  ASSUME NEW t \in Threads
  PROVE  Spec /\ [](t \notin raced) => Table(t)!BargainSpec
<1>1. IInv /\ t \notin raced /\ [Next]_vars => [Table(t)!BargainNext]_(Table(t)!bargainVars)
  BY ThreadBargains DEF Bargains
<1>2. Init => Table(t)!BargainInit
  BY BargainStarts
<1>. QED  BY <1>1, <1>2, InitIInv, NextIInv, PTL DEF Spec, Table!BargainSpec

----------------------------------------------------------------------------
(* The invocations that add requests and threads *)

\* An invocation that adds nothing, or no longer, steps.
LEMMA HubAside ==
  ASSUME IInv, HubInv, NEW hd \in Handlers, NEW c \in Calls, Moves(hd, c),
         ~Adds(c), ~c.fresh, c.pc = "end.update" => c.to # "ABSENT",
         UNCHANGED <<requests, hubRaced>>, opening \subseteq opening',
         life'[Venue] = "ABSENT" => life[Venue] = "ABSENT",
         thread'[Venue] # "ABSENT" => thread[Venue] # "ABSENT",
         crashes' = 0 => crashes = 0 /\ (At(hd, "thread.seed") => call[hd].tgt # Venue)
  PROVE  HubInv'
<1>. USE DEF HubInv, Moves
<1>1. OneAdder' /\ NoneBefore' /\ InOrder'
  BY DEF OneAdder, NoneBefore, InOrder, At
<1>2. YetToAdd'
  BY DEF YetToAdd, At, Adds, AddingSteps
<1>3. Opened'
  BY DEF Opened, At
<1>. QED  BY <1>1, <1>2, <1>3 DEF OneRequestPerService

LEMMA HubOutside ==
  ASSUME IInv, HubInv,
         \/ \E t \in Threads, s \in {"LIVE", "CANCELLED"} : SetStatus(t, s)
         \/ \E t \in Threads, p \in ListPrices \cup {None} : EditPrice(t, p)
         \/ \E c \in charges : Settle(c)
         \/ UNCHANGED vars
  PROVE  HubInv'
<1>. USE DEF UNCHANGED_rows, UNCHANGED_threads, UNCHANGED_history
<1>. TypeOK /\ Venue \in Threads
  BY DEF IInv, Threads
<1>1. /\ UNCHANGED <<requests, thread, opening, call, crashes, hubRaced>>
      /\ life'[Venue] = "ABSENT" => life[Venue] = "ABSENT"
  <2>1. CASE \E t \in Threads, s \in {"LIVE", "CANCELLED"} : SetStatus(t, s)
    BY <2>1 DEF SetStatus, TypeOK
  <2>2. CASE \E t \in Threads, p \in ListPrices \cup {None} : EditPrice(t, p)
    BY <2>2 DEF EditPrice
  <2>3. CASE \E c \in charges : Settle(c)
    BY <2>3 DEF Settle, TypeOK
  <2>4. CASE UNCHANGED vars
    BY <2>4 DEF vars
  <2>. QED  BY <2>1, <2>2, <2>3, <2>4
<1>. QED  BY <1>1 DEF HubInv, OneAdder, NoneBefore, YetToAdd, InOrder, Opened, At, OneRequestPerService

LEMMA HubStarts ==
  ASSUME IInv, HubInv, NEW hd \in Handlers, Start(hd)
  PROVE  HubInv'
<1>. USE DEF UNCHANGED_rows, UNCHANGED_threads, UNCHANGED_history
<1>. TypeOK /\ TypeOK'
  BY StartersKeepIInv DEF IInv
<1>0. \A c : Begin(hd, c) => c \in Calls /\ Moves(hd, c) /\ call[hd] = Idle
  BY DEF Begin, Become, TypeOK, Moves
\* An invocation that adds nothing begins.
<1>1. ASSUME NEW c, Begin(hd, c), c.pc \in DecidingSteps \cup {"end.update", "checkout.insert"},
             ~c.fresh, c.pc = "end.update" => c.to # "ABSENT",
             UNCHANGED <<life, requests, thread, opening, crashes, hubRaced>>
      PROVE  HubInv'
  <2>1. c \in Calls /\ Moves(hd, c) /\ ~Adds(c) /\ ~At(hd, "thread.seed")
    BY <1>0, <1>1 DEF DecidingSteps, Adds, AddingSteps, Idle, At
  <2>. QED  BY <1>1, <2>1, HubAside
<1>2. ASSUME NEW t, NEW c, StartDeciding(hd, t, c), c.pc \in DecidingSteps, ~c.fresh
      PROVE  HubInv'
  <2>1. Begin(hd, c) /\ UNCHANGED <<life, requests, thread, opening, crashes, hubRaced>>
    BY <1>2 DEF StartDeciding
  <2>. QED  BY <1>1, <1>2, <2>1 DEF DecidingSteps
<1>3. ASSUME NEW t \in Threads, NEW a \in Amounts, Quote(hd, t, a)
      PROVE  HubInv'
  <2>. DEFINE c == [Idle EXCEPT !.pc = "quote.create", !.tgt = t, !.amt = a]
  <2>1. StartDeciding(hd, t, c) /\ c.pc \in DecidingSteps /\ ~c.fresh
    BY <1>3 DEF Quote, DecidingSteps, Idle
  <2>. QED  BY <2>1, <1>2
<1>4. ASSUME NEW o \in Offers, Accept(hd, o)
      PROVE  HubInv'
  <2>. DEFINE c == [Idle EXCEPT !.pc = "accept.transaction", !.tgt = about[o], !.offer = o]
  <2>1. StartDeciding(hd, about[o], c) /\ c.pc \in DecidingSteps /\ ~c.fresh
    BY <1>4 DEF Accept, DecidingSteps, Idle
  <2>. QED  BY <2>1, <1>2
<1>5. ASSUME NEW o \in Offers, Reject(hd, o)
      PROVE  HubInv'
  <2>. DEFINE c == [Idle EXCEPT !.pc = "reject.update", !.tgt = about[o], !.offer = o]
  <2>1. StartDeciding(hd, about[o], c) /\ c.pc \in DecidingSteps /\ ~c.fresh
    BY <1>5 DEF Reject, DecidingSteps, Idle
  <2>. QED  BY <2>1, <1>2
<1>6. ASSUME NEW t \in Threads, Requote(hd, t)
      PROVE  HubInv'
  <2>. DEFINE c == [Idle EXCEPT !.pc = "requote.find", !.tgt = t]
  <2>1. StartDeciding(hd, t, c) /\ c.pc \in DecidingSteps /\ ~c.fresh
    BY <1>6 DEF Requote, DecidingSteps, Idle
  <2>. QED  BY <2>1, <1>2
<1>7. ASSUME NEW to \in {"REJECTED", "CANCELLED"}, End(hd, to)
      PROVE  HubInv'
  <2>. DEFINE c == [Idle EXCEPT !.pc = "end.update", !.tgt = Venue, !.to = to]
  <2>1. Begin(hd, c) /\ c.pc = "end.update" /\ ~c.fresh /\ c.to # "ABSENT"
    BY <1>7 DEF End, Idle
  <2>2. UNCHANGED <<life, requests, thread, opening, crashes, hubRaced>>
    BY <1>7 DEF End
  <2>. QED  BY <2>1, <2>2, <1>1
<1>8. ASSUME NEW t \in Threads, Checkout(hd, t)
      PROVE  HubInv'
  <2>1. PICK p \in PriceAndSource(t) :
           Begin(hd, [Idle EXCEPT !.pc = "checkout.insert", !.tgt = t, !.amt = p[1], !.from = p[2],
                                  !.after = (Accepted(t) # {})])
    BY <1>8 DEF Checkout
  <2>. DEFINE c == [Idle EXCEPT !.pc = "checkout.insert", !.tgt = t, !.amt = p[1], !.from = p[2],
                                !.after = (Accepted(t) # {})]
  <2>2. c.pc = "checkout.insert" /\ ~c.fresh
    BY DEF Idle
  <2>3. UNCHANGED <<life, requests, thread, opening, crashes, hubRaced>>
    BY <1>8 DEF Checkout
  <2>. QED  BY <2>1, <2>2, <2>3, <1>1
\* An invocation that adds begins: it is the only one, or hubRaced.
<1>9. ASSUME NEW c, Begin(hd, c), HubOverlap(hd), c.pc \in {"post.request", "thread.find"}, ~c.fresh,
             c.pc = "post.request" => c.todo \subseteq Services /\ \A s \in Services : requests[s] = 0,
             life'[Venue] # "ABSENT", UNCHANGED <<requests, thread, opening, crashes>>
      PROVE  HubInv'
  <2>. Moves(hd, c) /\ ~Adds(call[hd]) /\ ~At(hd, "thread.seed")
    BY <1>0, <1>9 DEF Adds, AddingSteps, Idle, At
  <2>. ~hubRaced' => ~hubRaced /\ \A other \in Handlers \ {hd} : ~Adds(call[other])
    BY <1>9, Zenon DEF HubOverlap
  <2>1. OneAdder' /\ NoneBefore'
    BY <1>9 DEF Moves, OneAdder, NoneBefore
  <2>2. YetToAdd'
    BY <1>9 DEF Moves, YetToAdd, At, Adds, AddingSteps
  <2>3. InOrder' /\ Opened'
    BY <1>9 DEF Moves, HubInv, InOrder, Opened, At
  <2>4. OneRequestPerService'
    BY <1>9 DEF HubInv, OneRequestPerService
  <2>. QED  BY <2>1, <2>2, <2>3, <2>4 DEF HubInv
<1>10. ASSUME NEW chosen \in SUBSET Services, Post(hd, chosen)
       PROVE  HubInv'
  <2>. DEFINE c == [Idle EXCEPT !.pc = "post.request", !.tgt = Venue, !.post = TRUE,
                                !.list = chosen, !.todo = chosen]
  <2>1. Begin(hd, c) /\ c.pc = "post.request" /\ ~c.fresh /\ c.todo \subseteq Services
    BY <1>10 DEF Post, Idle
  <2>2. UNCHANGED <<requests, thread, opening, crashes>> /\ HubOverlap(hd)
    BY <1>10 DEF Post
  <2>3. life'[Venue] # "ABSENT"
    BY <1>10 DEF Post, TypeOK, Threads
  <2>4. \A s \in Services : requests[s] = 0
    BY <1>10 DEF Post, HubInv, NoneBefore
  <2>. QED  BY <2>1, <2>2, <2>3, <2>4, <1>9
<1>11. CASE Hub(hd)
  <2>. DEFINE c == [Idle EXCEPT !.pc = "thread.find", !.tgt = Venue]
  <2>1. Begin(hd, c) /\ c.pc = "thread.find" /\ ~c.fresh
    BY <1>11 DEF Hub, Idle
  <2>2. /\ life'[Venue] # "ABSENT" /\ UNCHANGED <<requests, thread, opening, crashes>>
        /\ HubOverlap(hd)
    BY <1>11 DEF Hub
  <2>. QED  BY <2>1, <2>2, <1>9
<1>. QED  BY <1>3, <1>4, <1>5, <1>6, <1>7, <1>8, <1>10, <1>11 DEF Start, Submit
LEMMA HubProceeds ==
  ASSUME IInv, HubInv, NEW hd \in Handlers, Proceed(hd) \/ Crash(hd)
  PROVE  HubInv'
<1>. USE DEF UNCHANGED_rows, UNCHANGED_threads, UNCHANGED_history
<1>. TypeOK /\ TypeOK' /\ call[hd] \in Calls
  BY NextIInv DEF IInv, Next, TypeOK
<1>0. \A c : Become(hd, c) => c \in Calls /\ Moves(hd, c)
  BY DEF Become, TypeOK, Moves
\* An invocation that adds nothing goes on or ends.
<1>1. ASSUME NEW c, Become(hd, c), ~Adds(c), ~c.fresh, c.pc # "end.update",
             UNCHANGED <<requests, opening, hubRaced>>,
             life'[Venue] = "ABSENT" => life[Venue] = "ABSENT",
             thread'[Venue] # "ABSENT" => thread[Venue] # "ABSENT",
             crashes' = 0 => crashes = 0 /\ ~At(hd, "thread.seed")
      PROVE  HubInv'
  BY <1>0, <1>1, HubAside
<1>2. ~Adds(Idle) /\ ~Idle.fresh /\ Idle.pc # "end.update" /\ (~Adds(call[hd]) => ~call[hd].fresh)
  BY DEF Adds, AddingSteps, Idle, HubInv, InOrder
<1>3. ASSUME Finish(hd), UNCHANGED <<requests, opening, hubRaced>>,
             life'[Venue] = "ABSENT" => life[Venue] = "ABSENT",
             thread'[Venue] # "ABSENT" => thread[Venue] # "ABSENT",
             crashes' = 0 => crashes = 0 /\ ~At(hd, "thread.seed")
      PROVE  HubInv'
  BY <1>1, <1>2, <1>3 DEF Finish
<1>4. CASE QuoteCreate(hd) \/ RejectUpdate(hd) \/ RequoteTransaction(hd) \/ CheckoutInsert(hd)
  BY <1>3, <1>4 DEF QuoteCreate, RejectUpdate, RequoteTransaction, CheckoutInsert, At
<1>5. CASE AcceptTransaction(hd)
  <2>1. KnowsRows(call[hd]) /\ At(hd, "accept.transaction") /\ ~At(hd, "thread.seed")
    BY <1>5 DEF AcceptTransaction, IInv, CallsKnowRows, At
  <2>2. thread'[Venue] # "ABSENT" => thread[Venue] # "ABSENT"
    BY <1>5, <2>1 DEF AcceptTransaction, KnowsRows, At, DecidingSteps, TypeOK
  <2>3. life'[Venue] = life[Venue]
    BY <1>5 DEF AcceptTransaction, TypeOK
  <2>4. Finish(hd) /\ UNCHANGED <<requests, opening, crashes, hubRaced>>
    BY <1>5 DEF AcceptTransaction
  <2>. QED  BY <1>3, <2>1, <2>2, <2>3, <2>4
<1>6. CASE EndThreads(hd)
  <2>. DEFINE c == [call[hd] EXCEPT !.pc = "end.requests"]
  <2>1. Become(hd, c) /\ c.pc = "end.requests" /\ c.fresh = call[hd].fresh /\ ~Adds(call[hd]) /\ ~Adds(c)
    BY <1>6 DEF EndThreads, Continue, At, Adds, AddingSteps, Calls
  <2>2. thread'[Venue] # "ABSENT" => thread[Venue] # "ABSENT"
    BY <1>6 DEF EndThreads, TypeOK, Threads
  <2>3. UNCHANGED <<life, requests, opening, crashes, hubRaced>> /\ ~At(hd, "thread.seed")
    BY <1>6 DEF EndThreads, At
  <2>. QED  BY <1>1, <1>2, <2>1, <2>2, <2>3
<1>7. CASE RequoteFind(hd)
  <2>. DEFINE c == [call[hd] EXCEPT !.pc = "requote.transaction", !.seen = (Pending(call[hd].tgt) # {})]
  <2>1. c.pc = "requote.transaction" /\ c.fresh = call[hd].fresh /\ ~Adds(call[hd]) /\ ~Adds(c)
    BY <1>7 DEF RequoteFind, At, Adds, AddingSteps, Calls
  <2>2. UNCHANGED <<life, requests, thread, opening, crashes, hubRaced>> /\ ~At(hd, "thread.seed")
    BY <1>7 DEF RequoteFind, At
  <2>3. Become(hd, c) \/ Finish(hd)
    BY <1>7 DEF RequoteFind
  <2>. QED  BY <1>1, <1>2, <1>3, <2>1, <2>2, <2>3
<1>8. CASE EndUpdate(hd)
  <2>. DEFINE c == [call[hd] EXCEPT !.pc = "end.threads"]
  <2>1. Become(hd, c) /\ c.pc = "end.threads" /\ c.fresh = call[hd].fresh /\ ~Adds(call[hd]) /\ ~Adds(c)
    BY <1>8 DEF EndUpdate, Continue, At, Adds, AddingSteps, Calls
  <2>2. UNCHANGED <<requests, thread, opening, crashes, hubRaced>> /\ ~At(hd, "thread.seed")
    BY <1>8 DEF EndUpdate, At
  <2>3. life'[Venue] # "ABSENT"
    BY <1>8 DEF EndUpdate, HubInv, InOrder, At, TypeOK, Threads
  <2>. QED  BY <1>1, <1>2, <2>1, <2>2, <2>3
<1>9. CASE EndRequests(hd)
  <2>1. life'[Venue] = life[Venue]
    BY <1>9, NegotiationAssumption DEF EndRequests, Threads
  <2>. QED  BY <1>3, <1>9, <2>1 DEF EndRequests, At
<1>10. CASE Crash(hd)
  <2>1. crashes' # 0
    BY <1>10 DEF Crash, TypeOK
  <2>. QED  BY <1>3, <1>10, <2>1 DEF Crash
\* An invocation that adds goes on: c.
<1>11. ASSUME NEW c, Become(hd, c), Adds(call[hd]), Adds(c), UNCHANGED <<crashes, hubRaced>>,
              thread'[Venue] # "ABSENT" =>
                 \/ thread[Venue] # "ABSENT" /\ (At(hd, "thread.seed") => call[hd].tgt # Venue)
                 \/ Venue \in opening'
                 \/ c.pc = "thread.seed" /\ c.tgt = Venue,
              opening \subseteq opening',
              life'[Venue] = "ABSENT" => life[Venue] = "ABSENT",
              \A s \in Services : \/ requests'[s] = requests[s]
                                  \/ ~hubRaced => requests[s] = 0 /\ requests'[s] = 1,
              ~hubRaced /\ (c.pc = "post.request" \/ c.fresh) => \A s \in c.todo : requests'[s] = 0
       PROVE  HubInv'
  <2>1. Moves(hd, c)
    BY <1>0, <1>11
  <2>2. OneAdder' /\ NoneBefore' /\ InOrder'
    BY <1>11, <2>1 DEF HubInv, Moves, OneAdder, NoneBefore, InOrder, At, Adds, AddingSteps
  <2>3. YetToAdd'
    BY <1>11, <2>1 DEF HubInv, Moves, OneAdder, YetToAdd, At, Adds, AddingSteps
  <2>4. Opened'
    BY <1>11, <2>1 DEF HubInv, Moves, Opened, At
  <2>5. OneRequestPerService'
    BY <1>11 DEF HubInv, OneRequestPerService, TypeOK
  <2>. QED  BY <2>2, <2>3, <2>4, <2>5 DEF HubInv
\* The service whose request is added had none, unless hubRaced.
<1>12. ASSUME NEW s \in Services, NewRequest(s), ~hubRaced => requests[s] = 0
       PROVE  /\ life'[Venue] = life[Venue]
              /\ \A u \in Services \ {s} : requests'[u] = requests[u]
              /\ ~hubRaced => requests'[s] = 1
  BY <1>12, NegotiationAssumption DEF NewRequest, TypeOK, Threads
<1>13. call[hd].todo \subseteq Services
  BY DEF Calls
<1>14. CASE PostRequest(hd)
  <2>1. /\ Adds(call[hd]) /\ At(hd, "post.request")
        /\ UNCHANGED <<thread, opening, crashes, hubRaced>>
    BY <1>14 DEF PostRequest, At, Adds, AddingSteps
  <2>2. ASSUME NEW s \in call[hd].todo, NewRequest(s), Become(hd, [call[hd] EXCEPT !.todo = @ \ {s}])
        PROVE  HubInv'
    <3>. DEFINE c == [call[hd] EXCEPT !.todo = @ \ {s}]
    <3>1. c.pc = "post.request" /\ Adds(c) /\ c.todo = call[hd].todo \ {s}
      BY <2>1 DEF At, Adds, AddingSteps, Calls
    <3>2. /\ ~hubRaced => \A u \in call[hd].todo : requests[u] = 0
          /\ ~At(hd, "thread.seed")
      BY <2>1 DEF HubInv, YetToAdd, At
    <3>3. /\ s \in Services /\ life'[Venue] = life[Venue]
          /\ \A u \in Services \ {s} : requests'[u] = requests[u]
          /\ ~hubRaced => requests[s] = 0 /\ requests'[s] = 1
      BY <2>2, <3>2, <1>12, <1>13
    <3>4. ~hubRaced => \A u \in c.todo : requests'[u] = 0
      BY <3>1, <3>2, <3>3, <1>13
    <3>. QED  BY <2>1, <2>2, <3>1, <3>2, <3>3, <3>4, <1>11
  <2>3. CASE call[hd].todo = {} /\ Continue(hd, "thread.find") /\ UNCHANGED <<life, requests>>
    <3>. DEFINE c == [call[hd] EXCEPT !.pc = "thread.find"]
    <3>1. Become(hd, c) /\ c.pc = "thread.find" /\ Adds(c) /\ c.todo = {} /\ ~At(hd, "thread.seed")
      BY <2>1, <2>3 DEF Continue, At, Adds, AddingSteps, Calls
    <3>. QED  BY <2>1, <2>3, <3>1, <1>11
  <2>. QED  BY <1>14, <2>2, <2>3 DEF PostRequest
<1>15. CASE ThreadFind(hd)
  <2>. DEFINE pc == IF thread[call[hd].tgt] = "ABSENT" THEN "thread.create" ELSE AfterThread(hd)
              c == [call[hd] EXCEPT !.pc = pc]
  <2>1. Become(hd, c) /\ c.pc \in {"thread.create", "hub.read", "hub.next"} /\ Adds(c)
        /\ c.fresh = call[hd].fresh /\ c.todo = call[hd].todo
    BY <1>15 DEF ThreadFind, Continue, AfterThread, Adds, AddingSteps, Calls
  <2>2. Adds(call[hd]) /\ ~At(hd, "thread.seed") /\ UNCHANGED <<life, requests, thread, opening, crashes, hubRaced>>
    BY <1>15 DEF ThreadFind, At, Adds, AddingSteps
  <2>3. ~hubRaced /\ (c.pc = "post.request" \/ c.fresh) => \A s \in c.todo : requests'[s] = 0
    BY <2>1, <2>2 DEF HubInv, YetToAdd
  <2>. QED  BY <2>1, <2>2, <2>3, <1>11
<1>16. CASE ThreadCreate(hd)
  <2>. DEFINE c == [call[hd] EXCEPT !.pc = "thread.seed"]
  <2>1. Adds(call[hd]) /\ ~At(hd, "thread.seed") /\ UNCHANGED <<life, requests, opening, crashes, hubRaced>>
    BY <1>16 DEF ThreadCreate, At, Adds, AddingSteps
  <2>2. CASE UNCHANGED thread /\ Finish(hd)
    BY <2>1, <2>2, <1>3
  <2>3. CASE thread' = [thread EXCEPT ![call[hd].tgt] = "OPEN"] /\ Continue(hd, "thread.seed")
    <3>1. Become(hd, c) /\ c.pc = "thread.seed" /\ Adds(c) /\ c.tgt = call[hd].tgt
          /\ c.fresh = call[hd].fresh /\ c.todo = call[hd].todo
      BY <2>3 DEF Continue, Adds, AddingSteps, Calls
    <3>2. thread'[Venue] # "ABSENT" => thread[Venue] # "ABSENT" \/ c.tgt = Venue
      BY <2>3, <3>1 DEF TypeOK
    <3>3. ~hubRaced /\ (c.pc = "post.request" \/ c.fresh) => \A s \in c.todo : requests'[s] = 0
      BY <2>1, <3>1 DEF HubInv, YetToAdd
    <3>. QED  BY <2>1, <3>1, <3>2, <3>3, <1>11
  <2>. QED  BY <1>16, <2>2, <2>3 DEF ThreadCreate
<1>17. CASE ThreadSeed(hd)
  <2>. DEFINE c == [call[hd] EXCEPT !.pc = AfterThread(hd)]
  <2>1. Become(hd, c) /\ c.pc \in {"hub.read", "hub.next"} /\ Adds(c)
        /\ c.fresh = call[hd].fresh /\ c.todo = call[hd].todo
    BY <1>17 DEF ThreadSeed, Continue, AfterThread, Adds, AddingSteps, Calls
  <2>2. Adds(call[hd]) /\ UNCHANGED <<life, requests, thread, crashes, hubRaced>>
    BY <1>17 DEF ThreadSeed, At, Adds, AddingSteps
  <2>3. opening \subseteq opening' /\ (call[hd].tgt = Venue => Venue \in opening')
    BY <1>17, NegotiationAssumption DEF ThreadSeed
  <2>4. ~hubRaced /\ (c.pc = "post.request" \/ c.fresh) => \A s \in c.todo : requests'[s] = 0
    BY <2>1, <2>2 DEF HubInv, YetToAdd
  <2>. QED  BY <2>1, <2>2, <2>3, <2>4, <1>11
<1>18. CASE HubRead(hd)
  <2>. DEFINE found == {s \in Services : requests[s] > 0}
              fresh == ~call[hd].post /\ found = {}
              todo  == IF call[hd].post THEN call[hd].list ELSE IF fresh THEN Services ELSE found
              c == [call[hd] EXCEPT !.pc = "hub.next", !.todo = todo, !.fresh = fresh]
  <2>1. Become(hd, c) /\ c.pc = "hub.next" /\ Adds(c) /\ c.fresh = fresh /\ c.todo = todo
    BY <1>18 DEF HubRead, Adds, AddingSteps, Calls
  <2>2. Adds(call[hd]) /\ ~At(hd, "thread.seed") /\ UNCHANGED <<life, requests, thread, opening, crashes, hubRaced>>
    BY <1>18 DEF HubRead, At, Adds, AddingSteps
  <2>3. fresh => \A s \in Services : requests[s] = 0
    BY DEF TypeOK
  <2>4. ~hubRaced /\ (c.pc = "post.request" \/ c.fresh) => \A s \in c.todo : requests'[s] = 0
    BY <2>1, <2>2, <2>3, <1>13, <1>0 DEF Calls
  <2>. QED  BY <2>1, <2>2, <2>4, <1>11
<1>19. CASE HubNext(hd)
  <2>1. Adds(call[hd]) /\ ~At(hd, "thread.seed") /\ UNCHANGED <<thread, opening, crashes, hubRaced>>
    BY <1>19 DEF HubNext, At, Adds, AddingSteps
  <2>2. ASSUME NEW s \in call[hd].todo,
               Become(hd, [call[hd] EXCEPT !.pc = "thread.find", !.tgt = s, !.todo = @ \ {s}]),
               IF call[hd].fresh THEN NewRequest(s) ELSE UNCHANGED <<life, requests>>
        PROVE  HubInv'
    <3>. DEFINE c == [call[hd] EXCEPT !.pc = "thread.find", !.tgt = s, !.todo = @ \ {s}]
    <3>1. c.pc = "thread.find" /\ Adds(c) /\ c.todo = call[hd].todo \ {s} /\ c.fresh = call[hd].fresh
      BY DEF Adds, AddingSteps, Calls
    <3>2. ~hubRaced /\ call[hd].fresh => \A u \in call[hd].todo : requests[u] = 0
      BY <2>1 DEF HubInv, YetToAdd
    <3>3. CASE call[hd].fresh
      <4>1. /\ s \in Services /\ life'[Venue] = life[Venue]
            /\ \A u \in Services \ {s} : requests'[u] = requests[u]
            /\ ~hubRaced => requests[s] = 0 /\ requests'[s] = 1
        BY <2>2, <3>2, <3>3, <1>12, <1>13
      <4>2. ~hubRaced => \A u \in c.todo : requests'[u] = 0
        BY <3>1, <3>2, <3>3, <4>1, <1>13
      <4>. QED  BY <2>1, <2>2, <3>1, <4>1, <4>2, <1>11
    <3>4. CASE ~call[hd].fresh
      <4>1. UNCHANGED <<life, requests>> /\ ~c.fresh
        BY <2>2, <3>1, <3>4
      <4>. QED  BY <2>1, <2>2, <3>1, <4>1, <1>11
    <3>. QED  BY <3>3, <3>4
  <2>3. CASE Finish(hd) /\ UNCHANGED <<life, requests>>
    BY <2>1, <2>3, <1>3
  <2>. QED  BY <1>19, <2>2, <2>3 DEF HubNext
<1>. QED  BY <1>4, <1>5, <1>6, <1>7, <1>8, <1>9, <1>10, <1>14, <1>15, <1>16, <1>17, <1>18, <1>19 DEF Proceed
LEMMA InitHubInv == Init => HubInv
<1>. SUFFICES ASSUME Init PROVE HubInv
  OBVIOUS
<1>. Venue \in Threads /\ \A hd \in Handlers : call[hd] = Idle
  BY DEF Init, Threads
<1>1. OneAdder /\ NoneBefore /\ YetToAdd /\ InOrder
  BY DEF Init, OneAdder, NoneBefore, YetToAdd, InOrder, At, Adds, AddingSteps, Idle
<1>2. Opened /\ OneRequestPerService
  BY DEF Init, Opened, OneRequestPerService
<1>. QED  BY <1>1, <1>2 DEF HubInv

LEMMA NextHubInv == IInv /\ HubInv /\ [Next]_vars => HubInv'
BY HubStarts, HubProceeds, HubOutside DEF Next, Outside

\* A service has one request (bootstrapNegotiationForNewInquiry, the hub),
\* unless two invocations that add requests overlapped.
THEOREM OneRequest == Spec => []OneRequestPerService
<1>1. HubInv => OneRequestPerService
  BY DEF HubInv
<1>. QED  BY <1>1, InitIInv, NextIInv, InitHubInv, NextHubInv, PTL DEF Spec

\* The venue's thread has its opening message (seedThreadInitialMessage) once
\* nobody adds threads any more, unless an invocation died.
THEOREM ThreadOpened == Spec => []ThreadIsOpened
<1>1. HubInv => ThreadIsOpened
  BY DEF HubInv, Opened, ThreadIsOpened, At, Adds, AddingSteps
<1>. QED  BY <1>1, InitIInv, NextIInv, InitHubInv, NextHubInv, PTL DEF Spec

\* Both together: what the hubs leave behind is complete and not doubled.
THEOREM HubIsOrderly == Spec => []HubAddsOnce
BY OneRequest, ThreadOpened, PTL DEF HubAddsOnce
=============================================================================
