----------------------------- MODULE Negotiation -----------------------------
(***************************************************************************)
(* The negotiation of one inquiry: a thread with the venue and one with    *)
(* each supplier, the exact quotes of the providers, the seeker's          *)
(* decisions, and the price that a checkout charges.                       *)
(*                                                                         *)
(* As in Booking, call[hd] is the invocation in flight in slot hd; every   *)
(* awaited query is one step and only a prisma.$transaction is atomic.     *)
(* The thread of a service is identified with its service; life[t] is the  *)
(* status of what the thread is about: the inquiry for the venue's thread, *)
(* the service request for a supplier's.                                   *)
(*                                                                         *)
(* raced, hubRaced, terms and the field after of a checkout and its charge *)
(* are history: no step reads them.                                        *)
(***************************************************************************)
EXTENDS Naturals, FiniteSets

CONSTANTS
    Venue,       \* the thread with the venue
    Services,    \* the services of the inquiry, each with a thread of its own
    Offers,      \* NegotiationOffer rows: bounds the quotes of a behaviour
    Amounts,     \* sums that can be quoted, positive (a checkout takes 0 for no amount)
    ListPrices,  \* those of them a catalogue may name as its fixed price
    MaxCharges,  \* bound: charges of a behaviour
    Handlers,    \* invocations in flight at the same time
    MaxCrashes,  \* bound: invocations that die half way
    None         \* no value

Threads == Services \cup {Venue}

ASSUME NegotiationAssumption ==
    /\ IsFiniteSet(Offers)
    /\ Venue \notin Services
    /\ None \notin Threads \cup Offers \cup Amounts
    /\ ListPrices \subseteq Amounts
    /\ MaxCharges \in Nat
    /\ MaxCrashes \in Nat

VARIABLES
    life,       \* Inquiry.status, ServiceRequest.status
    requests,   \* how many ServiceRequest rows a service has for the inquiry
    thread,     \* NegotiationThread.status
    opening,    \* threads whose conversation has its opening message
    requoted,   \* threads with seekerReQuoteRequestedAt
    offer,      \* NegotiationOffer.status
    about,      \* NegotiationOffer.threadId
    amount,     \* NegotiationOffer.amountMinNis (= amountMaxNis)
    listPrice,  \* the fixed catalogue price, None for a range or no price
    agreed,     \* agreedAmountNis
    charges,    \* payments created at checkout
    call,       \* the in-flight invocations
    crashes,    \* invocations that have died so far
    raced,      \* history: threads on which two decisions overlapped
    hubRaced,   \* history: two invocations that add threads overlapped
    terms       \* history: amounts listed as the price, or accepted

vars == <<life, requests, thread, opening, requoted, offer, about, amount,
          listPrice, agreed, charges, call, crashes, raced, hubRaced, terms>>

----------------------------------------------------------------------------
(* Statuses and invocations *)

Lives         == {"ABSENT", "LIVE", "REJECTED", "CANCELLED", "PAID"}
ThreadStates  == {"ABSENT", "OPEN", "DEAL_ACCEPTED", "CLOSED"}
OfferStates   == {"ABSENT", "PENDING", "ACCEPTED", "REJECTED", "SUPERSEDED"}
Sources       == {"agreed", "offer", "list"}

\* after: the thread had an accepted offer when the checkout read its price.
Charges == [tgt : Threads, amt : Amounts, from : Sources, after : BOOLEAN]

DecidingSteps == {"quote.create", "accept.transaction", "reject.update",
                  "requote.find", "requote.transaction"}
EndingSteps   == {"end.update", "end.threads", "end.requests"}
AddingSteps   == {"post.request", "thread.find", "thread.create", "thread.seed",
                  "hub.read", "hub.next"}
Steps == {"idle", "checkout.insert"} \cup DecidingSteps \cup EndingSteps \cup AddingSteps

\* seen: a pending quote was found; to: the status an ending inquiry gets;
\* list, todo: the services of a POST and those whose thread is still to come;
\* fresh: the hub found no request and adds them.
Calls == [pc : Steps, tgt : Threads \cup {None}, offer : Offers \cup {None},
          amt : Amounts \cup {None}, from : Sources, after : BOOLEAN, seen : BOOLEAN, to : Lives,
          post : BOOLEAN, list : SUBSET Services, todo : SUBSET Services, fresh : BOOLEAN]

Idle == [pc |-> "idle", tgt |-> None, offer |-> None, amt |-> None, from |-> "list",
         after |-> FALSE, seen |-> FALSE, to |-> "ABSENT", post |-> FALSE, list |-> {}, todo |-> {},
         fresh |-> FALSE]

At(hd, pc)       == call[hd].pc = pc
Become(hd, c)    == call' = [call EXCEPT ![hd] = c]
Begin(hd, c)     == call[hd] = Idle /\ Become(hd, c)
Continue(hd, pc) == Become(hd, [call[hd] EXCEPT !.pc = pc])
Finish(hd)       == Become(hd, Idle)

\* Invocations that decide about thread t; ending the inquiry decides about all.
Decides(c, t) == (c.pc \in DecidingSteps /\ c.tgt = t) \/ c.pc \in {"end.update", "end.threads"}
Adds(c)       == c.pc \in AddingSteps

Overlap(hd, T)  == raced' = raced \cup {t \in T : \E other \in Handlers \ {hd} : Decides(call[other], t)}
HubOverlap(hd)  == hubRaced' = (hubRaced \/ \E other \in Handlers \ {hd} : Adds(call[other]))

OffersOf(t) == {o \in Offers : offer[o] # "ABSENT" /\ about[o] = t}
Pending(t)  == {o \in OffersOf(t) : offer[o] = "PENDING"}
Accepted(t) == {o \in OffersOf(t) : offer[o] = "ACCEPTED"}
Live(t)     == Pending(t) \cup Accepted(t)

UNCHANGED_rows    == UNCHANGED <<life, requests>>
UNCHANGED_threads == UNCHANGED <<thread, opening, requoted>>
UNCHANGED_offers  == UNCHANGED <<offer, about, amount>>
UNCHANGED_prices  == UNCHANGED <<listPrice, agreed, charges, terms>>
UNCHANGED_history == UNCHANGED <<crashes, raced, hubRaced>>

TypeOK ==
    /\ life \in [Threads -> Lives]
    /\ requests \in [Services -> Nat]
    /\ thread \in [Threads -> ThreadStates]
    /\ opening \subseteq Threads
    /\ requoted \subseteq Threads
    /\ offer \in [Offers -> OfferStates]
    /\ about \in [Offers -> Threads \cup {None}]
    /\ amount \in [Offers -> Amounts \cup {None}]
    /\ listPrice \in [Threads -> ListPrices \cup {None}]
    /\ agreed \in [Threads -> Amounts \cup {None}]
    /\ charges \subseteq Charges
    /\ call \in [Handlers -> Calls]
    /\ crashes \in 0..MaxCrashes
    /\ raced \subseteq Threads
    /\ hubRaced \in BOOLEAN
    /\ terms \in [Threads -> SUBSET Amounts]

Init ==
    /\ life = [t \in Threads |-> "ABSENT"]
    /\ requests = [s \in Services |-> 0]
    /\ thread = [t \in Threads |-> "ABSENT"]
    /\ opening = {} /\ requoted = {}
    /\ offer = [o \in Offers |-> "ABSENT"]
    /\ about = [o \in Offers |-> None]
    /\ amount = [o \in Offers |-> None]
    /\ listPrice \in [Threads -> ListPrices \cup {None}]
    /\ agreed = [t \in Threads |-> None]
    /\ charges = {}
    /\ call = [hd \in Handlers |-> Idle]
    /\ crashes = 0 /\ raced = {} /\ hubRaced = FALSE
    /\ terms = [t \in Threads |-> {listPrice[t]} \ {None}]

----------------------------------------------------------------------------
(* The inquiry, its requests and their threads *)

\* POST /api/inquiries creates the inquiry, a request for each chosen supplier
\* and then the threads of both (bootstrapNegotiationForNewInquiry).
Post(hd, chosen) ==
    /\ life[Venue] = "ABSENT"
    /\ Begin(hd, [Idle EXCEPT !.pc = "post.request", !.tgt = Venue, !.post = TRUE,
                              !.list = chosen, !.todo = chosen])
    /\ life' = [life EXCEPT ![Venue] = "LIVE"]
    /\ HubOverlap(hd)
    /\ UNCHANGED <<requests, crashes, raced>>
    /\ UNCHANGED_threads /\ UNCHANGED_offers /\ UNCHANGED_prices

NewRequest(s) ==
    /\ requests' = [requests EXCEPT ![s] = @ + 1]
    /\ life' = [life EXCEPT ![s] = IF @ = "ABSENT" THEN "LIVE" ELSE @]

PostRequest(hd) ==
    /\ At(hd, "post.request")
    /\ \/ \E s \in call[hd].todo :
             /\ NewRequest(s)
             /\ Become(hd, [call[hd] EXCEPT !.todo = @ \ {s}])
       \/ /\ call[hd].todo = {}
          /\ Continue(hd, "thread.find")
          /\ UNCHANGED_rows
    /\ UNCHANGED_threads /\ UNCHANGED_offers /\ UNCHANGED_prices /\ UNCHANGED_history

\* GET of the hub: adds the threads that are missing, whatever the status.
Hub(hd) ==
    /\ life[Venue] # "ABSENT"
    /\ Begin(hd, [Idle EXCEPT !.pc = "thread.find", !.tgt = Venue])
    /\ HubOverlap(hd)
    /\ UNCHANGED <<crashes, raced>>
    /\ UNCHANGED_rows /\ UNCHANGED_threads /\ UNCHANGED_offers /\ UNCHANGED_prices

AfterThread(hd) == IF call[hd].tgt = Venue THEN "hub.read" ELSE "hub.next"

ThreadFind(hd) ==
    /\ At(hd, "thread.find")
    /\ Continue(hd, IF thread[call[hd].tgt] = "ABSENT" THEN "thread.create" ELSE AfterThread(hd))
    /\ UNCHANGED_rows /\ UNCHANGED_threads /\ UNCHANGED_offers /\ UNCHANGED_prices
    /\ UNCHANGED_history

\* Mutant: only a POST seeds the thread it creates.
ThreadCreate_Unseeded(hd) ==
    /\ At(hd, "thread.create")
    /\ thread[call[hd].tgt] = "ABSENT"
    /\ thread' = [thread EXCEPT ![call[hd].tgt] = "OPEN"]
    /\ Continue(hd, IF call[hd].post THEN "thread.seed" ELSE AfterThread(hd))
    /\ UNCHANGED <<opening, requoted>>
    /\ UNCHANGED_rows /\ UNCHANGED_offers /\ UNCHANGED_prices /\ UNCHANGED_history

\* The unique key (inquiryId, threadKey) fails the second of two creations.
ThreadCreate(hd) ==
    /\ At(hd, "thread.create")
    /\ \/ /\ thread[call[hd].tgt] = "ABSENT"
          /\ thread' = [thread EXCEPT ![call[hd].tgt] = "OPEN"]
          /\ Continue(hd, "thread.seed")
       \/ /\ thread[call[hd].tgt] # "ABSENT"
          /\ Finish(hd)
          /\ UNCHANGED thread
    /\ UNCHANGED <<opening, requoted>>
    /\ UNCHANGED_rows /\ UNCHANGED_offers /\ UNCHANGED_prices /\ UNCHANGED_history

\* A supplier for whom the seeker wrote no message gets none.
ThreadSeed(hd) ==
    /\ At(hd, "thread.seed")
    /\ \/ opening' = opening \cup {call[hd].tgt}
       \/ call[hd].tgt \in Services /\ UNCHANGED opening
    /\ Continue(hd, AfterThread(hd))
    /\ UNCHANGED <<thread, requoted>>
    /\ UNCHANGED_rows /\ UNCHANGED_offers /\ UNCHANGED_prices /\ UNCHANGED_history

\* A POST goes on with its own requests; the hub with the requests it finds,
\* or, when there are none, with every service of the inquiry.
HubRead(hd) ==
    /\ At(hd, "hub.read")
    /\ LET found == {s \in Services : requests[s] > 0}
           fresh == ~call[hd].post /\ found = {}
           todo  == IF call[hd].post THEN call[hd].list ELSE IF fresh THEN Services ELSE found
       IN  Become(hd, [call[hd] EXCEPT !.pc = "hub.next", !.todo = todo, !.fresh = fresh])
    /\ UNCHANGED_rows /\ UNCHANGED_threads /\ UNCHANGED_offers /\ UNCHANGED_prices
    /\ UNCHANGED_history

\* Mutant: the hub adds a request for every service it comes to.
HubNext_AlwaysAdds(hd) ==
    /\ At(hd, "hub.next")
    /\ \E s \in call[hd].todo :
          /\ Become(hd, [call[hd] EXCEPT !.pc = "thread.find", !.tgt = s, !.todo = @ \ {s}])
          /\ NewRequest(s)
    /\ UNCHANGED_threads /\ UNCHANGED_offers /\ UNCHANGED_prices /\ UNCHANGED_history

HubNext(hd) ==
    /\ At(hd, "hub.next")
    /\ \/ \E s \in call[hd].todo :
             /\ Become(hd, [call[hd] EXCEPT !.pc = "thread.find", !.tgt = s, !.todo = @ \ {s}])
             /\ IF call[hd].fresh THEN NewRequest(s) ELSE UNCHANGED_rows
       \/ /\ call[hd].todo = {}
          /\ Finish(hd)
          /\ UNCHANGED_rows
    /\ UNCHANGED_threads /\ UNCHANGED_offers /\ UNCHANGED_prices /\ UNCHANGED_history

----------------------------------------------------------------------------
(* Quotes and decisions *)

\* bound: every quote under way will find an unused NegotiationOffer row
HasOfferLeft == Cardinality({hd \in Handlers : At(hd, "quote.create")})
                  < Cardinality({o \in Offers : offer[o] = "ABSENT"})

StartDeciding(hd, t, c) ==
    /\ Begin(hd, c)
    /\ Overlap(hd, {t})
    /\ UNCHANGED <<crashes, hubRaced>>
    /\ UNCHANGED_rows /\ UNCHANGED_threads /\ UNCHANGED_offers /\ UNCHANGED_prices

MaxQuotes(t) == IF t \in requoted THEN 2 ELSE 1

\* Mutants: one quote too many, and a second one while the first is pending
Quote_OneMore(hd, t, a) ==
    /\ HasOfferLeft
    /\ thread[t] = "OPEN" /\ listPrice[t] = None
    /\ Pending(t) = {} /\ Cardinality(OffersOf(t)) =< MaxQuotes(t)
    /\ StartDeciding(hd, t, [Idle EXCEPT !.pc = "quote.create", !.tgt = t, !.amt = a])

Quote_WhilePending(hd, t, a) ==
    /\ HasOfferLeft
    /\ thread[t] = "OPEN" /\ listPrice[t] = None
    /\ Cardinality(OffersOf(t)) =< MaxQuotes(t)
    /\ StartDeciding(hd, t, [Idle EXCEPT !.pc = "quote.create", !.tgt = t, !.amt = a])

\* assertCanCreateExactQuote; every amount of the model is within the range.
Quote(hd, t, a) ==
    /\ HasOfferLeft
    /\ thread[t] = "OPEN" /\ listPrice[t] = None
    /\ Pending(t) = {} /\ Cardinality(OffersOf(t)) < MaxQuotes(t)
    /\ StartDeciding(hd, t, [Idle EXCEPT !.pc = "quote.create", !.tgt = t, !.amt = a])

QuoteCreate(hd) ==
    /\ At(hd, "quote.create")
    /\ \E o \in Offers :
          /\ offer[o] = "ABSENT"
          /\ offer' = [offer EXCEPT ![o] = "PENDING"]
          /\ about' = [about EXCEPT ![o] = call[hd].tgt]
          /\ amount' = [amount EXCEPT ![o] = call[hd].amt]
    /\ Finish(hd)
    /\ UNCHANGED_rows /\ UNCHANGED_threads /\ UNCHANGED_prices /\ UNCHANGED_history

\* Mutant: the seeker may also decide about an offer already accepted.
Decidable_Again(o) == offer[o] \in {"PENDING", "ACCEPTED"}
Decidable(o) == offer[o] = "PENDING" /\ thread[about[o]] = "OPEN"

\* Mutant: an acceptance does not look at the thread.
Accept_ThreadUnread(hd, o) ==
    /\ offer[o] = "PENDING"
    /\ StartDeciding(hd, about[o], [Idle EXCEPT !.pc = "accept.transaction", !.tgt = about[o],
                                                !.offer = o])

Accept(hd, o) ==
    /\ Decidable(o)
    /\ StartDeciding(hd, about[o], [Idle EXCEPT !.pc = "accept.transaction", !.tgt = about[o],
                                                !.offer = o])

\* One transaction; neither the offer nor the thread is looked at again.
AcceptTransaction(hd) ==
    LET o == call[hd].offer
        t == call[hd].tgt
    IN  /\ At(hd, "accept.transaction")
        /\ offer' = [x \in Offers |-> IF x = o THEN "ACCEPTED"
                                      ELSE IF x \in Pending(t) THEN "SUPERSEDED" ELSE offer[x]]
        /\ thread' = [thread EXCEPT ![t] = "DEAL_ACCEPTED"]
        /\ life' = IF t = Venue THEN life ELSE [life EXCEPT ![t] = "LIVE"]
        /\ terms' = [terms EXCEPT ![t] = @ \cup {amount[o]}]
        /\ Finish(hd)
        /\ UNCHANGED <<requests, opening, requoted, about, amount, listPrice, agreed, charges>>
        /\ UNCHANGED_history

Reject(hd, o) ==
    /\ Decidable(o)
    /\ StartDeciding(hd, about[o], [Idle EXCEPT !.pc = "reject.update", !.tgt = about[o],
                                                !.offer = o])

RejectUpdate(hd) ==
    /\ At(hd, "reject.update")
    /\ offer' = [offer EXCEPT ![call[hd].offer] = "REJECTED"]
    /\ Finish(hd)
    /\ UNCHANGED <<about, amount>>
    /\ UNCHANGED_rows /\ UNCHANGED_threads /\ UNCHANGED_prices /\ UNCHANGED_history

\* requestSeekerReQuote reads the thread, then its quotes, then writes.
Requote(hd, t) ==
    /\ thread[t] = "OPEN" /\ listPrice[t] = None /\ t \notin requoted
    /\ StartDeciding(hd, t, [Idle EXCEPT !.pc = "requote.find", !.tgt = t])

RequoteFind(hd) ==
    LET t == call[hd].tgt
    IN  /\ At(hd, "requote.find")
        /\ \/ /\ Pending(t) # {} \/ \E o \in OffersOf(t) : offer[o] = "REJECTED"
              /\ Become(hd, [call[hd] EXCEPT !.pc = "requote.transaction",
                                                   !.seen = (Pending(t) # {})])
           \/ /\ Pending(t) = {} /\ \A o \in OffersOf(t) : offer[o] # "REJECTED"
              /\ Finish(hd)
        /\ UNCHANGED_rows /\ UNCHANGED_threads /\ UNCHANGED_offers /\ UNCHANGED_prices
        /\ UNCHANGED_history

RequoteTransaction(hd) ==
    LET t == call[hd].tgt
    IN  /\ At(hd, "requote.transaction")
        /\ offer' = [x \in Offers |-> IF call[hd].seen /\ x \in Pending(t)
                                      THEN "SUPERSEDED" ELSE offer[x]]
        /\ requoted' = requoted \cup {t}
        /\ Finish(hd)
        /\ UNCHANGED <<thread, opening, about, amount>>
        /\ UNCHANGED_rows /\ UNCHANGED_prices /\ UNCHANGED_history

----------------------------------------------------------------------------
(* The end of the inquiry, and statuses set from outside the negotiation *)

End(hd, to) ==
    /\ life[Venue] = "LIVE"
    /\ Begin(hd, [Idle EXCEPT !.pc = "end.update", !.tgt = Venue, !.to = to])
    /\ Overlap(hd, Threads)
    /\ UNCHANGED <<crashes, hubRaced>>
    /\ UNCHANGED_rows /\ UNCHANGED_threads /\ UNCHANGED_offers /\ UNCHANGED_prices

EndUpdate(hd) ==
    /\ At(hd, "end.update")
    /\ life' = [life EXCEPT ![Venue] = call[hd].to]
    /\ Continue(hd, "end.threads")
    /\ UNCHANGED requests
    /\ UNCHANGED_threads /\ UNCHANGED_offers /\ UNCHANGED_prices /\ UNCHANGED_history

\* Mutant: every thread is closed, one with a deal as well.
EndThreads_All(hd) ==
    /\ At(hd, "end.threads")
    /\ thread' = [t \in Threads |-> IF thread[t] = "ABSENT" THEN "ABSENT" ELSE "CLOSED"]
    /\ Continue(hd, "end.requests")
    /\ UNCHANGED <<opening, requoted>>
    /\ UNCHANGED_rows /\ UNCHANGED_offers /\ UNCHANGED_prices /\ UNCHANGED_history

EndThreads(hd) ==
    /\ At(hd, "end.threads")
    /\ thread' = [t \in Threads |-> IF thread[t] = "OPEN" THEN "CLOSED" ELSE thread[t]]
    /\ Continue(hd, "end.requests")
    /\ UNCHANGED <<opening, requoted>>
    /\ UNCHANGED_rows /\ UNCHANGED_offers /\ UNCHANGED_prices /\ UNCHANGED_history

EndRequests(hd) ==
    /\ At(hd, "end.requests")
    /\ life' = [t \in Threads |-> IF t \in Services /\ life[t] # "ABSENT" THEN "CANCELLED" ELSE life[t]]
    /\ Finish(hd)
    /\ UNCHANGED requests
    /\ UNCHANGED_threads /\ UNCHANGED_offers /\ UNCHANGED_prices /\ UNCHANGED_history

\* PATCH { status } of a provider, and the decline of a supplier
SetStatus(t, s) ==
    /\ life[t] # "ABSENT"
    /\ s = "LIVE" \/ (s = "CANCELLED" /\ t \in Services)
    /\ life' = [life EXCEPT ![t] = s]
    /\ UNCHANGED <<requests, call>>
    /\ UNCHANGED_threads /\ UNCHANGED_offers /\ UNCHANGED_prices /\ UNCHANGED_history

----------------------------------------------------------------------------
(* The price *)

\* The provider edits the catalogue: a fixed price, or None for a range.
EditPrice(t, p) ==
    /\ listPrice' = [listPrice EXCEPT ![t] = p]
    /\ terms' = [terms EXCEPT ![t] = @ \cup ({p} \ {None})]
    /\ UNCHANGED <<agreed, charges, call>>
    /\ UNCHANGED_rows /\ UNCHANGED_threads /\ UNCHANGED_offers /\ UNCHANGED_history

\* resolveInquiryCheckoutAmountNis, resolveServiceRequestCheckoutAmountNis: the
\* amount already paid, else one accepted offer (take: 1), else the fixed price.
\* Mutants: any quote of the thread will do, the catalogue goes before the deal,
\* and a price nobody has set
PriceAndSource_AnyOffer(t) ==
    IF agreed[t] # None THEN {<<agreed[t], "agreed">>}
    ELSE IF OffersOf(t) # {} THEN {<<amount[o], "offer">> : o \in OffersOf(t)}
    ELSE {<<listPrice[t], "list">>} \ {<<None, "list">>}

PriceAndSource_ListFirst(t) ==
    IF agreed[t] # None THEN {<<agreed[t], "agreed">>}
    ELSE IF listPrice[t] # None THEN {<<listPrice[t], "list">>}
    ELSE {<<amount[o], "offer">> : o \in Accepted(t)}

PriceAndSource_Unset(t) ==
    IF agreed[t] # None THEN {<<agreed[t], "agreed">>}
    ELSE IF Accepted(t) # {} THEN {<<amount[o], "offer">> : o \in Accepted(t)}
    ELSE {<<listPrice[t], "list">>}

PriceAndSource(t) ==
    IF agreed[t] # None THEN {<<agreed[t], "agreed">>}
    ELSE IF Accepted(t) # {} THEN {<<amount[o], "offer">> : o \in Accepted(t)}
    ELSE {<<listPrice[t], "list">>} \ {<<None, "list">>}

\* bound: every checkout under way can still insert its charge
HasChargeLeft == Cardinality(charges) + Cardinality({hd \in Handlers : At(hd, "checkout.insert")}) < MaxCharges

Checkout(hd, t) ==
    /\ HasChargeLeft
    /\ life[t] \in {"LIVE", "REJECTED"}
    /\ \E p \in PriceAndSource(t) :
          Begin(hd, [Idle EXCEPT !.pc = "checkout.insert", !.tgt = t, !.amt = p[1], !.from = p[2],
                                 !.after = (Accepted(t) # {})])
    /\ UNCHANGED_rows /\ UNCHANGED_threads /\ UNCHANGED_offers /\ UNCHANGED_prices
    /\ UNCHANGED_history

CheckoutInsert(hd) ==
    /\ At(hd, "checkout.insert")
    /\ charges' = charges \cup {[tgt |-> call[hd].tgt, amt |-> call[hd].amt, from |-> call[hd].from,
                                  after |-> call[hd].after]}
    /\ Finish(hd)
    /\ UNCHANGED <<listPrice, agreed, terms>>
    /\ UNCHANGED_rows /\ UNCHANGED_threads /\ UNCHANGED_offers /\ UNCHANGED_history

\* fulfillBookingPayment, once the customer has paid a charge
Settle(c) ==
    /\ life' = [life EXCEPT ![c.tgt] = "PAID"]
    /\ agreed' = [agreed EXCEPT ![c.tgt] = c.amt]
    /\ UNCHANGED <<requests, listPrice, charges, terms, call>>
    /\ UNCHANGED_threads /\ UNCHANGED_offers /\ UNCHANGED_history

----------------------------------------------------------------------------
Crash(hd) ==
    /\ call[hd] # Idle
    /\ crashes < MaxCrashes
    /\ crashes' = crashes + 1
    /\ Finish(hd)
    /\ UNCHANGED <<raced, hubRaced>>
    /\ UNCHANGED_rows /\ UNCHANGED_threads /\ UNCHANGED_offers /\ UNCHANGED_prices

\* What the two parties ask for
Submit(hd) ==
    \/ \E chosen \in SUBSET Services : Post(hd, chosen)
    \/ \E t \in Threads, a \in Amounts : Quote(hd, t, a)
    \/ \E o \in Offers : Accept(hd, o) \/ Reject(hd, o)
    \/ \E t \in Threads : Requote(hd, t) \/ Checkout(hd, t)
    \/ \E to \in {"REJECTED", "CANCELLED"} : End(hd, to)

Start(hd) == Submit(hd) \/ Hub(hd)

Proceed(hd) ==
    \/ PostRequest(hd) \/ ThreadFind(hd) \/ ThreadCreate(hd) \/ ThreadSeed(hd)
    \/ HubRead(hd) \/ HubNext(hd)
    \/ QuoteCreate(hd) \/ AcceptTransaction(hd) \/ RejectUpdate(hd)
    \/ RequoteFind(hd) \/ RequoteTransaction(hd)
    \/ EndUpdate(hd) \/ EndThreads(hd) \/ EndRequests(hd)
    \/ CheckoutInsert(hd)

\* What other parts of the system do to the shared rows
Outside ==
    \/ \E t \in Threads, s \in {"LIVE", "CANCELLED"} : SetStatus(t, s)
    \/ \E t \in Threads, p \in ListPrices \cup {None} : EditPrice(t, p)
    \/ \E c \in charges : Settle(c)

Next == Outside \/ \E hd \in Handlers : Start(hd) \/ Proceed(hd) \/ Crash(hd)

Spec == Init /\ [][Next]_vars

----------------------------------------------------------------------------
(* Properties *)

\* Unless two decisions overlapped on it, a thread has one quote in play at a
\* time and is DEAL_ACCEPTED exactly when one of its offers is ACCEPTED.
OneDeal ==
    \A t \in Threads \ raced :
        /\ \A o, p \in Live(t) : o = p
        /\ thread[t] = "DEAL_ACCEPTED" <=> Accepted(t) # {}

\* Unless two decisions overlapped, a provider sends one quote, and a second one
\* only after the seeker has asked for it (schema: "at most one re-quote").
QuotesWithinLimit ==
    \A t \in Threads \ raced :
        /\ t \notin requoted => \A o, p \in OffersOf(t) : o = p
        /\ \A o, p, q \in OffersOf(t) : o = p \/ p = q \/ o = q

\* A checkout never charges an amount that was neither accepted by the seeker
\* nor listed as the fixed price, however checkouts, decisions, catalogue
\* edits and settlements overlap.
PriceWasAgreed ==
    \A c \in charges : c.amt \in terms[c.tgt]

\* The amount of the deal; or, as a booking once paid is charged that amount
\* again, one charged before there was a deal.
AtTheDeal(c) ==
    \/ \E o \in Accepted(c.tgt) : amount[o] = c.amt
    \/ c.from = "agreed" /\ \E d \in charges : d.tgt = c.tgt /\ d.amt = c.amt /\ ~d.after

\* Unless two decisions overlapped, a checkout begun after the seeker accepted
\* an offer charges that offer's amount, whatever the catalogue says by then,
\* or what the booking was already paid at before the deal.
ChargesAreTheDeal ==
    \A c \in charges : c.after /\ c.tgt \notin raced => AtTheDeal(c)

\* What is charged is what was agreed: an accepted or listed amount in any
\* case, and the amount of the deal once an orderly thread has one, unless the
\* booking was paid at an earlier price.
ChargesAreAgreed == PriceWasAgreed /\ ChargesAreTheDeal

\* The end of an inquiry never undoes a deal, and no late quote, rejection or
\* second hub reopens its thread.
DealIsFinal ==
    [][\A t \in Threads : thread[t] = "DEAL_ACCEPTED" => thread'[t] = "DEAL_ACCEPTED"]_vars

\* Unless two decisions overlapped, an accepted offer stays accepted and a
\* closed thread stays closed.
DecisionsAreFinal ==
    [][\A t \in Threads \ raced' :
          /\ thread[t] = "CLOSED" => thread'[t] = "CLOSED"
          /\ \A o \in Accepted(t) : offer'[o] = "ACCEPTED"]_vars

\* However many hubs and POSTs add the threads of an inquiry at once, the
\* venue's thread they leave behind has its opening message, unless one died.
ThreadIsOpened ==
    /\ crashes = 0
    /\ \A hd \in Handlers : ~Adds(call[hd])
    /\ thread[Venue] # "ABSENT"
    => Venue \in opening

\* A service gets one request per inquiry, unless two invocations that add
\* requests overlapped.
OneRequestPerService ==
    ~hubRaced => \A s \in Services : requests[s] =< 1

\* What overlapping hubs and POSTs leave behind is complete and not doubled.
HubAddsOnce == ThreadIsOpened /\ OneRequestPerService

----------------------------------------------------------------------------
(* A thread implements Bargain as long as no two decisions overlap on it.  *)

Table(t) == INSTANCE Bargain WITH
    Quotes <- Offers,
    talk   <- thread[t],
    quoted <- [o \in OffersOf(t) |-> amount[o]],
    table  <- Live(t),
    again  <- (t \in requoted)

\* Whatever happens on the other threads, and to requests, prices and payments,
\* a thread bargains as Bargain promises until decisions overlap on it.
OrderlyBargain ==
    /\ \A t \in Threads : Table(t)!BargainInit
    /\ [][\A t \in Threads \ raced' :
             Table(t)!BargainNext \/ UNCHANGED Table(t)!bargainVars]_vars
=============================================================================
