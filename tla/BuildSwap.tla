----------------------------- MODULE BuildSwap ------------------------------
(***************************************************************************)
(* The Loop swap wizard of the web app                                     *)
(* (app/src/store/views/buildSwapView.ts, with the controls that           *)
(* components/loop offer at each step).  The user steps through the wizard *)
(* while calls for terms and quotes are answered; confirming starts a      *)
(* timer, and its callback submits the swap, waits for Loop and then       *)
(* touches the wizard again.  Going back, cancelling and starting over are *)
(* possible while such calls are in flight.  An action is one turn of the  *)
(* JavaScript event loop.                                                  *)
(***************************************************************************)
EXTENDS Integers, FiniteSetsExt

CONSTANTS
    Ids,        \* swap IDs, numbered in the order of the requests
    Chans,      \* channel IDs
    PeerOf,     \* the peer of each channel
    Amounts,    \* amounts the user can choose, all within Loop's terms
    Fees,       \* fees Loop can quote, none of them 0
    MaxQuotes,  \* bound: calls of getQuote
    MaxTerms    \* bound: calls of getTerms

ASSUME WizardAssumption == Fees \subseteq Nat /\ MaxQuotes \in Nat

NoJob == 0
Quotes == 1 .. MaxQuotes

VARIABLES
    step,       \* currentStep
    direction, amount, selected,    \* direction, amount, selectedChanIds
    termsMax,   \* the largest amount of the terms received, 0 before that
    quote,      \* the quote object in use; 0 is the one of the constructor
    fee,        \* the fee each quote object holds
    termsCalls, termsMade,   \* calls of getTerms: in flight, made so far
    quoteCalls, quotesMade,  \* calls of getQuote: in flight, by the object they create; made so far
    job,        \* per swap ID: one requestSwap, what it captured and what it sent
    processing, \* processingTimeout
    marked,     \* the channels last passed to swapStore.addSwappedChannels
    hasty       \* history: the user went back while a submitted swap was unanswered

formVars == <<direction, amount, selected>>
termsVars == <<termsMax, termsCalls, termsMade>>
quoteVars == <<quote, fee, quoteCalls, quotesMade>>
callVars == <<termsVars, quoteVars>>
jobVars == <<job, processing, marked, hasty>>
wizardVars == <<step, formVars, callVars, jobVars>>
-----------------------------------------------------------------------------
\* BuildSwapSteps
Closed == 0
SelectDirection == 1
ChooseAmount == 2
ReviewQuote == 3
Processing == 4

JobStates == {"unused", "waiting", "aborted", "sent", "done", "failed"}
Unconfirmed == [amount |-> 0, dir |-> "IN", fee |-> 0, chans |-> {}]
NoWork == [st |-> "unused", amount |-> 0, dir |-> "IN", quote |-> 0,
           order |-> Unconfirmed, shown |-> Unconfirmed]
Ended(st) == [NoWork EXCEPT !.st = st]

WizardInit ==
    /\ step = Closed
    /\ direction = "IN" /\ amount = 0 /\ selected = {}
    /\ termsMax = 0
    /\ quote = 0 /\ fee = [q \in Quotes \cup {0} |-> 0]
    /\ termsCalls = 0 /\ termsMade = 0 /\ quoteCalls = {} /\ quotesMade = 0
    /\ job = [j \in Ids |-> NoWork] /\ processing = NoJob
    /\ marked = {} /\ hasty = FALSE
-----------------------------------------------------------------------------
showWizard == step \in {ChooseAmount, ReviewQuote, Processing}
Submitted == {j \in Ids : job[j].st = "sent"}
Unused == {j \in Ids : job[j].st = "unused"}
Waiting == {j \in Ids : job[j].st = "waiting"}

\* abortSwap: clearTimeout has no effect on a timer that has fired.
abortSwap ==
    /\ job' = IF processing \in Waiting THEN [job EXCEPT ![processing] = Ended("aborted")] ELSE job
    /\ processing' = NoJob

\* Going back from the last step leaves the timer running.
goToPrevStep_noAbort ==
    /\ step' = step - 1
    /\ UNCHANGED <<job, processing>>

goToPrevStep ==
    /\ IF step = Processing THEN abortSwap ELSE UNCHANGED <<job, processing>>
    /\ step' = step - 1

\* cancel: the quote object is emptied in place.
cancel ==
    /\ step' = Closed
    /\ amount' = 0 /\ selected' = {}
    /\ fee' = [fee EXCEPT ![quote] = 0]

\* The middle of the range is not halved.
amountForSelected_sum ==
    IF termsMax = 0 THEN 0
    ELSE IF amount = 0 THEN Min(Amounts) + termsMax + 1 ELSE Min({amount, termsMax})

amountForSelected ==
    IF termsMax = 0 THEN 0
    ELSE IF amount = 0 THEN (Min(Amounts) + termsMax + 1) \div 2 ELSE Min({amount, termsMax})

\* loopInLastHop: the peer, if the selected channels have one.
loopInLastHop == {PeerOf[c] : c \in selected}
-----------------------------------------------------------------------------
(* The user *)

\* Reachable whenever the wizard is not on screen, also while choosing a direction.
startSwap ==
    /\ ~showWizard
    /\ termsMade < MaxTerms
    /\ step' = SelectDirection
    /\ termsCalls' = termsCalls + 1 /\ termsMade' = termsMade + 1
    /\ UNCHANGED <<formVars, termsMax, quoteVars, jobVars>>

toggleSelectedChannel(c) ==
    /\ step # Closed /\ ~showWizard
    /\ selected' = IF c \in selected THEN selected \ {c} ELSE selected \cup {c}
    /\ UNCHANGED <<step, direction, amount, callVars, jobVars>>

\* With autoSelectPeerChannels and the step that follows. Loop In needs
\* channels of one peer, or none.
setDirection(d) ==
    /\ step = SelectDirection
    /\ d = "IN" => Cardinality(loopInLastHop) <= 1
    /\ direction' = d
    /\ selected' = IF d = "IN" THEN {c \in Chans : PeerOf[c] \in loopInLastHop} ELSE selected
    /\ step' = step + 1
    /\ UNCHANGED <<amount, callVars, jobVars>>

setAmount(a) ==
    /\ step = ChooseAmount
    /\ a <= termsMax
    /\ amount' = a
    /\ UNCHANGED <<step, direction, selected, callVars, jobVars>>

\* goToNextStep in ChooseAmount.
RequestQuote(q) ==
    /\ step = ChooseAmount
    /\ q = quotesMade + 1
    /\ quotesMade' = q
    /\ amount' = amountForSelected
    /\ quoteCalls' = quoteCalls \cup {q}
    /\ step' = step + 1
    /\ UNCHANGED <<direction, selected, termsVars, quote, fee, jobVars>>

\* goToNextStep in ReviewQuote: requestSwap captures amount, direction and
\* the quote object.
requestSwap(j) ==
    /\ step = ReviewQuote
    /\ j = Min(Unused)
    /\ job' = [job EXCEPT ![j] =
                  [st |-> "waiting", amount |-> amount, dir |-> direction, quote |-> quote,
                   order |-> Unconfirmed,
                   shown |-> [amount |-> amount, dir |-> direction, fee |-> fee[quote],
                              chans |-> selected]]]
    /\ processing' = j
    /\ step' = step + 1
    /\ UNCHANGED <<formVars, callVars, marked, hasty>>

\* The arrow of the wizard.
Back ==
    /\ showWizard
    /\ goToPrevStep
    /\ hasty' = (hasty \/ Submitted # {})
    /\ UNCHANGED <<formVars, callVars, marked>>

\* The close icon of the direction step, the cancel button of the next two.
Cancel ==
    /\ step \in {SelectDirection, ChooseAmount, ReviewQuote}
    /\ cancel
    /\ UNCHANGED <<direction, termsVars, quote, quoteCalls, quotesMade, jobVars>>
-----------------------------------------------------------------------------
(* Answers and timers *)

getTerms(ok, max) ==
    /\ termsCalls > 0
    /\ termsCalls' = termsCalls - 1
    /\ IF ok THEN termsMax' = max /\ UNCHANGED <<step, job, processing>>
             ELSE goToPrevStep /\ UNCHANGED termsMax
    /\ hasty' = (hasty \/ (~ok /\ Submitted # {}))
    /\ UNCHANGED <<formVars, termsMade, quoteVars, marked>>

getQuote(q, ok, f) ==
    /\ q \in quoteCalls
    /\ quoteCalls' = quoteCalls \ {q}
    /\ IF ok THEN /\ quote' = q
                  /\ fee' = [fee EXCEPT ![q] = f]
                  /\ UNCHANGED <<step, job, processing>>
             ELSE goToPrevStep /\ UNCHANGED <<quote, fee>>
    /\ hasty' = (hasty \/ (~ok /\ Submitted # {}))
    /\ UNCHANGED <<formVars, termsVars, quotesMade, marked>>

\* Reads the form again when the timer fires.
Order_current(w) == [amount |-> amount, dir |-> direction, fee |-> fee[quote], chans |-> selected]

\* What the callback of requestSwap sends: what it captured, and the fee and
\* the channels as they are now.
Order(w) == [amount |-> w.amount, dir |-> w.dir, fee |-> fee[w.quote], chans |-> selected]

\* The timer fires. processingTimeout keeps its reference.
SubmitSwap(j) ==
    /\ job[j].st = "waiting"
    /\ job' = [job EXCEPT ![j].st = "sent", ![j].order = Order(job[j])]
    /\ UNCHANGED <<step, formVars, callVars, processing, marked, hasty>>

\* The form is cleared before its channels are marked.
SwapAccepted_cleared(j) ==
    /\ job[j].st = "sent"
    /\ job' = [job EXCEPT ![j] = Ended("done")]
    /\ marked' = {}
    /\ cancel
    /\ UNCHANGED <<direction, termsVars, quote, quoteCalls, quotesMade, processing, hasty>>

\* Loop's answer: the channels selected now are marked and the wizard closes.
SwapAccepted(j) ==
    /\ job[j].st = "sent"
    /\ job' = [job EXCEPT ![j] = Ended("done")]
    /\ marked' = selected
    /\ cancel
    /\ UNCHANGED <<direction, termsVars, quote, quoteCalls, quotesMade, processing, hasty>>

\* Loop refuses, or the call fails.
SwapRefused(j) ==
    /\ job[j].st = "sent"
    /\ LET left == IF step = Processing /\ processing \in Waiting THEN {processing} ELSE {} IN
       job' = [i \in Ids |-> IF i = j THEN Ended("failed")
                             ELSE IF i \in left THEN Ended("aborted") ELSE job[i]]
    /\ processing' = IF step = Processing THEN NoJob ELSE processing
    /\ step' = step - 1
    /\ UNCHANGED <<formVars, callVars, marked, hasty>>
-----------------------------------------------------------------------------
UserStep ==
    \/ startSwap
    \/ \E c \in Chans : toggleSelectedChannel(c)
    \/ \E d \in {"IN", "OUT"} : setDirection(d)
    \/ \E a \in Amounts : setAmount(a)
    \/ \E q \in Quotes : RequestQuote(q)
    \/ \E j \in Unused : requestSwap(j)
    \/ Back
    \/ Cancel

AnswerStep ==
    \/ \E ok \in BOOLEAN : getTerms(ok, Max(Amounts))
    \/ \E q \in Quotes, ok \in BOOLEAN, f \in Fees : getQuote(q, ok, f)
    \/ \E j \in Ids : SubmitSwap(j) \/ SwapAccepted(j) \/ SwapRefused(j)

WizardNext == UserStep \/ AnswerStep

WizardSpec == WizardInit /\ [][WizardNext]_wizardVars
-----------------------------------------------------------------------------
(* Properties *)

\* The variables stay in the ranges of the code's types; a step may fall
\* below Closed when calls fail after the wizard was closed.
WizardTypeOK ==
    /\ step \in -(MaxTerms + MaxQuotes + Cardinality(Ids)) .. Processing
    /\ direction \in {"IN", "OUT"} /\ amount \in Amounts \cup {0} /\ selected \subseteq Chans
    /\ termsMax \in Amounts \cup {0}
    /\ quote \in Quotes \cup {0} /\ fee \in [Quotes \cup {0} -> Fees \cup {0}]
    /\ termsCalls \in 0 .. MaxTerms /\ termsMade \in 0 .. MaxTerms
    /\ quoteCalls \subseteq Quotes /\ quotesMade \in 0 .. MaxQuotes
    /\ \A j \in Ids : job[j].st \in JobStates
    /\ processing \in Ids \cup {NoJob}
    /\ marked \subseteq Chans /\ hasty \in BOOLEAN

\* The Processing step and the swap go together: the step always has a timer or
\* a call that will end it; and as long as a timer runs the wizard shows the step
\* that aborts it, which is what the delay of requestSwap is for, unless an
\* earlier swap was left behind unanswered.
StepFollowsSwap ==
    /\ step = Processing => Waiting \cup Submitted # {}
    /\ ~hasty => \A j \in Waiting : step = Processing /\ processing = j

\* A submitted swap has the amount and the direction the user confirmed and
\* never a higher fee, whatever happened to the form during the delay; unless
\* an earlier swap was left behind, it has the confirmed fee and channels too.
SwapAsConfirmed ==
    \A j \in Submitted : LET order == job[j].order  shown == job[j].shown IN
        /\ order.amount = shown.amount /\ order.dir = shown.dir
        /\ order.fee <= shown.fee
        /\ ~hasty => order = shown

\* The channels marked as used are the ones the swap was submitted with.
ChannelsMarked ==
    [][\A j \in Submitted : job'[j].st = "done" /\ ~hasty => marked' = job[j].order.chans]_wizardVars
=============================================================================
