------------------------------ MODULE ChatPanel ------------------------------
(***************************************************************************)
(* chrome-extension/ai-chat-injector.js on the page of an AI chat: the     *)
(* Verify buttons that a MutationObserver keeps adding to the answers, and *)
(* the side panel in which every verification shows its progress.  Event   *)
(* handlers, timers and the continuations of fetch run one at a time, in   *)
(* any order; the page is the host's and changes under the extension.      *)
(*                                                                         *)
(* An answer is known by its container and by how long its text is.        *)
(***************************************************************************)
EXTENDS Naturals, Sequences, FiniteSets

CONSTANTS
    Answers,      \* containers of AI answers on the page
    MinText,      \* 20 in the code
    MaxText,      \* what the answers grow to
    MaxChanges,   \* bound on what the host takes away
    MaxClicks,    \* bound on clicks on Verify buttons
    MaxCloses     \* bound on clicks on the close button

ASSUME ChatPanelAssumption ==
    /\ MinText \in Nat \ {0} /\ MaxText \in Nat /\ MinText <= MaxText
    /\ {MaxChanges, MaxClicks, MaxCloses} \subseteq Nat

VARIABLES
    size,         \* the length of each answer, 0 while the selectors miss it
    buttons,      \* the Verify buttons on the page or still in use
    isInjecting,  \* the flag of the MutationObserver
    injections,   \* pending setTimeouts that will inject buttons
    seen,         \* answers that were long enough at a change the observer saw
    rightPanel,   \* the panel the script knows, 0 for null
    panels,       \* the panels in the document
    content,      \* what each panel made so far shows
    requests,     \* verifyText calls waiting for the server
    closing,      \* pending setTimeouts that will remove the panel
    changes,      \* what the host took away so far, counted for the bounds
    clicks, closes

counts == <<changes, clicks, closes>>
page == <<size, buttons>>
injector == <<isInjecting, injections, seen>>
panel == <<rightPanel, panels, content>>
vars == <<page, injector, panel, requests, closing, counts>>

Init ==
    /\ size = [a \in Answers |-> 0]
    /\ buttons = {}
    /\ isInjecting = FALSE
    /\ injections = {"initial"}
    /\ seen = {}
    /\ rightPanel = 0
    /\ panels = {}
    /\ content = <<>>
    /\ requests = {}
    /\ closing = 0
    /\ changes = 0 /\ clicks = 0 /\ closes = 0

-----------------------------------------------------------------------------

LongEnough == {a \in Answers : size[a] >= MinText}

\* The callback of the MutationObserver.  It runs right after a task, the
\* host's or one of the script's own, that added nodes or took some away.
Observe ==
    /\ isInjecting' = TRUE
    /\ injections' = IF isInjecting THEN injections ELSE injections \cup {"observed"}
    /\ seen' = seen \cup LongEnough'

\* The buttons of an answer that the host has not thrown away.
Attached(a) == {b \in buttons : b.of = a /\ b.attached}

\* Mutant: an answer is looked at before it is long enough, and not again.
LacksButtonAtFirst(a) == size[a] = MinText /\ Attached(a) = {}

\* Mutant: nobody looks for a button that is there already.
LacksButtonAlways(a) == size[a] >= MinText

LacksButton(a) == size[a] >= MinText /\ Attached(a) = {}

\* copy: a button is told from earlier ones by the changes before it was made.
NewButton(a) == [of |-> a, copy |-> changes, disabled |-> FALSE, attached |-> TRUE]

\* Mutant: the buttons that are there are put in their places again.
ChangesPageAlways(new) == TRUE

ChangesPage(new) == new # {}

\* injectButtons, from the timer of init or from that of the observer, who
\* resets its flag.  New buttons are a change it sees at once.
Inject(timer) ==
    LET new == {NewButton(a) : a \in {a \in Answers : LacksButton(a)}}
        busy == isInjecting /\ timer = "initial"
    IN  /\ timer \in injections
        /\ buttons' = buttons \cup new
        /\ isInjecting' = (busy \/ ChangesPage(new))
        /\ injections' = (injections \ {timer})
                         \cup (IF ChangesPage(new) /\ ~busy THEN {"observed"} ELSE {})
        /\ seen' = IF ChangesPage(new) THEN seen \cup LongEnough ELSE seen
        /\ UNCHANGED <<size, panel, requests, closing, counts>>

Grow(a) == \E n \in size[a] + 1 .. MaxText : size' = [size EXCEPT ![a] = n]

\* The host adds the answer, or a paragraph to it.
HostAdds(a) ==
    /\ Grow(a)
    /\ Observe
    /\ UNCHANGED <<buttons, panel, requests, closing, counts>>

\* The host writes on in a text node that is there, or lets the selectors have
\* the answer by an attribute (data-is-streaming): the observer, which asks for
\* childList and subtree only, is not told.
HostTypes(a) ==
    /\ Grow(a)
    /\ UNCHANGED <<buttons, injector, panel, requests, closing, counts>>

BelongsTo(b, r) == r.of = b.of /\ r.copy = b.copy

InUse(bs, calls) == {b \in bs : b.attached \/ \E r \in calls : BelongsTo(b, r)}

\* An answer is rendered anew, without the foreign button.
HostRedraws(a) ==
    /\ changes < MaxChanges
    /\ changes' = changes + 1
    /\ Attached(a) # {}
    /\ buttons' = InUse({[b EXCEPT !.attached = @ /\ b.of # a] : b \in buttons}, requests)
    /\ UNCHANGED <<size, panel, requests, closing, clicks, closes>>
    /\ Observe

\* The host replaces what the body holds, the panel with it.
HostDropsPanel ==
    /\ changes < MaxChanges
    /\ changes' = changes + 1
    /\ panels # {}
    /\ panels' = {}
    /\ UNCHANGED <<page, rightPanel, content, requests, closing, clicks, closes>>
    /\ Observe

-----------------------------------------------------------------------------

\* createRightPanel: the panel in the document, or else a new one.
Opened == IF rightPanel \in panels THEN rightPanel ELSE Len(content) + 1

\* Its content is replaced.
Show(p, what) ==
    content' = [q \in 1 .. Len(content) \cup {p} |-> IF q = p THEN what ELSE content[q]]

OpenAndShow(what) ==
    /\ rightPanel' = Opened
    /\ panels' = panels \cup {Opened}
    /\ Show(Opened, what)

\* A click on a button starts verifyText, which holds on to the button and to
\* the panel until the server answers.
Click(b) ==
    /\ clicks < MaxClicks
    /\ clicks' = clicks + 1
    /\ b.attached /\ ~b.disabled
    /\ OpenAndShow("loading")
    /\ buttons' = (buttons \ {b}) \cup {[b EXCEPT !.disabled = TRUE]}
    /\ requests' = requests \cup {[of |-> b.of, copy |-> b.copy, panel |-> Opened]}
    /\ UNCHANGED <<size, closing, changes, closes>>
    /\ Observe

\* The call returns; its button is enabled again.
Release(r) ==
    /\ requests' = requests \ {r}
    /\ buttons' = InUse({[b EXCEPT !.disabled = @ /\ ~BelongsTo(b, r)] : b \in buttons},
                        requests \ {r})

\* The result goes to the panel there is now, which is opened if need be.
Succeed(r) ==
    /\ OpenAndShow("result")
    /\ Release(r)
    /\ UNCHANGED <<size, closing, counts>>
    /\ Observe

\* Mutant: the button is enabled after a success only.
FailForGood(r) ==
    /\ Show(r.panel, "error")
    /\ requests' = requests \ {r}
    /\ UNCHANGED <<page, rightPanel, panels, closing, counts>>
    /\ Observe

\* Mutant: an error is only logged.
FailSilently(r) ==
    /\ Release(r)
    /\ UNCHANGED <<size, injector, panel, closing, counts>>

\* The error goes to the panel that the call opened, in the document or not.
Fail(r) ==
    /\ Show(r.panel, "error")
    /\ Release(r)
    /\ UNCHANGED <<size, rightPanel, panels, closing, counts>>
    /\ IF r.panel \in panels THEN Observe ELSE UNCHANGED injector

\* Mutant: the script forgets the panel before it has slid out.
ClickCloseForgets ==
    /\ closes < MaxCloses
    /\ closes' = closes + 1
    /\ panels # {} /\ rightPanel # 0
    /\ closing' = closing + 1
    /\ rightPanel' = 0
    /\ UNCHANGED <<page, injector, panels, content, requests, changes, clicks>>

\* The close button can be clicked again while the panel slides out.
ClickClose ==
    /\ closes < MaxCloses
    /\ closes' = closes + 1
    /\ panels # {} /\ rightPanel # 0
    /\ closing' = closing + 1
    /\ UNCHANGED <<page, injector, panel, requests, changes, clicks>>

\* The panel has slid out: the one the script knows now is removed.
Close ==
    /\ closing > 0
    /\ closing' = closing - 1
    /\ panels' = panels \ {rightPanel}
    /\ rightPanel' = 0
    /\ UNCHANGED <<page, content, requests, counts>>
    /\ IF rightPanel \in panels THEN Observe ELSE UNCHANGED injector

Next ==
    \/ \E timer \in {"initial", "observed"} : Inject(timer)
    \/ \E a \in Answers : HostAdds(a) \/ HostTypes(a) \/ HostRedraws(a)
    \/ HostDropsPanel \/ ClickClose \/ Close
    \/ \E b \in buttons : Click(b)
    \/ \E r \in requests : Succeed(r) \/ Fail(r)

Spec == Init /\ [][Next]_vars

\* Timers fire.
FairSpec == Spec /\ \A timer \in {"initial", "observed"} : WF_vars(Inject(timer))

-----------------------------------------------------------------------------

\* An answer has at most one button, although two timers inject and the host
\* redraws (ai-chat-injector.js:487-503, 512, 524).
OneButtonEach == \A a \in Answers : Cardinality(Attached(a)) <= 1

\* A button is disabled exactly while its call waits, whatever became of the
\* panel or of the button meanwhile: none stays disabled for good, and none is
\* clicked twice (ai-chat-injector.js:625, 647, 661).
ButtonTellsState ==
    \A b \in buttons : b.disabled <=> \E r \in requests : BelongsTo(b, r)

\* There are never two panels, whatever is closing, dropped or opened anew
\* (ai-chat-injector.js:21-23, 392-405).
OnePanel == Cardinality(panels) <= 1

\* A panel that shows the spinner has a call that will replace it, although a
\* result goes to another panel than the call's own when that one is gone
\* (ai-chat-injector.js:618-623, 646, 652, 669).
SpinnerMeansWorking ==
    \A p \in panels : content[p] = "loading" => \E r \in requests : r.panel = p

\* An answer that was long enough when nodes were last added or taken away has
\* its button in the end, be the change in the answer or elsewhere, during an
\* injection or while one is pending.  One that grows to its length in a node of
\* its own has to wait for such a change (ai-chat-injector.js:417, 487-503).
EveryAnswerVerifiable ==
    \A a \in Answers : a \in seen ~> Attached(a) # {}

\* The observer, which sees the buttons it adds itself, comes to rest when the page does
\* (ai-chat-injector.js:487-500, 512, 524).
InjectionSettles == <>[](injections = {})

=============================================================================
