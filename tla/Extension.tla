------------------------------ MODULE Extension ------------------------------
(***************************************************************************)
(* The browser extension outside the chat sites: the overlays that the     *)
(* content script lays over a page for the verifications started from the  *)
(* context menu (background.js, content.js), and the popup (popup.js).     *)
(* Handlers, timers and the continuations of fetch run one at a time; a     *)
(* timer of 200 ms that was set first fires before one of 8 or 20 s.       *)
(*                                                                         *)
(* All overlays have the same id, so that document.getElementById finds    *)
(* the first; all have the same place on the screen, so that one sees, and *)
(* clicks, the last.                                                       *)
(***************************************************************************)
EXTENDS Naturals, Sequences, FiniteSets

CONSTANTS
    MaxVerifications, \* bound: uses of the context menu
    MaxClicks,        \* bound: clicks on the close button of an overlay
    MaxErrors         \* bound: timers of the popup that will hide its error

ASSUME ExtensionAssumption == {MaxVerifications, MaxClicks, MaxErrors} \subseteq Nat

VARIABLES
    overlays,  \* the overlays in the document, in order
    started,   \* verifications started from the menu
    waiting,   \* those whose answer has not come
    timers,    \* pending timers of autoClose
    crowded,   \* an overlay was added while another one was fading
    clicks,
    popup,     \* what the popup shows
    hides      \* its pending timers that hide the error

page == <<overlays, started, waiting, timers, crowded, clicks>>
vars == <<page, popup, hides>>

Verifications == 1 .. MaxVerifications
Overlay == [of : Verifications, kind : {"loading", "result", "error"}, fading : BOOLEAN]

\* until: the overlay that was fading when the timer was set, if any.
Timer == [of : Verifications, until : SUBSET Overlay]

View == [disabled : BOOLEAN, loader : BOOLEAN,
         result : BOOLEAN, error : BOOLEAN, calling : BOOLEAN]

\* The popup when its page is loaded.
Opened == [disabled |-> FALSE, loader |-> FALSE,
           result |-> FALSE, error |-> FALSE, calling |-> FALSE]

TypeOK ==
    /\ overlays \in Seq(Overlay)
    /\ started \in 0 .. MaxVerifications
    /\ waiting \subseteq 1 .. started
    /\ timers \subseteq Timer
    /\ crowded \in BOOLEAN
    /\ clicks \in 0 .. MaxClicks
    /\ popup \in View
    /\ hides \in 0 .. MaxErrors

Init ==
    /\ overlays = <<>>
    /\ started = 0 /\ waiting = {} /\ timers = {}
    /\ crowded = FALSE /\ clicks = 0
    /\ popup = Opened /\ hides = 0

-----------------------------------------------------------------------------

Fading == {overlays[i] : i \in {i \in DOMAIN overlays : overlays[i].fading}}

\* Mutant: the newest overlay is removed, not the first.
RemovedLast ==
    [i \in DOMAIN overlays |->
        IF i = Len(overlays) THEN [overlays[i] EXCEPT !.fading = TRUE] ELSE overlays[i]]

\* removeOverlay: the first overlay fades, if it does not already.
Removed ==
    [i \in DOMAIN overlays |->
        IF i = 1 THEN [overlays[i] EXCEPT !.fading = TRUE] ELSE overlays[i]]

\* Mutant: the overlay that is there is left alone.
ShowOnTop(v, kind) ==
    /\ overlays' = Append(overlays, [of |-> v, kind |-> kind, fading |-> FALSE])
    /\ crowded' = (crowded \/ Fading # {})

\* createOverlayShell, and what is put into it.
Show(v, kind) ==
    /\ overlays' = Append(Removed, [of |-> v, kind |-> kind, fading |-> FALSE])
    /\ crowded' = (crowded \/ Fading # {})

\* The menu sends VERIFY_SELECTION, and the text is long enough.
Verify ==
    /\ started < MaxVerifications
    /\ started' = started + 1
    /\ Show(started', "loading")
    /\ waiting' = waiting \cup {started'}
    /\ UNCHANGED <<timers, clicks, popup, hides>>

\* Mutant: an error is not closed.
SettleErrorStays(v, kind) ==
    /\ v \in waiting
    /\ waiting' = waiting \ {v}
    /\ Show(v, kind)
    /\ timers' = IF kind = "error" THEN timers ELSE timers \cup {[of |-> v, until |-> {}]}
    /\ UNCHANGED <<started, clicks, popup, hides>>

\* The answer or the error is shown, to be closed after a while.
Settle(v, kind) ==
    /\ v \in waiting
    /\ waiting' = waiting \ {v}
    /\ Show(v, kind)
    /\ timers' = timers \cup
         {[of |-> v, until |-> {Removed[i] : i \in {i \in DOMAIN Removed : Removed[i].fading}}]}
    /\ UNCHANGED <<started, clicks, popup, hides>>

Without(i) == [j \in 1 .. Len(overlays) - 1 |-> overlays[IF j < i THEN j ELSE j + 1]]

\* An overlay has faded and is taken out of the document.
FadeOut(i) ==
    /\ i \in DOMAIN overlays
    /\ overlays[i].fading
    /\ overlays' = Without(i)
    /\ UNCHANGED <<started, waiting, timers, crowded, clicks, popup, hides>>

\* Mutant: the timer closes the overlay it was set for.
AutoCloseOwn(t) ==
    /\ t \in timers
    /\ t.until \cap Fading = {}
    /\ timers' = timers \ {t}
    /\ overlays' = [i \in DOMAIN overlays |-> [overlays[i] EXCEPT
         !.fading = @ \/ (overlays[i].of = t.of /\ overlays[i].kind # "loading")]]
    /\ UNCHANGED <<started, waiting, crowded, clicks, popup, hides>>

\* autoClose: the timer looks for an overlay again, and takes the first.
AutoClose(t) ==
    /\ t \in timers
    /\ t.until \cap Fading = {}
    /\ timers' = timers \ {t}
    /\ overlays' = Removed
    /\ UNCHANGED <<started, waiting, crowded, clicks, popup, hides>>

\* The close button, whichever overlay it belongs to.
ClickClose ==
    /\ clicks < MaxClicks
    /\ clicks' = clicks + 1
    /\ overlays # <<>>
    /\ overlays' = Removed
    /\ UNCHANGED <<started, waiting, timers, crowded, popup, hides>>

-----------------------------------------------------------------------------

\* showError: the error is there for five seconds, also when another timer is
\* already running.
ShowError(view) ==
    /\ hides < MaxErrors
    /\ hides' = hides + 1
    /\ popup' = [view EXCEPT !.error = TRUE]

\* The button is clicked.  If there is no text, of the user or from the
\* selection, there is an error, else runVerification begins.
Press ==
    /\ ~popup.disabled
    /\ \/ ShowError(popup)
       \/ /\ popup' = [popup EXCEPT !.disabled = TRUE, !.loader = TRUE,
                                    !.result = FALSE, !.error = FALSE, !.calling = TRUE]
          /\ UNCHANGED hides
    /\ UNCHANGED page

Finished == [popup EXCEPT !.disabled = FALSE, !.loader = FALSE, !.calling = FALSE]

\* It ends with a result or with an error, and cleans up.
Return ==
    /\ popup.calling
    /\ \/ popup' = [Finished EXCEPT !.result = TRUE] /\ UNCHANGED hides
       \/ ShowError(Finished)
    /\ UNCHANGED page

\* Mutant: the timer ends the whole message, the loader with it.
HideAll ==
    /\ hides > 0
    /\ hides' = hides - 1
    /\ popup' = [popup EXCEPT !.error = FALSE, !.loader = FALSE]
    /\ UNCHANGED page

Hide ==
    /\ hides > 0
    /\ hides' = hides - 1
    /\ popup' = [popup EXCEPT !.error = FALSE]
    /\ UNCHANGED page

\* The popup closes when the user turns to the page, and all it had is gone.
Reopen ==
    /\ popup' = Opened
    /\ hides' = 0
    /\ UNCHANGED page

Next ==
    \/ Verify \/ ClickClose
    \/ \E v \in waiting, kind \in {"result", "error"} : Settle(v, kind)
    \/ \E i \in DOMAIN overlays : FadeOut(i)
    \/ \E t \in timers : AutoClose(t)
    \/ Press \/ Return \/ Hide \/ Reopen

Spec == Init /\ [][Next]_vars

\* The timers of the page fire.  Neither the user nor the server owes anything.
FairSpec ==
    /\ Spec
    /\ WF_vars(\E i \in DOMAIN overlays : FadeOut(i))
    /\ WF_vars(\E t \in timers : AutoClose(t))

-----------------------------------------------------------------------------

\* Only the first overlay ever fades, whoever asked for it: overlays go in the
\* order in which they came (content.js:389-395, 403, 522, 527-533).
OnlyFirstFades == \A i \in DOMAIN overlays : overlays[i].fading => i = 1

\* The spinner one sees belongs to a verification that is under way, however
\* many overlays lie beneath it and whichever timers fire (content.js:40-64,
\* 389-395).
SpinnerOnTopMeansWorking ==
    LET top == overlays[Len(overlays)]
    IN  (overlays # <<>> /\ top.kind = "loading") => top.of \in waiting

\* Unless an overlay was added while another one was fading, no more than one
\* is there besides the one that fades (content.js:389-403).
OneUnlessCrowded ==
    ~crowded => Cardinality({i \in DOMAIN overlays : ~overlays[i].fading}) <= 1

\* And unless that happened, every answer and every error is closed in the end.
\* When it did, one may stay for good (content.js:527-533).
ClosesUnlessCrowded ==
    <>[](crowded \/ \A i \in DOMAIN overlays : overlays[i].kind = "loading")

\* While the popup verifies it shows the loader alone, and its button cannot be
\* pressed, whatever timers of earlier errors are pending (popup.js:63-105,
\* 176-182).
LoaderStandsAlone ==
    /\ popup.calling <=> popup.loader
    /\ popup.calling => popup.disabled /\ ~popup.result /\ ~popup.error

=============================================================================
