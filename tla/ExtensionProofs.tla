--------------------------- MODULE ExtensionProofs ---------------------------
(***************************************************************************)
(* For any number of verifications, clicks and errors: overlays go in the  *)
(* order in which they came, a spinner one sees has a verification behind  *)
(* it, overlays pile up only when one is added while another fades, and    *)
(* the popup that verifies shows its loader alone.                         *)
(***************************************************************************)
EXTENDS Extension, FiniteSetTheorems, TLAPS

-----------------------------------------------------------------------------
\* Types.

\* Fading changes an overlay, never which overlays there are.
LEMMA RemovedType ==
    ASSUME overlays \in Seq(Overlay)
    PROVE  /\ Removed \in Seq(Overlay) /\ Len(Removed) = Len(overlays)
           /\ \A i \in 1 .. Len(overlays) :
                /\ Removed[i].of = overlays[i].of /\ Removed[i].kind = overlays[i].kind
                /\ Removed[i].fading <=> (overlays[i].fading \/ i = 1)
<1>1. Len(overlays) \in Nat /\ DOMAIN overlays = 1 .. Len(overlays)
  OBVIOUS
<1>2. \A i \in 1 .. Len(overlays) :
         /\ overlays[i] \in Overlay
         /\ Removed[i] = IF i = 1 THEN [overlays[i] EXCEPT !.fading = TRUE] ELSE overlays[i]
  BY <1>1 DEF Removed
<1>3. \A o \in Overlay : /\ [o EXCEPT !.fading = TRUE] \in Overlay
                         /\ [o EXCEPT !.fading = TRUE].of = o.of
                         /\ [o EXCEPT !.fading = TRUE].kind = o.kind
                         /\ [o EXCEPT !.fading = TRUE].fading
  BY DEF Overlay
<1>4. Removed \in [1 .. Len(overlays) -> Overlay]
  BY <1>1, <1>2, <1>3 DEF Removed
<1>5. Removed \in Seq(Overlay) /\ Len(Removed) = Len(overlays)
  BY <1>1, <1>4
<1> QED
  BY <1>2, <1>3, <1>5

\* A new overlay comes last, on top of the others.
LEMMA ShowType ==
    ASSUME overlays \in Seq(Overlay), NEW v \in Verifications,
           NEW kind \in {"loading", "result", "error"}, Show(v, kind)
    PROVE  /\ overlays' \in Seq(Overlay) /\ Len(overlays') = Len(overlays) + 1
           /\ overlays'[Len(overlays')] = [of |-> v, kind |-> kind, fading |-> FALSE]
           /\ \A i \in 1 .. Len(overlays) : overlays'[i] = Removed[i]
           /\ crowded' = (crowded \/ Fading # {})
<1>1. [of |-> v, kind |-> kind, fading |-> FALSE] \in Overlay
  BY DEF Overlay
<1> QED
  BY <1>1, RemovedType DEF Show

\* Those above the one taken out move down by one.
LEMMA WithoutType ==
    ASSUME overlays \in Seq(Overlay), NEW i \in 1 .. Len(overlays)
    PROVE  /\ Without(i) \in Seq(Overlay) /\ Len(Without(i)) = Len(overlays) - 1
           /\ \A j \in 1 .. Len(overlays) - 1 :
                Without(i)[j] = overlays[IF j < i THEN j ELSE j + 1]
<1>1. Len(overlays) - 1 \in Nat
  OBVIOUS
<1>2. \A j \in 1 .. Len(overlays) - 1 : overlays[IF j < i THEN j ELSE j + 1] \in Overlay
  OBVIOUS
<1>3. Without(i) \in [1 .. Len(overlays) - 1 -> Overlay]
  BY <1>2 DEF Without
<1> QED
  BY <1>1, <1>3 DEF Without

LEMMA ViewFields ==
    ASSUME popup \in View
    PROVE  /\ Finished \in View /\ Opened \in View
           /\ [popup EXCEPT !.disabled = TRUE, !.loader = TRUE,
                             !.result = FALSE, !.error = FALSE, !.calling = TRUE] \in View
           /\ \A view \in View : [view EXCEPT !.error = TRUE] \in View
           /\ \A view \in View : [view EXCEPT !.error = FALSE] \in View
           /\ \A view \in View : [view EXCEPT !.result = TRUE] \in View
BY DEF View, Finished, Opened

\* The overlays and the popup keep their types (content.js, popup.js).
THEOREM TypeCorrect == Spec => []TypeOK
<1>0. MaxVerifications \in Nat /\ MaxClicks \in Nat /\ MaxErrors \in Nat
  BY ExtensionAssumption
<1>1. Init => TypeOK
  <2> SUFFICES ASSUME Init PROVE TypeOK
    OBVIOUS
  <2>1. overlays \in Seq(Overlay)
    BY DEF Init
  <2>2. started \in 0 .. MaxVerifications /\ clicks \in 0 .. MaxClicks /\ hides \in 0 .. MaxErrors
    BY <1>0 DEF Init
  <2>3. popup \in View
    BY DEF Init, Opened, View
  <2> QED
    BY <2>1, <2>2, <2>3 DEF Init, TypeOK
<1>2. TypeOK /\ [Next]_vars => TypeOK'
  <2> SUFFICES ASSUME TypeOK, [Next]_vars PROVE TypeOK'
    OBVIOUS
  <2> USE <1>0
  <2>1. CASE UNCHANGED vars
    BY <2>1 DEF TypeOK, vars, page
  <2>2. CASE Verify
    <3>1. started + 1 \in Verifications
      BY <2>2 DEF Verify, TypeOK, Verifications
    <3>2. overlays' \in Seq(Overlay) /\ crowded' \in BOOLEAN
      BY <2>2, <3>1, ShowType DEF Verify, TypeOK
    <3> QED
      BY <2>2, <3>1, <3>2 DEF Verify, TypeOK, Verifications
  <2>3. ASSUME NEW v \in waiting, NEW kind \in {"result", "error"}, Settle(v, kind)
        PROVE TypeOK'
    <3>1. v \in Verifications
      BY DEF TypeOK, Verifications
    <3>2. overlays' \in Seq(Overlay) /\ crowded' \in BOOLEAN
      BY <2>3, <3>1, ShowType DEF Settle, TypeOK
    <3>3. {Removed[i] : i \in {i \in DOMAIN Removed : Removed[i].fading}} \subseteq Overlay
      BY RemovedType DEF TypeOK
    <3>4. timers' \subseteq Timer
      BY <2>3, <3>1, <3>3 DEF Settle, TypeOK, Timer
    <3> QED
      BY <2>3, <3>2, <3>4 DEF Settle, TypeOK
  <2>4. ASSUME NEW i \in DOMAIN overlays, FadeOut(i) PROVE TypeOK'
    BY <2>4, WithoutType DEF FadeOut, TypeOK
  <2>5. ASSUME NEW t \in timers, AutoClose(t) PROVE TypeOK'
    BY <2>5, RemovedType DEF AutoClose, TypeOK
  <2>6. CASE ClickClose
    BY <2>6, RemovedType DEF ClickClose, TypeOK
  <2>7. CASE Press
    <3>1. popup' \in View
      BY <2>7, ViewFields DEF Press, ShowError, TypeOK
    <3> QED
      BY <2>7, <3>1 DEF Press, ShowError, TypeOK, page
  <2>8. CASE Return
    <3>1. popup' \in View
      BY <2>8, ViewFields DEF Return, ShowError, TypeOK
    <3> QED
      BY <2>8, <3>1 DEF Return, ShowError, TypeOK, page
  <2>9. CASE Hide
    BY <2>9, ViewFields DEF Hide, TypeOK, page
  <2>10. CASE Reopen
    BY <2>10 DEF Reopen, Opened, View, TypeOK, page
  <2> QED
    BY <2>1, <2>2, <2>3, <2>4, <2>5, <2>6, <2>7, <2>8, <2>9, <2>10 DEF Next
<1> QED
  BY <1>1, <1>2, PTL DEF Spec

-----------------------------------------------------------------------------
\* The overlays.

\* Without a crowd there are two overlays at most, and of two the first fades.
PairInv ==
    ~crowded => /\ Len(overlays) <= 2
                /\ Len(overlays) > 1 => overlays[1].fading

OverlayInv == OnlyFirstFades /\ SpinnerOnTopMeansWorking /\ PairInv

\* Asking the first to fade changes neither what is on top nor how many there
\* are.
LEMMA RemovedKeeps ==
    ASSUME TypeOK, OverlayInv, overlays' = Removed, UNCHANGED <<waiting, crowded>>
    PROVE  OverlayInv'
<1>1. Len(overlays) \in Nat /\ Len(overlays') = Len(overlays)
  BY RemovedType DEF TypeOK
<1>2. OnlyFirstFades'
  BY <1>1, RemovedType DEF TypeOK, OverlayInv, OnlyFirstFades
<1>3. SpinnerOnTopMeansWorking'
  BY <1>1, RemovedType DEF TypeOK, OverlayInv, SpinnerOnTopMeansWorking
<1>4. PairInv'
  BY <1>1, RemovedType DEF TypeOK, OverlayInv, PairInv
<1> QED
  BY <1>2, <1>3, <1>4 DEF OverlayInv

\* Adding one makes the others fade in their order; if none was fading, there
\* was one at most.
LEMMA ShowKeeps ==
    ASSUME TypeOK, OverlayInv, NEW v \in Verifications,
           NEW kind \in {"loading", "result", "error"}, Show(v, kind),
           kind = "loading" => v \in waiting'
    PROVE  OverlayInv'
<1>0. overlays \in Seq(Overlay) /\ Len(overlays) \in Nat /\ DOMAIN overlays = 1 .. Len(overlays)
  BY DEF TypeOK
<1>1. /\ overlays' \in Seq(Overlay) /\ Len(overlays') = Len(overlays) + 1
      /\ overlays'[Len(overlays')] = [of |-> v, kind |-> kind, fading |-> FALSE]
      /\ \A i \in 1 .. Len(overlays) : overlays'[i] = Removed[i]
  BY <1>0, ShowType
<1>10. DOMAIN overlays' = 1 .. Len(overlays') /\ Len(overlays') = Len(overlays) + 1
  BY <1>1
<1>2. OnlyFirstFades'
  BY <1>0, <1>1, <1>10, RemovedType DEF OverlayInv, OnlyFirstFades
<1>3. SpinnerOnTopMeansWorking'
  BY <1>1 DEF SpinnerOnTopMeansWorking
<1>4. ASSUME ~crowded' PROVE Len(overlays) <= 1
  <2>1. ~crowded /\ Fading = {}
    BY <1>4, ShowType DEF TypeOK
  <2>2. ASSUME Len(overlays) > 1 PROVE FALSE
    <3>1. 1 \in DOMAIN overlays /\ overlays[1].fading
      BY <1>0, <2>1, <2>2 DEF OverlayInv, PairInv
    <3> QED
      BY <2>1, <3>1 DEF Fading
  <2>3. Len(overlays) <= 2
    BY <2>1 DEF OverlayInv, PairInv
  <2> QED
    BY <1>0, <2>2, <2>3
<1>5. PairInv'
  <2> SUFFICES ASSUME ~crowded' PROVE (Len(overlays) <= 2 /\ (Len(overlays) > 1 => overlays[1].fading))'
    BY DEF PairInv
  <2>1. Len(overlays') <= 2
    BY <1>0, <1>1, <1>4
  <2>2. ASSUME Len(overlays') > 1 PROVE overlays'[1].fading
    <3>1. 1 \in 1 .. Len(overlays)
      BY <1>0, <1>10, <2>2
    <3> QED
      BY <1>0, <1>1, <3>1, RemovedType
  <2> QED
    BY <2>1, <2>2
<1> QED
  BY <1>2, <1>3, <1>5 DEF OverlayInv

\* What fades is the first; when it goes, all others are still to be closed,
\* and the one on top is the same.
LEMMA FadeOutKeeps ==
    ASSUME TypeOK, OverlayInv, NEW i \in DOMAIN overlays, FadeOut(i)
    PROVE  OverlayInv'
<1>1. i = 1 /\ Len(overlays) \in Nat \ {0}
  BY DEF FadeOut, OverlayInv, OnlyFirstFades, TypeOK
<1>2. /\ Len(overlays') = Len(overlays) - 1
      /\ \A j \in 1 .. Len(overlays) - 1 : overlays'[j] = overlays[j + 1]
      /\ DOMAIN overlays' = 1 .. Len(overlays')
  BY <1>1, WithoutType DEF FadeOut, TypeOK
<1>3. \A j \in 1 .. Len(overlays') : ~overlays'[j].fading
  BY <1>1, <1>2 DEF OverlayInv, OnlyFirstFades, TypeOK
<1>4. OnlyFirstFades'
  BY <1>2, <1>3 DEF OnlyFirstFades
<1>5. ASSUME overlays' # <<>> PROVE overlays'[Len(overlays')] = overlays[Len(overlays)]
  <2>1. Len(overlays') \in 1 .. Len(overlays) - 1
    BY <1>1, <1>2, <1>5, WithoutType DEF FadeOut, TypeOK
  <2> QED
    BY <1>1, <1>2, <2>1
<1>6. SpinnerOnTopMeansWorking'
  BY <1>1, <1>5 DEF OverlayInv, SpinnerOnTopMeansWorking, FadeOut, TypeOK
<1>7. PairInv'
  <2> SUFFICES ASSUME ~crowded' PROVE Len(overlays') <= 1
    BY <1>1, <1>2 DEF PairInv
  <2>1. Len(overlays) <= 2
    BY DEF FadeOut, OverlayInv, PairInv
  <2> QED
    BY <1>1, <1>2, <2>1
<1> QED
  BY <1>4, <1>6, <1>7 DEF OverlayInv

THEOREM OverlaysInductive == Spec => []OverlayInv
<1>1. Init => OverlayInv
  BY DEF Init, OverlayInv, OnlyFirstFades, SpinnerOnTopMeansWorking, PairInv
<1>2. TypeOK /\ OverlayInv /\ [Next]_vars => OverlayInv'
  <2> SUFFICES ASSUME TypeOK, OverlayInv, [Next]_vars PROVE OverlayInv'
    OBVIOUS
  <2> USE DEF page
  <2>1. ASSUME UNCHANGED <<overlays, waiting, crowded>> PROVE OverlayInv'
    BY <2>1 DEF OverlayInv, OnlyFirstFades, SpinnerOnTopMeansWorking, PairInv
  <2>2. CASE Verify
    <3>1. started + 1 \in Verifications
      BY <2>2, ExtensionAssumption DEF Verify, TypeOK, Verifications
    <3> QED
      BY <2>2, <3>1, ShowKeeps DEF Verify
  <2>3. ASSUME NEW v \in waiting, NEW kind \in {"result", "error"}, Settle(v, kind)
        PROVE OverlayInv'
    <3>1. v \in Verifications
      BY ExtensionAssumption DEF TypeOK, Verifications
    <3> QED
      BY <2>3, <3>1, ShowKeeps DEF Settle
  <2>4. ASSUME NEW i \in DOMAIN overlays, FadeOut(i) PROVE OverlayInv'
    BY <2>4, FadeOutKeeps
  <2>5. ASSUME NEW t \in timers, AutoClose(t) PROVE OverlayInv'
    BY <2>5, RemovedKeeps DEF AutoClose
  <2>6. CASE ClickClose
    BY <2>6, RemovedKeeps DEF ClickClose
  <2> QED
    BY <2>1, <2>2, <2>3, <2>4, <2>5, <2>6 DEF Next, Press, Return, Hide, Reopen, vars
<1> QED
  BY <1>1, <1>2, TypeCorrect, PTL DEF Spec

\* Overlays go in the order in which they came (content.js:389-395, 522-533).
THEOREM FirstFades == Spec => []OnlyFirstFades
<1>1. OverlayInv => OnlyFirstFades
  BY DEF OverlayInv
<1> QED
  BY <1>1, OverlaysInductive, PTL

\* The spinner one sees belongs to a verification under way (content.js:40-64).
THEOREM SpinnersWork == Spec => []SpinnerOnTopMeansWorking
<1>1. OverlayInv => SpinnerOnTopMeansWorking
  BY DEF OverlayInv
<1> QED
  BY <1>1, OverlaysInductive, PTL

\* Without a crowd one overlay is left when the fading one is gone
\* (content.js:389-403).
THEOREM OneLeft == Spec => []OneUnlessCrowded
<1>1. ASSUME TypeOK, OverlayInv PROVE OneUnlessCrowded
  <2> DEFINE standing == {i \in DOMAIN overlays : ~overlays[i].fading}
  <2> SUFFICES ASSUME ~crowded PROVE Cardinality(standing) <= 1
    BY DEF OneUnlessCrowded
  <2>1. standing \subseteq {1} \/ standing \subseteq {2}
    <3>1. Len(overlays) \in Nat /\ DOMAIN overlays = 1 .. Len(overlays) /\ Len(overlays) <= 2
      BY <1>1 DEF TypeOK, OverlayInv, PairInv
    <3>2. CASE Len(overlays) <= 1
      BY <3>1, <3>2
    <3>3. CASE Len(overlays) > 1
      BY <1>1, <3>1, <3>3 DEF OverlayInv, PairInv
    <3> QED
      BY <3>1, <3>2, <3>3
  <2>2. PICK k \in {1, 2} : standing \subseteq {k}
    BY <2>1
  <2>3. IsFiniteSet({k}) /\ Cardinality({k}) = 1
    BY FS_Singleton
  <2> HIDE DEF standing
  <2>4. Cardinality(standing) <= Cardinality({k})
    BY <2>2, <2>3, FS_Subset
  <2> QED
    BY <2>3, <2>4
<1> QED
  BY <1>1, TypeCorrect, OverlaysInductive, PTL

-----------------------------------------------------------------------------
\* The popup.

\* A popup that verifies shows its loader alone (popup.js:63-105, 176-182).
THEOREM LoaderAlone == Spec => []LoaderStandsAlone
<1>1. Init => LoaderStandsAlone
  BY DEF Init, Opened, LoaderStandsAlone
<1>2. TypeOK /\ LoaderStandsAlone /\ [Next]_vars => LoaderStandsAlone'
  <2> SUFFICES ASSUME TypeOK, LoaderStandsAlone, [Next]_vars PROVE LoaderStandsAlone'
    OBVIOUS
  <2> USE DEF LoaderStandsAlone
  <2>0. popup \in View /\ Finished \in View
    BY ViewFields DEF TypeOK
  <2>1. ASSUME UNCHANGED popup PROVE LoaderStandsAlone'
    BY <2>1
  <2>2. CASE Press
    BY <2>0, <2>2 DEF Press, ShowError, View
  <2>3. CASE Return
    BY <2>0, <2>3 DEF Return, ShowError, Finished, View
  <2>4. CASE Hide
    BY <2>0, <2>4 DEF Hide, View
  <2>5. CASE Reopen
    BY <2>5 DEF Reopen, Opened
  <2> QED
    BY <2>1, <2>2, <2>3, <2>4, <2>5
       DEF Next, vars, Verify, Settle, FadeOut, AutoClose, ClickClose
<1> QED
  BY <1>1, <1>2, TypeCorrect, PTL DEF Spec

=============================================================================
