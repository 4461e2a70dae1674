--------------------------- MODULE ChatPanelProofs ---------------------------
(***************************************************************************)
(* For any number of answers, changes of the page and clicks: there is one *)
(* panel at most, a spinner has a call behind it, an answer has one button *)
(* at most, and a button is disabled exactly while its call waits.         *)
(***************************************************************************)
EXTENDS ChatPanel, FiniteSetTheorems, TLAPS

Buttons == [of : Answers, copy : Nat, disabled : BOOLEAN, attached : BOOLEAN]

-----------------------------------------------------------------------------
\* The panel.

\* No panel is in the document but the one the script knows; all that calls
\* hold on to were made.
PanelInv ==
    /\ content \in Seq({"loading", "error", "result"})
    /\ rightPanel \in 0 .. Len(content)
    /\ panels \subseteq {rightPanel} \cap 1 .. Len(content)
    /\ \A r \in requests : r.panel \in 1 .. Len(content)
    /\ SpinnerMeansWorking

\* Replacing the content of one panel, made or just being made, leaves the
\* others as they are.
LEMMA ShowOne ==
    ASSUME content \in Seq({"loading", "error", "result"}),
           NEW p \in 1 .. Len(content) + 1,
           NEW what \in {"loading", "error", "result"}, Show(p, what)
    PROVE  /\ content' \in Seq({"loading", "error", "result"})
           /\ Len(content') >= Len(content) /\ p \in 1 .. Len(content')
           /\ content'[p] = what
           /\ \A q \in 1 .. Len(content) : q # p => content'[q] = content[q]
<1> DEFINE n == IF p = Len(content) + 1 THEN Len(content) + 1 ELSE Len(content)
<1>1. Len(content) \in Nat
  OBVIOUS
<1>2. n \in Nat /\ 1 .. Len(content) \cup {p} = 1 .. n /\ p \in 1 .. n /\ n >= Len(content)
  BY <1>1
<1>3. content' = [q \in 1 .. n |-> IF q = p THEN what ELSE content[q]]
  BY <1>2 DEF Show
<1>4. \A q \in 1 .. n : q # p => q \in 1 .. Len(content)
  BY <1>1
<1> HIDE DEF n
<1>5. \A q \in 1 .. n : content'[q] \in {"loading", "error", "result"}
  BY <1>3, <1>4
<1>6. content' \in [1 .. n -> {"loading", "error", "result"}]
  BY <1>3, <1>5
<1>7. content' \in Seq({"loading", "error", "result"}) /\ Len(content') = n
  BY <1>2, <1>6
<1> QED
  BY <1>1, <1>2, <1>3, <1>7

LEMMA PanelOpened ==
    ASSUME PanelInv, NEW what \in {"loading", "error", "result"}, OpenAndShow(what)
    PROVE  /\ content' \in Seq({"loading", "error", "result"})
           /\ rightPanel' \in 1 .. Len(content') /\ panels' = {rightPanel'}
           /\ rightPanel' = Opened
           /\ Len(content') >= Len(content)
           /\ content'[rightPanel'] = what
<1>1. Opened \in 1 .. Len(content) + 1
  BY DEF PanelInv, Opened
<1>2. panels' = {Opened} /\ rightPanel' = Opened /\ Show(Opened, what)
  BY DEF PanelInv, Opened, OpenAndShow
<1> QED
  BY <1>1, <1>2, ShowOne DEF PanelInv

THEOREM PanelInductive == Spec => []PanelInv
<1>1. Init => PanelInv
  BY DEF Init, PanelInv, SpinnerMeansWorking
<1>2. PanelInv /\ [Next]_vars => PanelInv'
  <2> SUFFICES ASSUME PanelInv, [Next]_vars PROVE PanelInv'
    OBVIOUS
  <2>1. ASSUME UNCHANGED <<panel, requests>> PROVE PanelInv'
    BY <2>1 DEF PanelInv, SpinnerMeansWorking, panel
  <2>2. CASE HostDropsPanel
    BY <2>2 DEF HostDropsPanel, PanelInv, SpinnerMeansWorking
  <2>3. ASSUME NEW b \in buttons, Click(b) PROVE PanelInv'
    <3> DEFINE call == [of |-> b.of, copy |-> b.copy, panel |-> Opened]
    <3>1. OpenAndShow("loading") /\ requests' = requests \cup {call} /\ call.panel = Opened
      BY <2>3 DEF Click
    <3>2. /\ content' \in Seq({"loading", "error", "result"})
          /\ rightPanel' \in 1 .. Len(content') /\ panels' = {rightPanel'}
          /\ rightPanel' = Opened /\ Len(content') >= Len(content)
      BY <3>1, PanelOpened
    <3>3. \A r \in requests' : r.panel \in 1 .. Len(content')
      BY <3>1, <3>2 DEF PanelInv
    <3>4. SpinnerMeansWorking'
      BY <3>1, <3>2 DEF SpinnerMeansWorking
    <3> QED
      BY <3>2, <3>3, <3>4 DEF PanelInv
  <2>4. ASSUME NEW r \in requests, Succeed(r) PROVE PanelInv'
    <3>1. OpenAndShow("result") /\ requests' = requests \ {r}
      BY <2>4 DEF Succeed, Release
    <3>2. /\ content' \in Seq({"loading", "error", "result"})
          /\ rightPanel' \in 1 .. Len(content') /\ panels' = {rightPanel'}
          /\ Len(content') >= Len(content) /\ content'[rightPanel'] = "result"
      BY <3>1, PanelOpened
    <3>3. \A s \in requests' : s.panel \in 1 .. Len(content')
      BY <3>1, <3>2 DEF PanelInv
    <3>4. SpinnerMeansWorking'
      BY <3>2 DEF SpinnerMeansWorking
    <3> QED
      BY <3>2, <3>3, <3>4 DEF PanelInv
  <2>5. ASSUME NEW r \in requests, Fail(r) PROVE PanelInv'
    <3>1. /\ Show(r.panel, "error") /\ requests' = requests \ {r}
          /\ UNCHANGED <<rightPanel, panels>>
      BY <2>5 DEF Fail, Release
    <3>2. /\ content' \in Seq({"loading", "error", "result"})
          /\ Len(content') >= Len(content) /\ content'[r.panel] = "error"
          /\ \A q \in 1 .. Len(content) : q # r.panel => content'[q] = content[q]
      <4>1. r.panel \in 1 .. Len(content) + 1
        BY DEF PanelInv
      <4> QED
        BY <3>1, <4>1, ShowOne DEF PanelInv
    <3>3. /\ rightPanel' \in 0 .. Len(content')
          /\ panels' \subseteq {rightPanel'} \cap 1 .. Len(content')
          /\ \A s \in requests' : s.panel \in 1 .. Len(content')
      BY <3>1, <3>2 DEF PanelInv
    <3>4. SpinnerMeansWorking'
      <4> SUFFICES ASSUME NEW p \in panels, content'[p] = "loading"
                   PROVE  \E s \in requests' : s.panel = p
        BY <3>1 DEF SpinnerMeansWorking
      <4>1. p # r.panel /\ p \in 1 .. Len(content)
        BY <3>2 DEF PanelInv
      <4>2. content[p] = "loading"
        BY <3>2, <4>1
      <4> QED
        BY <3>1, <4>1, <4>2 DEF PanelInv, SpinnerMeansWorking
    <3> QED
      BY <3>2, <3>3, <3>4 DEF PanelInv
  <2>6. CASE Close
    BY <2>6 DEF Close, PanelInv, SpinnerMeansWorking
  <2> QED
    BY <2>1, <2>2, <2>3, <2>4, <2>5, <2>6
       DEF Next, Inject, HostAdds, HostTypes, HostRedraws, ClickClose, vars
<1> QED
  BY <1>1, <1>2, PTL DEF Spec

\* A spinner always has a call behind it.
THEOREM SpinnersEnd == Spec => []SpinnerMeansWorking
BY PanelInductive, PTL DEF PanelInv

\* There is one panel at most.
THEOREM PanelUnique == Spec => []OnePanel
<1>1. PanelInv => OnePanel
  <2> SUFFICES ASSUME PanelInv PROVE Cardinality(panels) <= 1
    BY DEF OnePanel
  <2>1. panels = {} \/ panels = {rightPanel}
    BY DEF PanelInv
  <2>2. Cardinality({}) = 0 /\ Cardinality({rightPanel}) = 1
    BY FS_EmptySet, FS_Singleton
  <2> QED
    BY <2>1, <2>2
<1> QED
  BY <1>1, PanelInductive, PTL

-----------------------------------------------------------------------------
\* The buttons.

\* Buttons of one answer are told apart by when they were made, for the host
\* has to change the page between two; a waiting call keeps its button.
ButtonInv ==
    /\ changes \in Nat
    /\ buttons \subseteq Buttons
    /\ \A b \in buttons : b.copy <= changes /\ (~b.attached => b.copy < changes)
    /\ \A b, c \in buttons : b.of = c.of /\ b.copy = c.copy => b = c
    /\ \A b, c \in buttons : b.attached /\ c.attached /\ b.of = c.of => b = c
    /\ \A r \in requests : \E b \in buttons : BelongsTo(b, r)
    /\ \A r, s \in requests : r.of = s.of /\ r.copy = s.copy => r = s
    /\ ButtonTellsState

LEMMA InjectKeeps ==
    ASSUME ButtonInv, NEW timer, Inject(timer)
    PROVE  ButtonInv'
<1> DEFINE new == {NewButton(a) : a \in {a \in Answers : LacksButton(a)}}
<1>1. buttons' = buttons \cup new /\ UNCHANGED <<requests, changes>>
  BY DEF Inject, counts
<1>2. \A b \in new : /\ b \in Buttons /\ b.copy = changes
                     /\ b.attached = TRUE /\ b.disabled = FALSE
                     /\ b = NewButton(b.of)
                     /\ \A c \in buttons : c.of = b.of => ~c.attached
  <2> SUFFICES ASSUME NEW b \in new
               PROVE  /\ b \in Buttons /\ b.copy = changes
                      /\ b.attached = TRUE /\ b.disabled = FALSE
                      /\ b = NewButton(b.of)
                      /\ \A c \in buttons : c.of = b.of => ~c.attached
    OBVIOUS
  <2>1. PICK a \in Answers : LacksButton(a) /\ b = NewButton(a)
    OBVIOUS
  <2>2. \A c \in buttons : c.of = a => ~c.attached
    BY <2>1 DEF LacksButton, Attached
  <2>3. b = [of |-> a, copy |-> changes, disabled |-> FALSE, attached |-> TRUE]
    BY <2>1 DEF NewButton
  <2>4. b \in Buttons
    BY <2>3 DEF ButtonInv, Buttons
  <2>5. b.of = a /\ b.copy = changes /\ b.attached = TRUE /\ b.disabled = FALSE
    BY <2>3
  <2>6. b = NewButton(b.of)
    BY <2>1, <2>5
  <2> QED
    BY <2>2, <2>4, <2>5, <2>6
<1>3. \A b, c \in new : b.of = c.of => b = c
  <2> SUFFICES ASSUME NEW b \in new, NEW c \in new, b.of = c.of PROVE b = c
    OBVIOUS
  <2>1. b = NewButton(b.of) /\ c = NewButton(c.of)
    BY <1>2
  <2> QED
    BY <2>1
<1>4. \A b \in new : \A c \in buttons : c.of = b.of => c.copy < b.copy
  BY <1>2 DEF ButtonInv
<1>5. \A b \in new : \A r \in requests : ~BelongsTo(b, r)
  <2> SUFFICES ASSUME NEW b \in new, NEW r \in requests, BelongsTo(b, r) PROVE FALSE
    OBVIOUS
  <2>1. PICK c \in buttons : BelongsTo(c, r)
    BY DEF ButtonInv
  <2>2. c.of = b.of /\ c.copy = b.copy
    BY <2>1 DEF BelongsTo
  <2>3. b.copy \in Nat
    BY <1>2 DEF Buttons
  <2> QED
    BY <1>4, <2>2, <2>3
<1> HIDE DEF new
<1>6. /\ changes' \in Nat /\ buttons' \subseteq Buttons
      /\ \A b \in buttons' : b.copy <= changes' /\ (~b.attached => b.copy < changes')
  BY <1>1, <1>2 DEF ButtonInv
<1>7. \A b, c \in buttons' : b.of = c.of /\ b.copy = c.copy => b = c
  <2> SUFFICES ASSUME NEW b \in buttons', NEW c \in buttons', b.of = c.of, b.copy = c.copy
               PROVE  b = c
    OBVIOUS
  <2>1. b.copy \in Nat /\ c.copy \in Nat
    BY <1>6 DEF Buttons
  <2>2. ~(b \in new /\ c \in buttons) /\ ~(c \in new /\ b \in buttons)
    BY <1>4, <2>1
  <2> QED
    BY <1>1, <1>3, <2>2 DEF ButtonInv
<1>8. \A b, c \in buttons' : b.attached /\ c.attached /\ b.of = c.of => b = c
  BY <1>1, <1>2, <1>3 DEF ButtonInv
<1>9. \A r \in requests' : \E b \in buttons' : BelongsTo(b, r)
  BY <1>1 DEF ButtonInv
<1>10. \A r, s \in requests' : r.of = s.of /\ r.copy = s.copy => r = s
  BY <1>1 DEF ButtonInv
<1>11. ButtonTellsState'
  BY <1>1, <1>2, <1>5 DEF ButtonInv, ButtonTellsState, BelongsTo
<1> QED
  BY <1>6, <1>7, <1>8, <1>9, <1>10, <1>11 DEF ButtonInv

LEMMA RedrawKeeps ==
    ASSUME ButtonInv, NEW a \in Answers, HostRedraws(a)
    PROVE  ButtonInv'
<1> DEFINE Off(b) == [b EXCEPT !.attached = @ /\ b.of # a]
<1>1. /\ changes' = changes + 1 /\ requests' = requests
      /\ buttons' = InUse({Off(b) : b \in buttons}, requests)
  BY DEF HostRedraws
<1>2. \A b \in buttons : /\ Off(b) \in Buttons /\ Off(b).of = b.of /\ Off(b).copy = b.copy
                         /\ Off(b).disabled = b.disabled
                         /\ (Off(b).attached => b.attached)
  BY DEF ButtonInv, Buttons
<1> HIDE DEF Off
<1>3. \A c \in buttons' : \E b \in buttons : c = Off(b)
  BY <1>1 DEF InUse
<1>4. \A b \in buttons : (\E r \in requests : BelongsTo(b, r)) => Off(b) \in buttons'
  BY <1>1, <1>2 DEF InUse, BelongsTo
<1>5. changes' \in Nat /\ buttons' \subseteq Buttons
  BY <1>1, <1>2, <1>3 DEF ButtonInv
<1>6. \A c \in buttons' : c.copy <= changes' /\ (~c.attached => c.copy < changes')
  <2> SUFFICES ASSUME NEW b \in buttons
               PROVE  b.copy <= changes + 1 /\ b.copy < changes + 1
    BY <1>1, <1>2, <1>3
  <2> QED
    BY DEF ButtonInv, Buttons
<1>7. \A b, c \in buttons' : b.of = c.of /\ b.copy = c.copy => b = c
  BY <1>2, <1>3 DEF ButtonInv
<1>8. \A b, c \in buttons' : b.attached /\ c.attached /\ b.of = c.of => b = c
  BY <1>2, <1>3 DEF ButtonInv
<1>9. \A r \in requests' : \E b \in buttons' : BelongsTo(b, r)
  BY <1>1, <1>2, <1>4 DEF ButtonInv, BelongsTo
<1>10. ButtonTellsState'
  BY <1>1, <1>2, <1>3 DEF ButtonInv, ButtonTellsState, BelongsTo
<1> QED
  BY <1>1, <1>5, <1>6, <1>7, <1>8, <1>9, <1>10 DEF ButtonInv

LEMMA ClickKeeps ==
    ASSUME ButtonInv, NEW b \in buttons, Click(b)
    PROVE  ButtonInv'
<1> DEFINE pressed == [b EXCEPT !.disabled = TRUE]
           call == [of |-> b.of, copy |-> b.copy, panel |-> Opened]
<1>1. /\ buttons' = (buttons \ {b}) \cup {pressed}
      /\ requests' = requests \cup {call} /\ changes' = changes
      /\ ~b.disabled
  BY DEF Click
<1>2. /\ pressed \in Buttons /\ pressed.of = b.of /\ pressed.copy = b.copy
      /\ pressed.disabled = TRUE /\ pressed.attached = b.attached
  BY DEF ButtonInv, Buttons
<1>3. call.of = b.of /\ call.copy = b.copy
  OBVIOUS
<1> HIDE DEF pressed, call
<1>4. \A r \in requests : ~BelongsTo(b, r)
  BY <1>1 DEF ButtonInv, ButtonTellsState
<1>5. /\ changes' \in Nat /\ buttons' \subseteq Buttons
      /\ \A c \in buttons' : c.copy <= changes' /\ (~c.attached => c.copy < changes')
  BY <1>1, <1>2 DEF ButtonInv
<1>6. /\ \A c, d \in buttons' : c.of = d.of /\ c.copy = d.copy => c = d
      /\ \A c, d \in buttons' : c.attached /\ d.attached /\ c.of = d.of => c = d
  BY <1>1, <1>2 DEF ButtonInv
<1>7. \A r \in requests' : \E c \in buttons' : BelongsTo(c, r)
  BY <1>1, <1>2, <1>3 DEF ButtonInv, BelongsTo
<1>8. \A r, s \in requests' : r.of = s.of /\ r.copy = s.copy => r = s
  BY <1>1, <1>3, <1>4 DEF ButtonInv, BelongsTo
<1>9. ButtonTellsState'
  <2>1. \A c \in buttons \ {b} : ~BelongsTo(c, call)
    BY <1>3 DEF ButtonInv, BelongsTo
  <2> QED
    BY <1>1, <1>2, <1>3, <2>1 DEF ButtonInv, ButtonTellsState, BelongsTo
<1> QED
  BY <1>5, <1>6, <1>7, <1>8, <1>9 DEF ButtonInv

LEMMA ReleaseKeeps ==
    ASSUME ButtonInv, NEW r \in requests, Release(r), changes' = changes
    PROVE  ButtonInv'
<1> DEFINE Free(b) == [b EXCEPT !.disabled = @ /\ ~BelongsTo(b, r)]
<1>1. /\ requests' = requests \ {r}
      /\ buttons' = InUse({Free(b) : b \in buttons}, requests \ {r})
  BY DEF Release
<1>2. \A b \in buttons : /\ Free(b) \in Buttons /\ Free(b).of = b.of /\ Free(b).copy = b.copy
                         /\ Free(b).attached = b.attached
                         /\ (Free(b).disabled <=> b.disabled /\ ~BelongsTo(b, r))
  BY DEF ButtonInv, Buttons
<1> HIDE DEF Free
<1>3. \A c \in buttons' : \E b \in buttons : c = Free(b)
  BY <1>1 DEF InUse
<1>4. \A b \in buttons : (\E s \in requests' : BelongsTo(b, s)) => Free(b) \in buttons'
  BY <1>1, <1>2 DEF InUse, BelongsTo
<1>5. /\ changes' \in Nat /\ buttons' \subseteq Buttons
      /\ \A c \in buttons' : c.copy <= changes' /\ (~c.attached => c.copy < changes')
  BY <1>2, <1>3 DEF ButtonInv
<1>6. /\ \A b, c \in buttons' : b.of = c.of /\ b.copy = c.copy => b = c
      /\ \A b, c \in buttons' : b.attached /\ c.attached /\ b.of = c.of => b = c
  BY <1>2, <1>3 DEF ButtonInv
<1>7. \A s \in requests' : \E b \in buttons' : BelongsTo(b, s)
  <2> SUFFICES ASSUME NEW s \in requests' PROVE \E b \in buttons' : BelongsTo(b, s)
    OBVIOUS
  <2>1. PICK b \in buttons : BelongsTo(b, s)
    BY <1>1 DEF ButtonInv
  <2>2. Free(b) \in buttons' /\ BelongsTo(Free(b), s)
    BY <1>2, <1>4, <2>1 DEF BelongsTo
  <2> QED
    BY <2>2
<1>8. \A s, t \in requests' : s.of = t.of /\ s.copy = t.copy => s = t
  BY <1>1 DEF ButtonInv
<1>9. ButtonTellsState'
  <2> SUFFICES ASSUME NEW b \in buttons
               PROVE  Free(b).disabled <=> \E s \in requests \ {r} : BelongsTo(b, s)
    <3>1. \A c \in buttons, s \in requests' : BelongsTo(Free(c), s) <=> BelongsTo(c, s)
      BY <1>2 DEF BelongsTo
    <3>2. SUFFICES ASSUME NEW c \in buttons'
                   PROVE  c.disabled <=> \E s \in requests' : BelongsTo(c, s)
      BY DEF ButtonTellsState, BelongsTo
    <3>3. PICK d \in buttons : c = Free(d)
      BY <1>3
    <3>4. Free(d).disabled <=> \E s \in requests \ {r} : BelongsTo(d, s)
      OBVIOUS
    <3> QED
      BY <1>1, <3>1, <3>3, <3>4
  <2>1. b.disabled <=> \E s \in requests : BelongsTo(b, s)
    BY DEF ButtonInv, ButtonTellsState
  <2>2. \A s \in requests \ {r} : BelongsTo(b, s) => ~BelongsTo(b, r)
    BY DEF ButtonInv, BelongsTo
  <2> QED
    BY <1>2, <2>1, <2>2
<1> QED
  BY <1>5, <1>6, <1>7, <1>8, <1>9 DEF ButtonInv

THEOREM ButtonInductive == Spec => []ButtonInv
<1>1. Init => ButtonInv
  BY DEF Init, ButtonInv, ButtonTellsState
<1>2. ButtonInv /\ [Next]_vars => ButtonInv'
  <2> SUFFICES ASSUME ButtonInv, [Next]_vars PROVE ButtonInv'
    OBVIOUS
  <2>1. ASSUME UNCHANGED <<buttons, requests, changes>> PROVE ButtonInv'
    BY <2>1 DEF ButtonInv, ButtonTellsState, BelongsTo
  <2>2. CASE HostDropsPanel
    <3>1. UNCHANGED <<buttons, requests>> /\ changes' = changes + 1
      BY <2>2 DEF HostDropsPanel, page
    <3>2. /\ changes' \in Nat
          /\ \A b \in buttons' : b.copy <= changes' /\ (~b.attached => b.copy < changes')
      BY <3>1 DEF ButtonInv, Buttons
    <3> QED
      BY <3>1, <3>2 DEF ButtonInv, ButtonTellsState, BelongsTo
  <2>3. ASSUME NEW r \in requests, Succeed(r) PROVE ButtonInv'
    BY <2>3, ReleaseKeeps DEF Succeed, counts
  <2>4. ASSUME NEW r \in requests, Fail(r) PROVE ButtonInv'
    BY <2>4, ReleaseKeeps DEF Fail, counts
  <2> QED
    BY <2>1, <2>2, <2>3, <2>4, InjectKeeps, RedrawKeeps, ClickKeeps
       DEF Next, HostAdds, HostTypes, ClickClose, Close, vars, page, counts
<1> QED
  BY <1>1, <1>2, PTL DEF Spec

\* A button is disabled exactly while its call waits.
THEOREM ButtonsHonest == Spec => []ButtonTellsState
BY ButtonInductive, PTL DEF ButtonInv

\* An answer has one button at most.
THEOREM ButtonUnique == Spec => []OneButtonEach
<1>1. ButtonInv => OneButtonEach
  <2> SUFFICES ASSUME ButtonInv, NEW a \in Answers PROVE Cardinality(Attached(a)) <= 1
    BY DEF OneButtonEach
  <2>1. CASE Attached(a) = {}
    BY <2>1, FS_EmptySet
  <2>2. CASE Attached(a) # {}
    <3>1. PICK b : b \in Attached(a)
      BY <2>2
    <3>2. Attached(a) = {b}
      BY <3>1 DEF ButtonInv, Attached
    <3>3. Cardinality({b}) = 1
      BY FS_Singleton
    <3> QED
      BY <3>2, <3>3
  <2> QED
    BY <2>1, <2>2
<1> QED
  BY <1>1, ButtonInductive, PTL

=============================================================================
