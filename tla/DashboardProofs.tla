-------------------------- MODULE DashboardProofs --------------------------
(***************************************************************************)
(* What holds of the run page for any runs, views and requests.            *)
(*                                                                         *)
(* Every step of the page is a step of Viz or leaves Viz alone, so that    *)
(* the theorems of VizProofs hold of the page (PageDraws).  What a view    *)
(* shows was drawn for that view (Panes), and as long as no graph failed   *)
(* there is one worker, whose drawings arrive in the order they were asked *)
(* for (InStep).                                                           *)
(***************************************************************************)
EXTENDS Dashboard, VizProofs

-----------------------------------------------------------------------------
(* The invariant.                                                          *)

RequestRecord == [view : DOMAIN view, by : {"load", "poll", "cancel"},
             seen : (0 .. Over) \cup {Unknown}]

Types ==
    /\ known \in [Run -> 0 .. Over]
    /\ shown \in 0 .. MaxViews
    /\ view \in Seq(ViewRecord)
    /\ \A i \in DOMAIN view : view[i].gone = (i # shown)
    /\ asked \subseteq RequestRecord

\* Each call of GraphRenderer.render draws for a view, the graph of its run.
Purpose ==
    /\ drawnFor \in Seq(Nat) /\ DOMAIN drawnFor = Calls
    /\ \A c \in Calls :
         /\ drawnFor[c] \in DOMAIN view
         /\ calls[c].src = DotOf[view[drawnFor[c]].id]

Panes ==
    \A i \in DOMAIN view : view[i].pane # Empty =>
      view[i].pane \in Calls /\ drawnFor[view[i].pane] = i

NoFailure == \A c \in Calls : calls[c].answer # Failed

InStep ==
    NoFailure =>
      \A i \in DOMAIN view, c \in Calls :
        view[i].pane # Empty /\ c > view[i].pane /\ drawnFor[c] = i => calls[c].answer = Pending

\* No two calls of one Viz have the same number.
Distinct ==
    \A c, d \in Calls : calls[c].on = calls[d].on /\ calls[c].id = calls[d].id => c = d

DInv == IInv /\ Types /\ Purpose /\ Panes /\ InStep /\ Distinct

LEMMA DashInitHolds == DashInit => DInv
  <1> SUFFICES ASSUME DashInit PROVE DInv
    OBVIOUS
  <1>1. IInv /\ Calls = {}
    BY InitHolds DEF DashInit, Init, Calls
  <1>2. view = << >> /\ DOMAIN view = {} /\ drawnFor = << >> /\ DOMAIN drawnFor = {}
    BY DEF DashInit
  <1>3. view \in Seq(ViewRecord) /\ drawnFor \in Seq(Nat)
    BY <1>2, EmptySeq
  <1>4. Types
    BY <1>2, <1>3, DashboardAssumption DEF DashInit, Types
  <1> QED BY <1>1, <1>2, <1>3, <1>4 DEF DInv, Purpose, Panes, InStep, Distinct

-----------------------------------------------------------------------------
(* The views in a step.                                                    *)

\* A step that puts no drawing into a view.
SameViews ==
    /\ view' \in Seq(ViewRecord) /\ DOMAIN view \subseteq DOMAIN view'
    /\ \A i \in DOMAIN view' :
         IF i \in DOMAIN view
         THEN view'[i].id = view[i].id /\ view'[i].pane \in {Empty, view[i].pane}
         ELSE view'[i].pane = Empty

Quiet == SameViews /\ UNCHANGED <<calls, drawnFor>>

Idle == Quiet /\ UNCHANGED vizVars

Draws ==
    /\ SameViews
    /\ \E i \in DOMAIN view :
         Render(DotOf[view[i].id]) /\ drawnFor' = Append(drawnFor, i)

Puts == \E v \in Instance : Drawn(v)

LEMMA ViewsAre ==
    ASSUME NEW s \in Seq(ViewRecord)
    PROVE  /\ Len(s) \in Nat /\ DOMAIN s = 1 .. Len(s)
           /\ \A i \in DOMAIN s : s[i] \in ViewRecord
  <1>1. Len(s) \in Nat /\ DOMAIN s = 1 .. Len(s)
    OBVIOUS
  <1> QED BY <1>1, ElementOfSeq

LEMMA Updated ==
    ASSUME NEW s \in Seq(ViewRecord), NEW i \in DOMAIN s, NEW u \in ViewRecord
    PROVE  /\ [s EXCEPT ![i] = u] \in Seq(ViewRecord)
           /\ DOMAIN [s EXCEPT ![i] = u] = DOMAIN s
           /\ \A j \in DOMAIN s : [s EXCEPT ![i] = u][j] = IF j = i THEN u ELSE s[j]
  <1>1. i \in 1 .. Len(s) /\ DOMAIN s = 1 .. Len(s)
    BY ViewsAre
  <1>2. [s EXCEPT ![i] = u] \in Seq(ViewRecord)
    BY <1>1, ExceptSeq
  <1> QED BY <1>2

\* renderGraph draws, or leaves the drawing of graphs alone.
LEMMA RenderGraphDoes ==
    ASSUME Types, NEW i \in DOMAIN view, NEW u \in ViewRecord, renderGraph(i, u),
           u.id = view[i].id, u.gone = view[i].gone, u.pane = view[i].pane,
           UNCHANGED shown
    PROVE  /\ SameViews /\ DOMAIN view' = DOMAIN view
           /\ \A j \in DOMAIN view' : view'[j].gone = (j # shown')
           /\ Draws \/ Idle
  <1>1. PICK s, e : s = view /\ e = [u EXCEPT !.pane = Empty]
    OBVIOUS
  <1>2. /\ s \in Seq(ViewRecord) /\ i \in DOMAIN s
        /\ \A j \in DOMAIN s : s[j] \in ViewRecord /\ s[j].gone = (j # shown)
    BY <1>1, ViewsAre DEF Types
  <1>3. e \in ViewRecord /\ e.id = u.id /\ e.gone = u.gone /\ e.pane = Empty
    BY <1>1 DEF ViewRecord
  <1>4. PICK w \in {u, e} :
          /\ view' = [s EXCEPT ![i] = w]
          /\ \/ UNCHANGED <<vizVars, drawnFor>>
             \/ Render(DotOf[view[i].id]) /\ drawnFor' = Append(drawnFor, i)
    <2>1. CASE u.gone
      BY <2>1, <1>1 DEF renderGraph
    <2>2. CASE ~u.gone /\ u.id \in Live /\ ~isTerminal(u.run)
      BY <2>2, <1>1 DEF renderGraph
    <2>3. CASE ~u.gone /\ ~(u.id \in Live /\ ~isTerminal(u.run))
      BY <2>3, <1>1 DEF renderGraph
    <2> QED BY <2>1, <2>2, <2>3
  <1>5. w \in ViewRecord /\ w.id = s[i].id /\ w.gone = s[i].gone /\ w.pane \in {Empty, s[i].pane}
    BY <1>1, <1>3
  <1>6. /\ view' \in Seq(ViewRecord) /\ DOMAIN view' = DOMAIN s
        /\ \A j \in DOMAIN s : view'[j] = IF j = i THEN w ELSE s[j]
    BY <1>2, <1>4, <1>5, Updated
  <1>7. SameViews
    BY <1>1, <1>5, <1>6 DEF SameViews
  <1>8. \A j \in DOMAIN view' : view'[j].gone = (j # shown')
    BY <1>1, <1>2, <1>5, <1>6
  <1>9. Draws \/ Idle
    <2>1. CASE UNCHANGED <<vizVars, drawnFor>>
      BY <2>1, <1>7 DEF Idle, Quiet, vizVars
    <2>2. CASE Render(DotOf[view[i].id]) /\ drawnFor' = Append(drawnFor, i)
      BY <2>2, <1>7 DEF Draws
    <2> QED BY <2>1, <2>2, <1>4
  <1> QED BY <1>1, <1>6, <1>7, <1>8, <1>9

\* The rest of a handler that got an answer.
LEMMA AnsweredDoes ==
    ASSUME Types, NEW a \in asked, NEW r \in (0 .. Over) \cup {Unknown}, NEW p \in BOOLEAN,
           renderGraph(a.view, [view[a.view] EXCEPT !.run = r, !.polling = p]),
           asked' = asked \ {a}, UNCHANGED <<known, shown>>
    PROVE  Types' /\ (Draws \/ Idle)
  <1>1. PICK i, u : i = a.view /\ u = [view[i] EXCEPT !.run = r, !.polling = p]
    OBVIOUS
  <1>2. i \in DOMAIN view /\ view[i] \in ViewRecord
    BY <1>1, ViewsAre DEF Types, RequestRecord
  <1>3. u \in ViewRecord /\ u.id = view[i].id /\ u.gone = view[i].gone /\ u.pane = view[i].pane
    BY <1>1, <1>2 DEF ViewRecord
  <1>4. renderGraph(i, u)
    BY <1>1
  <1>5. /\ SameViews /\ DOMAIN view' = DOMAIN view
        /\ \A j \in DOMAIN view' : view'[j].gone = (j # shown')
        /\ Draws \/ Idle
    BY <1>2, <1>3, <1>4, RenderGraphDoes
  <1>6. asked' \subseteq RequestRecord'
    BY <1>5 DEF Types, RequestRecord
  <1> QED BY <1>5, <1>6 DEF Types, SameViews

LEMMA RedrawDoes ==
    ASSUME Types, NEW i \in DOMAIN view, Redraw(i)
    PROVE  Types' /\ (Draws \/ Idle)
  <1>1. view[i] \in ViewRecord
    BY ViewsAre DEF Types
  <1>2. /\ SameViews /\ DOMAIN view' = DOMAIN view
        /\ \A j \in DOMAIN view' : view'[j].gone = (j # shown')
        /\ Draws \/ Idle
    BY <1>1, RenderGraphDoes DEF Redraw
  <1>3. UNCHANGED <<known, shown, asked>> /\ asked \subseteq RequestRecord'
    BY <1>2 DEF Redraw, Types, RequestRecord
  <1> QED BY <1>2, <1>3 DEF Types, SameViews

LEMMA LeaveDoes ==
    ASSUME Types, NEW to, to \notin DOMAIN view
    PROVE  /\ Leave \in Seq(ViewRecord) /\ DOMAIN Leave = DOMAIN view
           /\ \A i \in DOMAIN view : /\ Leave[i].id = view[i].id /\ Leave[i].pane = view[i].pane
                                     /\ Leave[i].gone = (i # to)
  <1>1. PICK s : s = view
    OBVIOUS
  <1>2. /\ s \in Seq(ViewRecord) /\ Len(s) \in Nat /\ DOMAIN s = 1 .. Len(s)
        /\ \A i \in DOMAIN s : s[i] \in ViewRecord /\ s[i].gone = (i # shown)
    BY <1>1, ViewsAre DEF Types
  <1>3. \A i \in DOMAIN s :
          /\ [s[i] EXCEPT !.gone = TRUE, !.polling = FALSE] \in ViewRecord
          /\ [s[i] EXCEPT !.gone = TRUE, !.polling = FALSE].gone = TRUE
          /\ [s[i] EXCEPT !.gone = TRUE, !.polling = FALSE].id = s[i].id
          /\ [s[i] EXCEPT !.gone = TRUE, !.polling = FALSE].pane = s[i].pane
    BY <1>2 DEF ViewRecord
  <1>4. Leave = [i \in DOMAIN s |-> IF i = shown
                                    THEN [s[i] EXCEPT !.gone = TRUE, !.polling = FALSE] ELSE s[i]]
    BY <1>1 DEF Leave
  <1>5. Leave \in [1 .. Len(s) -> ViewRecord]
    BY <1>2, <1>3, <1>4
  <1>6. Leave \in Seq(ViewRecord)
    BY <1>2, <1>5, SeqDef
  <1>7. \A i \in DOMAIN s : /\ Leave[i].id = s[i].id /\ Leave[i].pane = s[i].pane
                            /\ Leave[i].gone = TRUE
    BY <1>2, <1>3, <1>4
  <1> QED BY <1>1, <1>2, <1>5, <1>6, <1>7

LEMMA ShowRunDoes ==
    ASSUME Types, NEW r \in Run, ShowRun(r)
    PROVE  Types' /\ Idle
  <1>1. PICK n, s, m : /\ n = Len(view) + 1 /\ s = Leave
                       /\ m = [id |-> r, run |-> Unknown, gone |-> FALSE, polling |-> FALSE,
                               pane |-> Empty]
    OBVIOUS
  <1>2. Len(view) \in Nat /\ DOMAIN view = 1 .. Len(view) /\ n \notin DOMAIN view
    BY <1>1, ViewsAre DEF Types
  <1>3. /\ s \in Seq(ViewRecord) /\ DOMAIN s = DOMAIN view
        /\ \A i \in DOMAIN view : /\ s[i].id = view[i].id /\ s[i].pane = view[i].pane
                                  /\ s[i].gone = (i # n)
    BY <1>1, <1>2, LeaveDoes
  <1>4. m \in ViewRecord /\ m.gone = FALSE /\ m.pane = Empty
    BY <1>1 DEF ViewRecord
  <1>5. view' = Append(s, m) /\ shown' = n /\ UNCHANGED <<vizVars, known, drawnFor>>
    BY <1>1 DEF ShowRun
  <1>6. Len(s) = Len(view)
    BY <1>2, <1>3, ViewsAre
  <1>7. /\ view' \in Seq(ViewRecord) /\ Len(view') = n /\ view'[n] = m
        /\ \A i \in DOMAIN view : view'[i] = s[i]
    BY <1>1, <1>2, <1>3, <1>4, <1>5, <1>6, AppendProperties
  <1>8. DOMAIN view' = DOMAIN view \cup {n}
    BY <1>1, <1>2, <1>7, ViewsAre
  <1>9. SameViews
    BY <1>2, <1>3, <1>4, <1>7, <1>8 DEF SameViews
  <1>10. shown' \in 0 .. MaxViews
    BY <1>1, <1>2, <1>5, DashboardAssumption DEF ShowRun
  <1>11. asked' \subseteq RequestRecord'
    <2>1. asked' = asked \cup {GetRun(n, "load")}
      BY <1>1 DEF ShowRun
    <2>2. GetRun(n, "load") \in RequestRecord'
      BY <1>8 DEF GetRun, RequestRecord
    <2>3. RequestRecord \subseteq RequestRecord'
      BY <1>8 DEF RequestRecord
    <2> QED BY <2>1, <2>2, <2>3 DEF Types
  <1>12. \A i \in DOMAIN view' : view'[i].gone = (i # shown')
    BY <1>2, <1>3, <1>4, <1>5, <1>7, <1>8
  <1>13. Types'
    BY <1>5, <1>7, <1>10, <1>11, <1>12 DEF Types
  <1> QED BY <1>5, <1>9, <1>13 DEF Idle, Quiet, vizVars

LEMMA ShowListDoes ==
    ASSUME Types, ShowList
    PROVE  Types' /\ Idle
  <1>1. 0 \notin DOMAIN view
    BY ViewsAre DEF Types
  <1>2. view' = Leave /\ shown' = 0 /\ UNCHANGED <<vizVars, known, drawnFor, asked>>
    BY DEF ShowList
  <1>3. /\ view' \in Seq(ViewRecord) /\ DOMAIN view' = DOMAIN view
        /\ \A i \in DOMAIN view : /\ view'[i].id = view[i].id /\ view'[i].pane = view[i].pane
                                  /\ view'[i].gone = (i # 0)
    BY <1>1, <1>2, LeaveDoes
  <1>4. Types'
    BY <1>2, <1>3, DashboardAssumption DEF Types, RequestRecord
  <1> QED BY <1>2, <1>3, <1>4 DEF Idle, Quiet, SameViews, vizVars

-----------------------------------------------------------------------------
(* A drawing is put into its view.                                         *)

LEMMA DrawnDoes ==
    ASSUME DInv, NEW v \in Instance, Drawn(v)
    PROVE  /\ Types' /\ UNCHANGED drawnFor
           /\ \E id \in Nat, c \in Calls, a \in Answers :
                /\ Settles(v, id, c, a)
                /\ DOMAIN view' = DOMAIN view
                /\ \A i \in DOMAIN view :
                     /\ view'[i].id = view[i].id
                     /\ view'[i].pane = IF i = drawnFor[c] THEN c ELSE view[i].pane
  <1>t. TypeOK /\ Here(v) /\ Types /\ Purpose
    BY DEF DInv, IInv
  <1>1. PICK id \in Nat, c \in Calls, a \in Answers : Settles(v, id, c, a)
    BY <1>t, MessageSettles DEF Drawn
  <1>2. listeners[v][Head(replies[v]).id] = c
    <2>1. replies[v] \in Seq(ReplyMessage) /\ replies[v] # << >>
      BY <1>t, TypedViz DEF Drawn, Message
    <2>2. Head(replies[v]) = replies[v][1]
      BY <2>1
    <2> QED BY <2>2, <1>1 DEF Settles
  <1>3. PICK s, k : s = view /\ k = drawnFor[c]
    OBVIOUS
  <1>4. /\ s \in Seq(ViewRecord) /\ k \in DOMAIN s /\ s[k] \in ViewRecord
        /\ \A i \in DOMAIN s : s[i].gone = (i # shown)
    BY <1>3, <1>t, ViewsAre DEF Types, Purpose
  <1>5. PICK w : w = [s[k] EXCEPT !.pane = c]
    OBVIOUS
  <1>6. w \in ViewRecord /\ w.id = s[k].id /\ w.gone = s[k].gone /\ w.pane = c
    <2>1. c \in 1 .. MaxCalls
      BY <1>t, Typed
    <2> QED BY <2>1, <1>4, <1>5 DEF ViewRecord
  <1>7. view' = [s EXCEPT ![k] = w]
    <2>1. view' = [view EXCEPT ![drawnFor[c]].pane = c]
      BY <1>2 DEF Drawn
    <2>2. view' = [view EXCEPT ![k] = [view[k] EXCEPT !.pane = c]]
      BY <2>1, <1>3
    <2> QED BY <2>2, <1>3, <1>5
  <1>8. /\ view' \in Seq(ViewRecord) /\ DOMAIN view' = DOMAIN s
        /\ \A i \in DOMAIN s : view'[i] = IF i = k THEN w ELSE s[i]
    BY <1>4, <1>6, <1>7, Updated
  <1>9. UNCHANGED <<known, shown, drawnFor, asked>>
    BY DEF Drawn
  <1>10. Types'
    <2>1. \A i \in DOMAIN view' : view'[i].gone = (i # shown')
      BY <1>4, <1>6, <1>8, <1>9
    <2>2. asked' \subseteq RequestRecord'
      BY <1>3, <1>8, <1>9, <1>t DEF Types, RequestRecord
    <2> QED BY <2>1, <2>2, <1>8, <1>9, <1>t DEF Types
  <1>11. \A i \in DOMAIN view :
           /\ view'[i].id = view[i].id
           /\ view'[i].pane = IF i = drawnFor[c] THEN c ELSE view[i].pane
    BY <1>3, <1>6, <1>8
  <1> QED BY <1>1, <1>3, <1>8, <1>9, <1>10, <1>11

-----------------------------------------------------------------------------
(* The kinds of steps.                                                     *)

LEMMA StepIsKind ==
    ASSUME DInv, [DashNext]_vars
    PROVE  /\ Types'
           /\ \/ Draws \/ Idle \/ Puts
              \/ /\ Quiet
                 /\ \E v \in Instance : Load(v) \/ Answer(v)
  <1>t. Types
    BY DEF DInv
  <1>s. UNCHANGED view => SameViews
    BY <1>t DEF SameViews, Types
  <1>1. ASSUME NEW r \in Run, ShowRun(r) PROVE Types' /\ Idle
    BY <1>1, <1>t, ShowRunDoes
  <1>2. CASE ShowList
    BY <1>2, <1>t, ShowListDoes
  <1>3. ASSUME NEW r \in Run, Advance(r) PROVE Types' /\ Idle
    <2>1. UNCHANGED <<vizVars, shown, view, drawnFor, asked>> /\ known' = [known EXCEPT ![r] = @ + 1]
          /\ known[r] < Over
      BY <1>3 DEF Advance
    <2>2. known' \in [Run -> 0 .. Over]
      BY <2>1, <1>t, DashboardAssumption DEF Types
    <2> QED BY <2>1, <2>2, <1>t, <1>s DEF Types, RequestRecord, Idle, Quiet, vizVars
  <1>4. ASSUME NEW i \in DOMAIN view, Tick(i) \/ Cancel(i) PROVE Types' /\ Idle
    <2>1. /\ UNCHANGED <<vizVars, known, shown, view, drawnFor>>
          /\ \E by \in {"poll", "cancel"} : asked' = asked \cup {GetRun(i, by)}
      BY <1>4 DEF Tick, Cancel
    <2>2. asked' \subseteq RequestRecord'
      <3>1. \A by \in {"poll", "cancel"} : GetRun(i, by) \in RequestRecord
        BY DEF GetRun, RequestRecord
      <3>2. RequestRecord' = RequestRecord
        BY <2>1 DEF RequestRecord
      <3> QED BY <3>1, <3>2, <2>1, <1>t DEF Types
    <2> QED BY <2>1, <2>2, <1>t, <1>s DEF Types, Idle, Quiet, vizVars
  <1>5. ASSUME NEW a \in asked, Serve(a) PROVE Types' /\ Idle
    <2>1. UNCHANGED <<vizVars, known, shown, view, drawnFor>>
      BY <1>5 DEF Serve
    <2>2. PICK b : b = [a EXCEPT !.seen = known[view[a.view].id]]
      OBVIOUS
    <2>3. b \in RequestRecord
      <3>1. a \in RequestRecord /\ a.view \in DOMAIN view
        BY <1>t DEF Types, RequestRecord
      <3>2. view[a.view].id \in Run
        BY <3>1, <1>t, ViewsAre DEF Types, ViewRecord
      <3>3. known[view[a.view].id] \in 0 .. Over
        BY <3>2, <1>t DEF Types
      <3> QED BY <3>1, <3>3, <2>2 DEF RequestRecord
    <2>4. asked' = (asked \ {a}) \cup {b}
      BY <2>2, <1>5 DEF Serve
    <2>5. asked' \subseteq RequestRecord'
      BY <2>1, <2>3, <2>4, <1>t DEF Types, RequestRecord
    <2> QED BY <2>1, <2>5, <1>t, <1>s DEF Types, Idle, Quiet, vizVars
  <1>6. ASSUME NEW a \in asked, Loaded(a) \/ Polled(a) \/ Refetched(a)
        PROVE  Types' /\ (Draws \/ Idle)
    <2>1. a \in RequestRecord /\ a.seen \in (0 .. Over) \cup {Unknown} /\ a.view \in DOMAIN view
      BY <1>t DEF Types, RequestRecord
    <2>2. view[a.view] \in ViewRecord
      BY <2>1, <1>t, ViewsAre DEF Types
    <2>3. asked' = asked \ {a} /\ UNCHANGED <<known, shown>>
      BY <1>6 DEF Loaded, Polled, Refetched
    <2>4. PICK p \in BOOLEAN :
            renderGraph(a.view, [view[a.view] EXCEPT !.run = a.seen, !.polling = p])
      <3>1. view[a.view].polling \in BOOLEAN
        BY <2>2 DEF ViewRecord
      <3>2. [view[a.view] EXCEPT !.run = a.seen] =
              [view[a.view] EXCEPT !.run = a.seen, !.polling = view[a.view].polling]
        BY <2>2 DEF ViewRecord
      <3>3. CASE Loaded(a)
        BY <3>3 DEF Loaded, isTerminal
      <3>4. CASE Polled(a)
        BY <3>4, <3>1 DEF Polled, isTerminal
      <3>5. CASE Refetched(a)
        BY <3>5, <3>1, <3>2 DEF Refetched
      <3> QED BY <3>3, <3>4, <3>5, <1>6
    <2> QED BY <2>1, <2>3, <2>4, <1>t, AnsweredDoes
  <1>7. ASSUME NEW v \in Instance, Worker(v)
        PROVE  Types' /\ Quiet /\ (Load(v) \/ Answer(v))
    <2>1. UNCHANGED <<known, shown, view, drawnFor, asked, calls>> /\ (Load(v) \/ Answer(v))
      BY <1>7 DEF Worker, Load, Answer
    <2> QED BY <2>1, <1>t, <1>s DEF Types, RequestRecord, Quiet
  <1>8. ASSUME NEW v \in Instance, Drawn(v) PROVE Types' /\ Puts
    BY <1>8, DrawnDoes DEF Puts
  <1>9. ASSUME NEW i \in DOMAIN view, Redraw(i) PROVE Types' /\ (Draws \/ Idle)
    BY <1>9, <1>t, RedrawDoes
  <1>10. CASE UNCHANGED vars
    BY <1>10, <1>t, <1>s DEF vars, Types, RequestRecord, Idle, Quiet, vizVars
  <1> QED BY <1>1, <1>2, <1>3, <1>4, <1>5, <1>6, <1>7, <1>8, <1>9, <1>10 DEF DashNext

\* Every step of the page is one of Viz or leaves Viz alone.
LEMMA StepDraws ==
    ASSUME DInv, [DashNext]_vars
    PROVE  [Next]_vizVars
  <1>1. CASE Draws
    <2>1. PICK i \in DOMAIN view : Render(DotOf[view[i].id])
      BY <1>1 DEF Draws
    <2>2. view[i].id \in Run
      BY ViewsAre DEF DInv, Types, ViewRecord
    <2>3. DotOf[view[i].id] \in Source
      BY <2>2, DashboardAssumption
    <2> QED BY <2>1, <2>3 DEF Next
  <1>2. CASE Idle
    BY <1>2 DEF Idle
  <1>3. CASE Puts
    BY <1>3 DEF Puts, Drawn, Next
  <1>4. CASE \E v \in Instance : Load(v) \/ Answer(v)
    BY <1>4 DEF Next
  <1> QED BY <1>1, <1>2, <1>3, <1>4, StepIsKind

-----------------------------------------------------------------------------
(* What the steps preserve.                                                *)

LEMMA QuietKeeps ==
    ASSUME DInv, IInv', Types', Quiet
    PROVE  DInv'
  <1>1. /\ calls' = calls /\ drawnFor' = drawnFor /\ Calls' = Calls
        /\ DOMAIN view \subseteq DOMAIN view'
    BY DEF Quiet, SameViews, Calls
  <1>2. \A i \in DOMAIN view' :
          /\ i \in DOMAIN view => view'[i].id = view[i].id
          /\ view'[i].pane # Empty => i \in DOMAIN view /\ view'[i].pane = view[i].pane
    BY DEF Quiet, SameViews
  <1>3. Purpose'
    BY <1>1, <1>2 DEF DInv, Purpose
  <1>4. Panes'
    BY <1>1, <1>2 DEF DInv, Panes
  <1>5. InStep'
    BY <1>1, <1>2 DEF DInv, InStep, NoFailure
  <1>6. Distinct'
    BY <1>1 DEF DInv, Distinct
  <1> QED BY <1>3, <1>4, <1>5, <1>6 DEF DInv

\* The log after a call of GraphRenderer.render.
LEMMA LogAsked ==
    ASSUME IInv, NEW src \in Source, Render(src)
    PROVE  /\ Len(calls) + 1 \notin Calls /\ Calls' = Calls \cup {Len(calls) + 1}
           /\ \A c \in Calls : calls'[c] = calls[c] /\ c < Len(calls) + 1
           /\ calls'[Len(calls) + 1].src = src /\ calls'[Len(calls) + 1].answer = Pending
           /\ calls'[Len(calls) + 1].id = nextId[calls'[Len(calls) + 1].on]
  <1>1. PICK s, t, new, v, r :
          /\ s = calls /\ t = calls' /\ new = Len(s) + 1 /\ t = Append(s, r)
          /\ r.src = src /\ r.answer = Pending /\ r.on = v /\ r.id = nextId[v]
    <2>1. PICK v : v = IF viz = 0 THEN NewViz ELSE viz
      OBVIOUS
    <2>2. PICK r : r = [src |-> src, on |-> v, id |-> nextId[v], answer |-> Pending,
                        behind |-> {c \in Calls : calls[c].answer = Pending}]
      OBVIOUS
    <2>3. calls' = Append(calls, r)
      BY <2>1, <2>2 DEF Render
    <2>4. r.src = src /\ r.answer = Pending /\ r.on = v /\ r.id = nextId[v]
      BY <2>2
    <2> QED BY <2>3, <2>4
  <1>2. s \in Seq(CallRecord) /\ Len(s) \in Nat /\ DOMAIN s = 1 .. Len(s)
    BY <1>1 DEF IInv, TypeOK
  <1>3. DOMAIN t = 1 .. new /\ t[new] = r /\ \A c \in 1 .. Len(s) : t[c] = s[c]
    BY <1>1, <1>2
  <1>4. Calls = 1 .. Len(s) /\ Calls' = 1 .. new
    BY <1>1, <1>2, <1>3 DEF Calls
  <1> QED BY <1>1, <1>2, <1>3, <1>4

LEMMA DrawsKeeps ==
    ASSUME DInv, IInv', Types', Draws
    PROVE  DInv'
  <1>1. PICK i \in DOMAIN view :
          Render(DotOf[view[i].id]) /\ drawnFor' = Append(drawnFor, i)
    BY DEF Draws
  <1>2. DotOf[view[i].id] \in Source
    <2>1. view[i].id \in Run
      BY ViewsAre DEF DInv, Types, ViewRecord
    <2> QED BY <2>1, DashboardAssumption
  <1>3. PICK new : new = Len(calls) + 1
    OBVIOUS
  <1>4. /\ new \notin Calls /\ Calls' = Calls \cup {new}
        /\ \A c \in Calls : calls'[c] = calls[c] /\ c < new
        /\ calls'[new].src = DotOf[view[i].id] /\ calls'[new].answer = Pending
        /\ calls'[new].id = nextId[calls'[new].on]
    BY <1>1, <1>2, <1>3, LogAsked DEF DInv
  <1>5. Calls = 1 .. Len(calls) /\ Len(calls) \in Nat
    BY Typed DEF DInv, IInv
  <1>6. /\ drawnFor' \in Seq(Nat) /\ DOMAIN drawnFor' = Calls'
        /\ drawnFor'[new] = i /\ \A c \in Calls : drawnFor'[c] = drawnFor[c]
    <2>1. PICK s : s = drawnFor
      OBVIOUS
    <2>2. s \in Seq(Nat) /\ DOMAIN s = 1 .. Len(calls)
      BY <2>1, <1>5 DEF DInv, Purpose
    <2>3. Len(s) = Len(calls)
      BY <2>2, <1>5
    <2>4. i \in Nat
      BY ViewsAre DEF DInv, Types
    <2>5. /\ Append(s, i) \in Seq(Nat) /\ Len(Append(s, i)) = new /\ Append(s, i)[new] = i
          /\ \A c \in 1 .. Len(s) : Append(s, i)[c] = s[c]
      BY <2>2, <2>3, <2>4, <1>3, AppendProperties
    <2>6. DOMAIN Append(s, i) = 1 .. new
      BY <2>5
    <2> QED BY <2>1, <2>3, <2>5, <2>6, <1>1, <1>3, <1>4, <1>5
  <1>7. /\ DOMAIN view \subseteq DOMAIN view'
        /\ \A j \in DOMAIN view' :
             /\ j \in DOMAIN view => view'[j].id = view[j].id
             /\ view'[j].pane # Empty => j \in DOMAIN view /\ view'[j].pane = view[j].pane
    BY DEF Draws, SameViews
  <1>8. Purpose'
    BY <1>4, <1>6, <1>7 DEF DInv, Purpose
  <1>9. Panes'
    BY <1>4, <1>6, <1>7 DEF DInv, Panes
  <1>10. InStep'
    <2> SUFFICES ASSUME NoFailure', NEW j \in DOMAIN view', NEW c \in Calls',
                        view'[j].pane # Empty, c > view'[j].pane, drawnFor'[c] = j
                 PROVE  calls'[c].answer = Pending
      BY DEF InStep
    <2>1. NoFailure
      BY <1>4 DEF NoFailure
    <2>2. CASE c = new
      BY <2>2, <1>4
    <2>3. CASE c \in Calls
      BY <2>1, <2>3, <1>4, <1>6, <1>7 DEF DInv, InStep
    <2> QED BY <2>2, <2>3, <1>4
  <1>11. Distinct'
    <2>1. ASSUME NEW c \in Calls
          PROVE  ~ (calls'[c].on = calls'[new].on /\ calls'[c].id = calls'[new].id)
      <3>1. calls[c].id < nextId[calls[c].on] /\ calls[c] \in CallRecord
        BY Typed DEF DInv, IInv, Logged
      <3>2. calls[c].on \in Instance /\ calls[c].id \in Nat
        BY <3>1 DEF CallRecord
      <3>3. calls[c].id # nextId[calls[c].on]
        BY <3>1, <3>2
      <3> QED BY <3>3, <1>4
    <2> QED BY <2>1, <1>4 DEF DInv, Distinct
  <1> QED BY <1>8, <1>9, <1>10, <1>11 DEF DInv

LEMMA PutsKeeps ==
    ASSUME DInv, IInv', Types', Puts
    PROVE  DInv'
  <1>1. PICK v \in Instance : Drawn(v)
    BY DEF Puts
  <1>t. TypeOK /\ Counted /\ Types /\ Purpose /\ Panes /\ InStep /\ Distinct
    BY DEF DInv, IInv
  <1>2. PICK id \in Nat, c \in Calls, a \in Answers :
          /\ Settles(v, id, c, a)
          /\ DOMAIN view' = DOMAIN view
          /\ \A i \in DOMAIN view :
               /\ view'[i].id = view[i].id
               /\ view'[i].pane = IF i = drawnFor[c] THEN c ELSE view[i].pane
    BY <1>1, DrawnDoes
  <1>3. drawnFor' = drawnFor
    BY <1>1 DEF Drawn
  <1>4. /\ Calls' = Calls
        /\ \A d \in Calls : /\ calls'[d].src = calls[d].src /\ calls'[d].on = calls[d].on
                           /\ calls'[d].id = calls[d].id
                           /\ calls'[d].answer = IF d = c THEN a ELSE calls[d].answer
    <2>1. calls' = [calls EXCEPT ![c].answer = a]
      BY <1>2 DEF Settles
    <2> QED BY <2>1, <1>t, LogSettled
  <1>5. Purpose'
    BY <1>2, <1>3, <1>4, <1>t DEF Purpose
  <1>6. Panes'
    BY <1>2, <1>3, <1>4, <1>t DEF Panes
  <1>7. Distinct'
    BY <1>4, <1>t DEF Distinct
  <1>8. ASSUME NoFailure', NEW d \in Calls, d > c PROVE calls[d].answer = Pending
    <2>1. NoFailure
      <3>1. Pending # Failed
        BY VizAssumption
      <3> QED BY <3>1, <1>2, <1>4, <1>8 DEF NoFailure, Settles
    <2>2. viz = 1
      <3>1. Fails = {} /\ calls # << >>
        BY <2>1, EmptySeq DEF NoFailure, Fails, Calls
      <3> QED BY <3>1, <1>t, FS_EmptySet DEF Counted
    <2>3. \A e \in Calls : Logged(e) /\ calls[e] \in CallRecord
      BY Typed DEF DInv, IInv
    <2>4. \A e \in Calls : calls[e].on = 1 /\ calls[e].id \in Nat
      BY <2>2, <2>3 DEF Logged, CallRecord, Instance
    <2>5. Ordered(c, d) /\ c \in Nat /\ d \in Nat
      BY <1>t, Typed DEF DInv, IInv
    <2>6. ~ (calls[d].id < calls[c].id)
      BY <2>4, <2>5, <1>8 DEF Ordered
    <2>7. calls[d].id # calls[c].id
      BY <2>4, <2>5, <1>8, <1>t DEF Distinct
    <2>8. PICK k \in Nat : k = calls[d].id
      BY <2>4
    <2>9. v = 1 /\ id < k /\ k < nextId[v]
      BY <2>3, <2>4, <2>6, <2>7, <2>8, <1>2 DEF Settles, Logged
    <2>10. PICK n, D, q, p : /\ n = nextId[v] /\ D = DOMAIN listeners[v]
                             /\ q = requests[v] /\ p = replies[v]
      OBVIOUS
    <2>11. n \in Nat /\ q \in Seq(RequestMessage) /\ p \in Seq(ReplyMessage) /\ Match(n, D, q, p)
      BY <2>10, <1>t, TypedViz DEF DInv, IInv, Here, Matched
    <2>12. D = (n - (Len(q) + Len(p))) .. (n - 1) /\ Len(q) + Len(p) \in Nat
      BY <2>11 DEF Match
    <2>13. id \in D
      BY <2>10, <1>2 DEF Settles
    <2>14. k \in D
      <3>1. PICK l \in Nat : l = Len(q) + Len(p)
        BY <2>12
      <3>2. D = (n - l) .. (n - 1) /\ n \in Nat
        BY <3>1, <2>11, <2>12
      <3>3. n - l <= id
        BY <3>2, <2>13
      <3>4. k < n
        BY <2>9, <2>10
      <3> QED BY <3>1, <3>2, <3>3, <3>4, <2>9
    <2>15. /\ listeners[v][k] \in Calls /\ calls[listeners[v][k]].id = k
           /\ calls[listeners[v][k]].answer = Pending
      BY <2>10, <2>14 DEF DInv, IInv, Here, Heard, Caller
    <2>16. listeners[v][k] = d
      BY <2>4, <2>8, <2>15, <1>t DEF Distinct
    <2> QED BY <2>15, <2>16
  <1>9. InStep'
    <2> SUFFICES ASSUME NoFailure', NEW i \in DOMAIN view, NEW d \in Calls,
                        view'[i].pane # Empty, d > view'[i].pane, drawnFor[d] = i
                 PROVE  calls'[d].answer = Pending
      BY <1>2, <1>3, <1>4 DEF InStep
    <2>1. CASE i = drawnFor[c]
      <3>1. d > c
        BY <2>1, <1>2
      <3>2. d # c /\ calls[d].answer = Pending
        BY <3>1, <1>8, <1>t, Typed
      <3> QED BY <3>2, <1>4
    <2>2. CASE i # drawnFor[c]
      <3>1. NoFailure
        <4>1. Pending # Failed
          BY VizAssumption
        <4> QED BY <4>1, <1>2, <1>4 DEF NoFailure, Settles
      <3>2. view'[i].pane = view[i].pane /\ d # c
        BY <2>2, <1>2
      <3>3. calls[d].answer = Pending
        BY <3>1, <3>2, <1>t DEF InStep
      <3> QED BY <3>2, <3>3, <1>4
    <2> QED BY <2>1, <2>2
  <1> QED BY <1>5, <1>6, <1>7, <1>9 DEF DInv

-----------------------------------------------------------------------------
(* The theorems.                                                           *)

LEMMA DashStep ==
    ASSUME DInv, [DashNext]_vars
    PROVE  DInv'
  <1>1. [Next]_vizVars
    BY StepDraws
  <1>2. IInv'
    BY <1>1, Step DEF DInv
  <1>3. /\ Types'
        /\ Draws \/ Quiet \/ Puts
    BY StepIsKind DEF Idle
  <1> QED BY <1>2, <1>3, QuietKeeps, DrawsKeeps, PutsKeeps

LEMMA DashInductive == DashSpec => []DInv
  BY DashInitHolds, DashStep, PTL DEF DashSpec

\* The page is a user of Viz: what VizProofs shows of graphs, messages and
\* promises holds while views come and go (index.html:545).
THEOREM PageDraws == DashSpec => Spec
  <1>1. DashInit => Init
    BY DEF DashInit
  <1>2. DInv /\ [DashNext]_vars => [Next]_vizVars
    BY StepDraws
  <1> QED BY <1>1, <1>2, DashInductive, PTL DEF DashSpec, Spec

\* DashTypeOK: every drawing under way has its view, and one view at most is
\* not gone.
THEOREM PageTypeCorrect == DashSpec => []DashTypeOK
  <1>1. DInv => DashTypeOK
    BY DEF DInv, IInv, Types, RequestRecord, Purpose, DashTypeOK
  <1> QED BY <1>1, DashInductive, PTL

\* PaneInStep: a view shows a graph of its own run and, while none failed, the
\* last one it was given, whatever the order in which requests are answered.
THEOREM PanesAreInStep == DashSpec => []PaneInStep
  <1>1. DInv => PaneInStep
    <2> SUFFICES ASSUME DInv, NEW i \in DOMAIN view, view[i].pane # Empty
                 PROVE  /\ calls[view[i].pane].src = DotOf[view[i].id]
                        /\ (\A c \in Calls : calls[c].answer # Failed) =>
                             \A c \in Calls : c > view[i].pane /\ drawnFor[c] = i =>
                                              calls[c].answer = Pending
      BY DEF PaneInStep
    <2>1. view[i].pane \in Calls /\ drawnFor[view[i].pane] = i
      BY DEF DInv, Panes
    <2>2. calls[view[i].pane].src = DotOf[view[i].id]
      BY <2>1 DEF DInv, Purpose
    <2> QED BY <2>2 DEF DInv, InStep, NoFailure
  <1> QED BY <1>1, DashInductive, PTL
=============================================================================
