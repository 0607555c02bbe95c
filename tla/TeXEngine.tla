----------------------------- MODULE TeXEngine -----------------------------
(***************************************************************************)
(* The typesetting of output cells: the engine that renders all requests   *)
(* which need it with one run of LaTeX and dvipng                          *)
(* (frontend/common/TeXEngine.cc), the views that show the pictures        *)
(* (frontend/gtkmm/TeXView.cc) and the parts of the notebook window that   *)
(* create, remove and redraw them.                                         *)
(*                                                                         *)
(* Every view holds one request of the engine, so a request is named by    *)
(* its view.  A handler of the GUI thread, and LaTeX runs inside of it, is *)
(* one step.  What a picture shows is kept: the view whose text it is, and *)
(* the geometry it was made for.  A view does not copy the picture: shown  *)
(* differs from image as soon as the engine decodes another one.           *)
(***************************************************************************)
EXTENDS Naturals, FiniteSets, Functions

CONSTANTS View,       \* cells with a picture, on any canvas
          Width,      \* widths of the window
          Scale,      \* text scaling factors of the desktop
          MaxFaults,  \* bound: failures other than those of a bad text
          None

Geometry == [width : Width, scale : Scale]
Picture  == [of : View, at : Geometry]

ASSUME TeXAssumptions ==
  /\ IsFiniteSet(View)
  /\ MaxFaults \in Nat
  /\ None \notin Picture

VARIABLES
  \* the engine
  requests,    \* the views whose request is checked in
  needs,       \* needs_generating
  image,       \* image_, a picture or None
  geometry,    \* horizontal_pixels_ and scale_
  cwd,         \* working directory of the program
  \* the views
  kind,        \* "none", "refreshed": output and latex_view cells,
               \* "static": error and verbatim cells
  text,        \* whether LaTeX can typeset the text
  shown,       \* what the widget's pixbuf points to
  visible,
  \* the window
  alive,       \* no exception has left a handler of the main loop
  \* history
  dropped,     \* requests whose flag a failed run of LaTeX cleared
  faults

engineVars == <<requests, needs, image, geometry, cwd>>
viewVars   == <<kind, text, shown, visible>>
vars == <<engineVars, viewVars, alive, dropped, faults>>

Live == {v \in View : kind[v] # "none"}

Init ==
  /\ requests = {} /\ needs = [v \in View |-> FALSE]
  /\ image = [v \in View |-> None]
  /\ geometry \in Geometry
  /\ cwd = "home"
  /\ kind = [v \in View |-> "none"] /\ text = [v \in View |-> "good"]
  /\ shown = [v \in View |-> None] /\ visible = {}
  /\ alive = TRUE /\ dropped = {} /\ faults = 0

(***************************************************************************)
(* convert_set.  The requests are visited in the order of their addresses: *)
(* addr gives every request its place among them.                          *)
(***************************************************************************)
Pending(flags) == {v \in requests : flags[v]}
Orders == Injection(requests, 1..Cardinality(requests))

\* The page of the document on which the text of a request is written.
PageWritten(addr, flags, v) ==
  Cardinality({u \in Pending(flags) : addr[u] <= addr[v]})

\* The page whose file the loop over the results opens for a request.
PageRead(addr, flags, v) ==
  Cardinality({u \in requests : addr[u] <= addr[v] /\ flags[u]})

Mutant_TextOnPage(addr, flags, v) ==   \* the position among all requests
  LET page   == Cardinality({u \in requests : addr[u] <= addr[v]})
      onPage == {u \in Pending(flags) : PageWritten(addr, flags, u) = page}
  IN IF onPage = {} THEN v ELSE CHOOSE u \in onPage : TRUE

\* The text on the page that is read for a request.
TextOnPage(addr, flags, v) ==
  CHOOSE u \in Pending(flags) :
    PageWritten(addr, flags, u) = PageRead(addr, flags, v)

\* The outcome of a conversion: an error, the flags, pictures and working
\* directory it leaves, and the requests whose flag it cleared unrendered.
Outcome(error, flags, pictures, dir, unrendered) ==
  [error |-> error, needs |-> flags, image |-> pictures, cwd |-> dir,
   dropped |-> unrendered]

Mutant_Converted(addr, flags, at, missing) ==  \* flags cleared for any page
  LET done == Pending(flags) \ missing
  IN Outcome(FALSE, [v \in View |-> FALSE],
       [v \in View |-> IF v \in done
                       THEN [of |-> TextOnPage(addr, flags, v), at |-> at]
                       ELSE image[v]], cwd, dropped \ done)

\* No page of "missing" has a file: those requests are left as they were.
Converted(addr, flags, at, missing) ==
  LET done == Pending(flags) \ missing
  IN Outcome(FALSE, [v \in View |-> flags[v] /\ v \notin done],
       [v \in View |-> IF v \in done
                       THEN [of |-> TextOnPage(addr, flags, v), at |-> at]
                       ELSE image[v]], cwd, dropped \ done)

\* LaTeX fails: the flags of all requests are cleared.
LatexFailed(flags) ==
  Outcome(TRUE, [v \in View |-> FALSE], image, cwd,
          dropped \cup Pending(flags))

\* dvipng cannot run: pictures are dropped, the flags stay.
DvipngFailed(flags) ==
  Outcome(TRUE, flags,
          [v \in View |-> IF v \in Pending(flags) THEN None ELSE image[v]],
          cwd, dropped)

\* A file cannot be decoded: the requests after it are not visited and the
\* working directory is not restored.
DecodeFailed(addr, flags, at, bad) ==
  LET page(v) == PageRead(addr, flags, v)
      done    == {v \in Pending(flags) : page(v) < page(bad)}
  IN Outcome(TRUE, [v \in View |-> flags[v] /\ v \notin done],
       [v \in View |->
          CASE v \in done -> [of |-> TextOnPage(addr, flags, v), at |-> at]
            [] v = bad    -> None
            [] OTHER      -> image[v]], "tmp", dropped \ done)

\* The temporary file cannot be made or written.
TempFailed(flags) == Outcome(TRUE, flags, image, "tmp", dropped)

\* What LaTeX makes of the requests, for any order of them.
Typeset(flags, at) ==
  IF \E v \in Pending(flags) : text[v] = "bad" THEN {LatexFailed(flags)}
  ELSE {Converted(addr, flags, at, {}) : addr \in Orders}

\* What any other failure leaves.
Failures(flags, at) ==
  {LatexFailed(flags), DvipngFailed(flags), TempFailed(flags)}
    \cup {DecodeFailed(addr, flags, at, v) :
             addr \in Orders, v \in Pending(flags)}
    \cup {Converted(addr, flags, at, missing) :
             addr \in Orders, missing \in SUBSET Pending(flags) \ {{}}}

\* convert_all, with the flags the handler has set before it.
Conversions(flags, at) ==
  IF Pending(flags) = {}
  THEN {[outcome |-> Outcome(FALSE, flags, image, cwd, dropped), fault |-> 0]}
  ELSE {[outcome |-> o, fault |-> 0] : o \in Typeset(flags, at)}
         \cup {[outcome |-> o, fault |-> 1] :
                  o \in IF faults < MaxFaults THEN Failures(flags, at) ELSE {}}

Convert(conversion) ==
  /\ faults' = faults + conversion.fault
  /\ needs' = conversion.outcome.needs
  /\ image' = conversion.outcome.image
  /\ cwd' = conversion.outcome.cwd
  /\ dropped' = conversion.outcome.dropped

(***************************************************************************)
(* The handlers.                                                           *)
(***************************************************************************)
\* NotebookWindow::add_cell makes a TeXView, which checks in a request.
AddCell(v, k, t) ==
  /\ kind[v] = "none"
  /\ kind' = [kind EXCEPT ![v] = k]
  /\ text' = [text EXCEPT ![v] = t]
  /\ shown' = [shown EXCEPT ![v] = None]
  /\ requests' = requests \cup {v}
  /\ needs' = [needs EXCEPT ![v] = TRUE]
  /\ image' = [image EXCEPT ![v] = None]
  /\ UNCHANGED <<geometry, cwd, visible, alive, dropped, faults>>

\* TeXView::on_show: after an error the widget is not shown.
Show(v) ==
  /\ kind[v] # "none" /\ v \notin visible
  /\ \E c \in Conversions(needs, geometry) :
       /\ Convert(c)
       /\ IF c.outcome.error
          THEN UNCHANGED <<shown, visible>>
          ELSE /\ visible' = visible \cup {v}
               /\ shown' = IF image'[v] = None THEN shown
                           ELSE [shown EXCEPT ![v] = image'[v]]
  /\ UNCHANGED <<requests, geometry, kind, text, alive>>

\* NotebookWindow::remove_cell deletes the view, which checks its request out.
RemoveCell(v) ==
  /\ kind[v] # "none"
  /\ requests' = requests \ {v}
  /\ kind' = [kind EXCEPT ![v] = "none"]
  /\ text' = [text EXCEPT ![v] = "good"]
  /\ shown' = [shown EXCEPT ![v] = None]
  /\ needs' = [needs EXCEPT ![v] = FALSE]
  /\ image' = [image EXCEPT ![v] = None]
  /\ visible' = visible \ {v}
  /\ dropped' = dropped \ {v}
  /\ UNCHANGED <<geometry, cwd, alive, faults>>

\* NotebookWindow::remove_all_cells, before another document is loaded.
RemoveAll ==
  /\ Live # {}
  /\ requests' = {}
  /\ kind' = [v \in View |-> "none"] /\ text' = [v \in View |-> "good"]
  /\ shown' = [v \in View |-> None] /\ visible' = {}
  /\ needs' = [v \in View |-> FALSE] /\ image' = [v \in View |-> None]
  /\ dropped' = {}
  /\ UNCHANGED <<geometry, cwd, alive, faults>>

\* invalidate_all
Invalidated == [v \in View |-> v \in requests]

Mutant_RefreshAll(pictures) == shown   \* pictures assumed to be shared

\* NotebookCanvas::refresh_all: update_image of the refreshed kinds.
RefreshAll(pictures) ==
  [v \in View |-> IF kind[v] = "refreshed" THEN pictures[v] ELSE shown[v]]

\* on_configure_event with another width: set_geometry, invalidate_all,
\* convert_all, and without an error refresh_all.
Resize(w) ==
  /\ w # geometry.width
  /\ geometry' = [geometry EXCEPT !.width = w]
  /\ \E c \in Conversions(Invalidated, geometry') :
       /\ Convert(c)
       /\ shown' = IF c.outcome.error THEN shown
                   ELSE RefreshAll(c.outcome.image)
  /\ UNCHANGED <<requests, kind, text, visible, alive>>

\* on_text_scaling_factor_changed: the same without a try block, so that an
\* error leaves the signal handler.
Rescale(s) ==
  /\ s # geometry.scale
  /\ geometry' = [geometry EXCEPT !.scale = s]
  /\ \E c \in Conversions(Invalidated, geometry') :
       /\ Convert(c)
       /\ alive' = ~c.outcome.error
       /\ shown' = IF c.outcome.error THEN shown
                   ELSE RefreshAll(c.outcome.image)
  /\ UNCHANGED <<requests, kind, text, visible>>

Next ==
  /\ alive
  /\ \/ \E v \in View, k \in {"refreshed", "static"}, t \in {"good", "bad"} :
          AddCell(v, k, t)
     \/ \E v \in View : Show(v) \/ RemoveCell(v)
     \/ RemoveAll
     \/ \E w \in Width : Resize(w)
     \/ \E s \in Scale : Rescale(s)

Spec == Init /\ [][Next]_vars

(***************************************************************************)
(* Properties.                                                             *)
(***************************************************************************)
\* Type invariant; the engine holds exactly the requests of the views that
\* exist, which checkout asserts.
TypeOK ==
  /\ requests = Live
  /\ needs \in [View -> BOOLEAN]
  /\ image \in [View -> Picture \cup {None}]
  /\ geometry \in Geometry /\ cwd \in {"home", "tmp"}
  /\ kind \in [View -> {"none", "refreshed", "static"}]
  /\ text \in [View -> {"good", "bad"}]
  /\ shown \in [View -> Picture \cup {None}]
  /\ visible \subseteq Live
  /\ alive \in BOOLEAN /\ dropped \subseteq Live
  /\ faults \in 0..MaxFaults

\* A request's picture is that of its own text, whatever order the requests
\* are visited in, and whichever of them needed no page or had none: the
\* pages are counted when the document is written and again when the files
\* are read.
ImageIsOfOwnText == \A v \in View : image[v] # None => image[v].of = v

\* A request that is not flagged has a picture for the present width and
\* scale, unless a run of LaTeX that failed has cleared the flag.
UnflaggedIsCurrent ==
  \A v \in Live : ~needs[v] /\ v \notin dropped =>
    image[v] # None /\ image[v].at = geometry

\* What an output or latex_view cell shows is the engine's present picture of
\* it (the pixbuf points into the engine's memory, which the next conversion
\* reuses), and there is one: only a conversion that failed, or a page that was
\* missing, can leave the cell behind.
ShownIsCurrent ==
  \A v \in visible :
    kind[v] = "refreshed" /\ faults = 0 /\ v \notin dropped =>
      shown[v] # None /\ shown[v] = image[v]
=============================================================================
