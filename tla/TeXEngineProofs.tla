-------------------------- MODULE TeXEngineProofs --------------------------
(***************************************************************************)
(* Proofs about the typesetting engine and its views, for any views,       *)
(* widths, scales and number of failures.                                  *)
(***************************************************************************)
EXTENDS TeXEngine, FiniteSetTheorems, TLAPS

\* What is visible needs no conversion, as long as nothing but LaTeX failed:
\* a conversion renders all requests, not only that of the cell shown.
VisibleNeedsNothing == faults = 0 => \A v \in visible : ~needs[v]

\* The inductive invariant.
IInv == /\ TypeOK /\ ImageIsOfOwnText /\ UnflaggedIsCurrent
        /\ VisibleNeedsNothing /\ ShownIsCurrent

-----------------------------------------------------------------------------
\* The requests are finitely many.
LEMMA FinitelyManyRequests ==
  ASSUME TypeOK, NEW S \in SUBSET requests
  PROVE  IsFiniteSet(S) /\ Cardinality(S) \in Nat
<1>1. S \subseteq View
  BY DEF TypeOK, Live
<1> QED
  BY <1>1, TeXAssumptions, FS_Subset, FS_CardinalityType

\* Of two requests with a page, the one visited later has the later page.
LEMMA LaterPage ==
  ASSUME TypeOK, NEW flags, NEW addr \in Orders,
         NEW u \in Pending(flags), NEW v \in Pending(flags), addr[u] < addr[v]
  PROVE  PageWritten(addr, flags, u) # PageWritten(addr, flags, v)
<1> DEFINE upTo(w) == {x \in Pending(flags) : addr[x] <= addr[w]}
<1>1. \A x \in requests : addr[x] \in Int
  <2>1. addr \in [requests -> 1..Cardinality(requests)]
    BY DEF Orders, Injection
  <2> QED
    BY <2>1
<1>2. upTo(u) \subseteq upTo(v)
  BY <1>1 DEF Pending
<1>3. v \in upTo(v) /\ v \notin upTo(u)
  BY <1>1 DEF Pending
<1>4. IsFiniteSet(upTo(v))
  BY FinitelyManyRequests DEF Pending
<1>5. Cardinality(upTo(u)) # Cardinality(upTo(v))
  BY <1>2, <1>3, <1>4, FS_Subset
<1> QED
  BY <1>5 DEF PageWritten

\* The page that is read for a request is the one its text was written on.
LEMMA OwnPage ==
  ASSUME TypeOK, NEW flags, NEW addr \in Orders, NEW v \in Pending(flags)
  PROVE  TextOnPage(addr, flags, v) = v
<1> DEFINE page(u) == PageWritten(addr, flags, u)
           text_(u) == TextOnPage(addr, flags, u)
<1>1. PageRead(addr, flags, v) = page(v)
  <2>1. {u \in requests : addr[u] <= addr[v] /\ flags[u]}
          = {u \in Pending(flags) : addr[u] <= addr[v]}
    BY DEF Pending
  <2> QED
    BY <2>1 DEF PageRead, PageWritten
<1>2. text_(v) \in Pending(flags) /\ page(text_(v)) = page(v)
  BY <1>1 DEF TextOnPage
<1>3. addr \in [requests -> 1..Cardinality(requests)] /\ IsInjective(addr)
  BY DEF Orders, Injection
<1>4. ASSUME NEW u \in Pending(flags), u # v
      PROVE  page(u) # page(v)
  <2>1. addr[u] # addr[v] /\ addr[u] \in Int /\ addr[v] \in Int
    BY <1>3, <1>4 DEF IsInjective, Pending
  <2>2. CASE addr[u] < addr[v]
    BY <2>2, LaterPage
  <2>3. CASE addr[v] < addr[u]
    BY <2>3, LaterPage
  <2> QED
    BY <2>1, <2>2, <2>3
<1> QED
  BY <1>2, <1>4

-----------------------------------------------------------------------------
\* The flags a handler hands to the conversion, and what they promise.
Ready(flags, at) ==
  /\ flags \in [View -> BOOLEAN] /\ at \in Geometry
  /\ \A v \in requests : ~flags[v] /\ v \notin dropped =>
       image[v] # None /\ image[v].at = at

\* An outcome whose flags, pictures and dropped requests fit together.
Sound(o, at) ==
  /\ o.error \in BOOLEAN /\ o.needs \in [View -> BOOLEAN]
  /\ o.image \in [View -> Picture \cup {None}]
  /\ o.cwd \in {"home", "tmp"} /\ o.dropped \subseteq requests
  /\ \A v \in View : o.image[v] # None => o.image[v].of = v
  /\ \A v \in requests : ~o.needs[v] /\ v \notin o.dropped =>
       o.image[v] # None /\ o.image[v].at = at

\* A conversion with no failure but that of a bad text: every flag is cleared;
\* an error changes no picture; without one, requests without a flag keep theirs.
Regular(o, flags) ==
  /\ \A v \in requests : ~o.needs[v]
  /\ o.error => o.image = image /\ dropped \subseteq o.dropped
  /\ \A v \in requests : ~flags[v] =>
       o.image[v] = image[v] /\ (v \in dropped => v \in o.dropped)

\* The picture a conversion makes of a request is of its own text.
LEMMA NewPicture ==
  ASSUME TypeOK, NEW flags, NEW addr \in Orders, NEW v \in Pending(flags),
         NEW at \in Geometry, NEW p,
         p = [of |-> TextOnPage(addr, flags, v), at |-> at]
  PROVE  p \in Picture /\ p # None /\ p.of = v /\ p.at = at
<1>1. p = [of |-> v, at |-> at]
  BY OwnPage
<1>2. v \in View
  BY DEF Pending, TypeOK, Live
<1>3. p \in Picture
  BY <1>1, <1>2 DEF Picture
<1> QED
  BY <1>1, <1>3, TeXAssumptions

\* The requests are converted, but for those whose page is missing.
LEMMA ConvertedIsSound ==
  ASSUME TypeOK, ImageIsOfOwnText, NEW flags, NEW at, Ready(flags, at),
         NEW addr \in Orders, NEW missing \in SUBSET Pending(flags), NEW o,
         o = Converted(addr, flags, at, missing)
  PROVE  /\ Sound(o, at) /\ ~o.error
         /\ missing = {} => Regular(o, flags)
<1> DEFINE done == Pending(flags) \ missing
           pic(v) == [of |-> TextOnPage(addr, flags, v), at |-> at]
<1>0. requests \subseteq View /\ Pending(flags) \subseteq requests
  BY DEF TypeOK, Live, Pending
<1>1. /\ o.error = FALSE
      /\ o.needs = [v \in View |-> flags[v] /\ v \notin done]
      /\ o.image = [v \in View |-> IF v \in done THEN pic(v) ELSE image[v]]
      /\ o.cwd = cwd /\ o.dropped = dropped \ done
  BY DEF Converted, Outcome
<1>2. \A v \in done : pic(v) \in Picture /\ pic(v) # None
                      /\ pic(v).of = v /\ pic(v).at = at
  BY NewPicture DEF Ready
<1> HIDE DEF pic
<1>3. \A v \in View : o.image[v] \in Picture \cup {None}
                      /\ (o.image[v] # None => o.image[v].of = v)
  BY <1>1, <1>2 DEF TypeOK, ImageIsOfOwnText
<1>4. \A v \in requests : ~o.needs[v] /\ v \notin o.dropped =>
        o.image[v] # None /\ o.image[v].at = at
  BY <1>0, <1>1, <1>2 DEF Ready
<1>5. Sound(o, at)
  <2>1. cwd \in {"home", "tmp"} /\ dropped \subseteq requests
    BY DEF TypeOK
  <2>2. o.needs \in [View -> BOOLEAN]
    BY ONLY <1>1, Ready(flags, at) DEF Ready
  <2>3. o.image \in [View -> Picture \cup {None}]
    BY ONLY <1>1, <1>3
  <2>4. o.error \in BOOLEAN /\ o.cwd \in {"home", "tmp"} /\ o.dropped \subseteq requests
    BY ONLY <1>1, <2>1
  <2> QED
    BY ONLY <2>2, <2>3, <2>4, <1>3, <1>4 DEF Sound
<1>6. ASSUME missing = {}
      PROVE  Regular(o, flags)
  <2>1. \A v \in requests : ~o.needs[v]
    <3>1. \A v \in requests : o.needs[v] <=> flags[v] /\ v \notin done
      BY <1>0, <1>1, Zenon
    <3>2. \A v \in requests : flags[v] => v \in done
      BY <1>6 DEF Pending
    <3> QED
      BY <3>1, <3>2
  <2>2. ASSUME NEW v \in requests, ~flags[v]
        PROVE  o.image[v] = image[v] /\ (v \in dropped => v \in o.dropped)
    <3>1. v \notin done
      BY <2>2 DEF Pending
    <3> QED
      BY <1>0, <1>1, <3>1
  <2> QED
    BY <1>1, <2>1, <2>2 DEF Regular
<1> QED
  BY <1>1, <1>5, <1>6

\* The decoder fails on one page.
LEMMA DecodeFailedIsSound ==
  ASSUME TypeOK, ImageIsOfOwnText, NEW flags, NEW at, Ready(flags, at),
         NEW addr \in Orders, NEW bad \in Pending(flags), NEW o,
         o = DecodeFailed(addr, flags, at, bad)
  PROVE  Sound(o, at)
<1> DEFINE done == {v \in Pending(flags) :
                      PageRead(addr, flags, v) < PageRead(addr, flags, bad)}
           pic(v) == [of |-> TextOnPage(addr, flags, v), at |-> at]
<1>0. requests \subseteq View /\ Pending(flags) \subseteq requests
  BY DEF TypeOK, Live, Pending
<1>1. /\ o.error = TRUE
      /\ o.needs = [v \in View |-> flags[v] /\ v \notin done]
      /\ o.image = [v \in View |-> CASE v \in done -> pic(v)
                                     [] v = bad    -> None
                                     [] OTHER      -> image[v]]
      /\ o.cwd = "tmp" /\ o.dropped = dropped \ done
  BY DEF DecodeFailed, Outcome
<1>2. \A v \in done : pic(v) \in Picture /\ pic(v) # None
                      /\ pic(v).of = v /\ pic(v).at = at
  BY NewPicture DEF Ready
<1>3. bad \notin done
  <2>1. PageRead(addr, flags, bad) \in Nat
    BY FinitelyManyRequests DEF PageRead
  <2> QED
    BY <2>1
<1> HIDE DEF pic, done
<1>4. \A v \in View : /\ v \in done => o.image[v] = pic(v)
                      /\ v = bad => o.image[v] = None
                      /\ v \notin done /\ v # bad => o.image[v] = image[v]
  BY <1>1, <1>3
<1>5. \A v \in View : o.image[v] \in Picture \cup {None}
                      /\ (o.image[v] # None => o.image[v].of = v)
  BY <1>2, <1>4 DEF TypeOK, ImageIsOfOwnText
<1>6. \A v \in requests : ~o.needs[v] /\ v \notin o.dropped =>
        o.image[v] # None /\ o.image[v].at = at
  BY <1>0, <1>1, <1>2, <1>3, <1>4 DEF Ready, Pending
<1>7. o.needs \in [View -> BOOLEAN] /\ o.image \in [View -> Picture \cup {None}]
  <2>1. o.needs \in [View -> BOOLEAN]
    BY <1>1 DEF Ready
  <2>2. o.image = [v \in View |-> o.image[v]]
    BY <1>1, Zenon
  <2> QED
    BY <1>5, <2>1, <2>2
<1>8. o.error \in BOOLEAN /\ o.cwd \in {"home", "tmp"} /\ o.dropped \subseteq requests
  BY <1>1 DEF TypeOK
<1> QED
  BY <1>5, <1>6, <1>7, <1>8 DEF Sound

\* LaTeX, dvipng or the file system fails.
LEMMA OtherFailuresAreSound ==
  ASSUME TypeOK, ImageIsOfOwnText, NEW flags, NEW at, Ready(flags, at)
  PROVE  /\ Sound(LatexFailed(flags), at) /\ Regular(LatexFailed(flags), flags)
         /\ Sound(DvipngFailed(flags), at) /\ Sound(TempFailed(flags), at)
<1>0. requests \subseteq View /\ Pending(flags) \subseteq requests
  BY DEF TypeOK, Live, Pending
<1>1. Sound(LatexFailed(flags), at) /\ Regular(LatexFailed(flags), flags)
  BY <1>0 DEF LatexFailed, Outcome, Sound, Regular, Ready, TypeOK,
     ImageIsOfOwnText, Pending
<1>2. Sound(DvipngFailed(flags), at)
  BY <1>0 DEF DvipngFailed, Outcome, Sound, Ready, TypeOK, ImageIsOfOwnText,
     Pending
<1>3. Sound(TempFailed(flags), at)
  BY <1>0 DEF TempFailed, Outcome, Sound, Ready, TypeOK, ImageIsOfOwnText
<1> QED
  BY <1>1, <1>2, <1>3

\* Whatever convert_all ends with.
LEMMA ConversionIsSound ==
  ASSUME TypeOK, ImageIsOfOwnText, NEW flags, NEW at, Ready(flags, at),
         NEW c \in Conversions(flags, at)
  PROVE  /\ Sound(c.outcome, at) /\ c.fault \in {0, 1}
         /\ c.fault = 1 => faults < MaxFaults
         /\ c.fault = 0 => Regular(c.outcome, flags)
<1> DEFINE pending == Pending(flags)
<1>1. CASE pending = {}
  <2> DEFINE o == Outcome(FALSE, flags, image, cwd, dropped)
  <2>1. c = [outcome |-> o, fault |-> 0]
    <3>1. Conversions(flags, at) = {[outcome |-> o, fault |-> 0]}
      BY <1>1 DEF Conversions
    <3> QED
      BY <3>1
  <2>2. Sound(o, at)
    BY DEF Outcome, Sound, TypeOK, ImageIsOfOwnText, Ready
  <2>3. Regular(o, flags)
    BY <1>1 DEF Outcome, Regular, Pending
  <2> HIDE DEF o
  <2> QED
    BY <2>1, <2>2, <2>3
<1>2. CASE pending # {}
  <2> DEFINE conversion(o, n) == [outcome |-> o, fault |-> n]
  <2>0. c \in {conversion(o, 0) : o \in Typeset(flags, at)}
             \cup {conversion(o, 1) : o \in IF faults < MaxFaults
                                           THEN Failures(flags, at) ELSE {}}
    BY <1>2 DEF Conversions
  <2>1. \/ \E o \in Typeset(flags, at) : c = conversion(o, 0)
        \/ faults < MaxFaults /\ \E o \in Failures(flags, at) : c = conversion(o, 1)
    <3> HIDE DEF conversion
    <3> QED
      BY <2>0
  <2>2. \A addr \in Orders, m \in SUBSET pending :
          /\ Sound(Converted(addr, flags, at, m), at)
          /\ m = {} => Regular(Converted(addr, flags, at, m), flags)
    BY ConvertedIsSound
  <2>3. \A addr \in Orders, v \in pending :
          Sound(DecodeFailed(addr, flags, at, v), at)
    BY DecodeFailedIsSound
  <2>4. \A o \in Typeset(flags, at) : Sound(o, at) /\ Regular(o, flags)
    BY <2>2, OtherFailuresAreSound DEF Typeset
  <2>5. \A o \in Failures(flags, at) : Sound(o, at)
    BY <2>2, <2>3, OtherFailuresAreSound DEF Failures
  <2>6. \A o, n : conversion(o, n).outcome = o /\ conversion(o, n).fault = n
    OBVIOUS
  <2> HIDE DEF conversion
  <2> QED
    BY <2>1, <2>4, <2>5, <2>6
<1> QED
  BY <1>1, <1>2

-----------------------------------------------------------------------------
\* The handlers.

LEMMA InitIInv == Init => IInv
<1> SUFFICES ASSUME Init PROVE IInv
  OBVIOUS
<1>1. Live = {}
  BY DEF Init, Live
<1>2. TypeOK
  BY <1>1, TeXAssumptions DEF Init, TypeOK
<1> QED
  BY <1>1, <1>2 DEF Init, IInv, ImageIsOfOwnText, UnflaggedIsCurrent,
     VisibleNeedsNothing, ShownIsCurrent

\* A cell that was not there is not visible, and its request is flagged.
LEMMA AddCellIInv ==
  ASSUME IInv, NEW v \in View, NEW k \in {"refreshed", "static"},
         NEW t \in {"good", "bad"}, AddCell(v, k, t)
  PROVE  IInv'
<1> USE DEF IInv
<1>1. Live' = Live \cup {v} /\ v \notin Live
  BY DEF TypeOK, AddCell, Live
<1>2. TypeOK'
  BY <1>1 DEF TypeOK, AddCell, Geometry, Picture
<1>3. \A u \in View \ {v} : /\ needs'[u] = needs[u] /\ image'[u] = image[u]
                            /\ shown'[u] = shown[u] /\ kind'[u] = kind[u]
  BY DEF TypeOK, AddCell
<1>4. needs'[v] = TRUE /\ image'[v] = None
  BY DEF TypeOK, AddCell
<1>5. v \notin visible /\ visible \subseteq View /\ Live \subseteq View
  BY <1>1 DEF TypeOK, Live
<1>6. UNCHANGED <<visible, dropped, faults, geometry>>
  BY DEF AddCell
<1>7. ImageIsOfOwnText'
  BY <1>3, <1>4 DEF ImageIsOfOwnText
<1>8. UnflaggedIsCurrent'
  BY <1>1, <1>3, <1>4, <1>5, <1>6 DEF UnflaggedIsCurrent
<1>9. VisibleNeedsNothing'
  BY <1>3, <1>5, <1>6 DEF VisibleNeedsNothing
<1>10. ShownIsCurrent'
  BY <1>3, <1>5, <1>6 DEF ShownIsCurrent
<1> QED
  BY <1>2, <1>7, <1>8, <1>9, <1>10

\* What is left of the other cells when some go.
LEMMA RemovalIInv ==
  ASSUME IInv, NEW S \in SUBSET View,
         Live' = Live \ S, requests' = requests \ S, TypeOK',
         \A u \in View \ S : /\ needs'[u] = needs[u] /\ image'[u] = image[u]
                             /\ shown'[u] = shown[u] /\ kind'[u] = kind[u],
         \A u \in S : image'[u] = None,
         visible' = visible \ S, dropped' = dropped \ S,
         UNCHANGED <<geometry, faults>>
  PROVE  IInv'
<1> USE DEF IInv
<1>1. visible \subseteq View /\ Live \subseteq View
  BY DEF TypeOK, Live
<1>2. ImageIsOfOwnText'
  BY DEF ImageIsOfOwnText
<1>3. UnflaggedIsCurrent'
  BY <1>1 DEF UnflaggedIsCurrent
<1>4. VisibleNeedsNothing'
  BY <1>1 DEF VisibleNeedsNothing
<1>5. ShownIsCurrent'
  BY <1>1 DEF ShownIsCurrent
<1> QED
  BY <1>2, <1>3, <1>4, <1>5

LEMMA RemoveCellIInv ==
  ASSUME IInv, NEW v \in View, RemoveCell(v)
  PROVE  IInv'
<1> USE DEF IInv
<1>1. Live' = Live \ {v} /\ requests' = requests \ {v}
  BY DEF TypeOK, RemoveCell, Live
<1>2. TypeOK'
  BY <1>1 DEF TypeOK, RemoveCell, Geometry, Picture
<1>3. \A u \in View \ {v} : /\ needs'[u] = needs[u] /\ image'[u] = image[u]
                            /\ shown'[u] = shown[u] /\ kind'[u] = kind[u]
  BY DEF TypeOK, RemoveCell
<1>4. {v} \in SUBSET View /\ \A u \in {v} : image'[u] = None
  BY DEF TypeOK, RemoveCell
<1>5. /\ visible' = visible \ {v} /\ dropped' = dropped \ {v}
      /\ UNCHANGED <<geometry, faults>>
  BY DEF RemoveCell
<1> QED
  BY <1>1, <1>2, <1>3, <1>4, <1>5, RemovalIInv

LEMMA RemoveAllIInv ==
  ASSUME IInv, RemoveAll
  PROVE  IInv'
<1> USE DEF IInv
<1>1. Live' = Live \ View /\ requests' = requests \ View
  BY DEF TypeOK, RemoveAll, Live
<1>2. TypeOK'
  BY <1>1 DEF TypeOK, RemoveAll, Geometry, Picture
<1>3. \A u \in View : image'[u] = None
  BY DEF RemoveAll
<1>4. /\ visible' = visible \ View /\ dropped' = dropped \ View
      /\ UNCHANGED <<geometry, faults>>
  BY DEF RemoveAll, TypeOK, Live
<1> QED
  BY <1>1, <1>2, <1>3, <1>4, RemovalIInv

\* What a conversion c with these flags leaves of the engine.
LEMMA ConvertIInv ==
  ASSUME IInv, NEW flags, Ready(flags, geometry'), NEW c,
         c \in Conversions(flags, geometry'), Convert(c),
         UNCHANGED <<requests, kind>>
  PROVE  /\ Sound(c.outcome, geometry') /\ faults' \in 0..MaxFaults
         /\ needs' \in [View -> BOOLEAN] /\ image' \in [View -> Picture \cup {None}]
         /\ cwd' \in {"home", "tmp"} /\ dropped' \subseteq Live'
         /\ ImageIsOfOwnText' /\ UnflaggedIsCurrent'
         /\ faults' = 0 => faults = 0 /\ Regular(c.outcome, flags)
<1> USE DEF IInv
<1>1. /\ Sound(c.outcome, geometry') /\ c.fault \in {0, 1}
      /\ c.fault = 1 => faults < MaxFaults
      /\ c.fault = 0 => Regular(c.outcome, flags)
  BY ConversionIsSound
<1>2. /\ needs' = c.outcome.needs /\ image' = c.outcome.image
      /\ cwd' = c.outcome.cwd /\ dropped' = c.outcome.dropped
      /\ faults' = faults + c.fault
  BY DEF Convert
<1>3. faults' \in 0..MaxFaults /\ (faults' = 0 => faults = 0 /\ c.fault = 0)
  BY <1>1, <1>2, TeXAssumptions DEF TypeOK
<1>4. Live' = Live /\ requests = Live
  BY DEF TypeOK, Live
<1>5. ImageIsOfOwnText'
  BY <1>1, <1>2 DEF Sound, ImageIsOfOwnText
<1>6. UnflaggedIsCurrent'
  BY <1>1, <1>2, <1>4 DEF Sound, UnflaggedIsCurrent
<1> QED
  BY <1>1, <1>2, <1>3, <1>4, <1>5, <1>6 DEF Sound

LEMMA ShowIInv ==
  ASSUME IInv, NEW v \in View, Show(v)
  PROVE  IInv'
<1> USE DEF IInv
<1>0. /\ v \in requests /\ v \notin visible /\ requests \subseteq View
      /\ visible \subseteq requests
      /\ UNCHANGED <<requests, geometry, kind, text, alive>>
  BY DEF Show, TypeOK, Live
<1>1. PICK c \in Conversions(needs, geometry) :
        /\ Convert(c)
        /\ c.outcome.error => UNCHANGED <<shown, visible>>
        /\ ~c.outcome.error =>
             /\ visible' = visible \cup {v}
             /\ shown' = IF image'[v] = None THEN shown
                         ELSE [shown EXCEPT ![v] = image'[v]]
  BY DEF Show
<1>2. Ready(needs, geometry')
  BY <1>0 DEF Ready, TypeOK, UnflaggedIsCurrent
<1>3. /\ Sound(c.outcome, geometry') /\ faults' \in 0..MaxFaults
      /\ needs' \in [View -> BOOLEAN] /\ image' \in [View -> Picture \cup {None}]
      /\ cwd' \in {"home", "tmp"} /\ dropped' \subseteq Live'
      /\ ImageIsOfOwnText' /\ UnflaggedIsCurrent'
      /\ faults' = 0 => faults = 0 /\ Regular(c.outcome, needs)
  BY <1>0, <1>1, <1>2, ConvertIInv
<1>4. Live' = Live
  BY <1>0 DEF Live
<1>5. visible' \subseteq requests /\ shown' \in [View -> Picture \cup {None}]
      /\ \A u \in View \ {v} : shown'[u] = shown[u]
  BY <1>0, <1>1, <1>3 DEF TypeOK, Sound
<1>6. TypeOK'
  BY <1>0, <1>3, <1>4, <1>5 DEF TypeOK, Geometry, Picture
<1>7. needs' = c.outcome.needs /\ image' = c.outcome.image /\ dropped' = c.outcome.dropped
  BY <1>1 DEF Convert
<1>8. VisibleNeedsNothing'
  BY <1>3, <1>5, <1>7 DEF VisibleNeedsNothing, Regular
<1>9. ShownIsCurrent'
  <2> SUFFICES ASSUME NEW u \in visible', kind[u] = "refreshed", faults' = 0,
                      u \notin dropped'
               PROVE  shown'[u] # None /\ shown'[u] = image'[u]
    BY <1>0 DEF ShownIsCurrent
  <2>1. faults = 0 /\ Regular(c.outcome, needs)
    BY <1>3
  <2>2. u \in View /\ u \in Live' /\ ~needs'[u]
    BY <1>0, <1>4, <1>5, <1>7, <2>1 DEF Regular, TypeOK
  <2>3. image'[u] # None
    BY <2>2, <1>3 DEF UnflaggedIsCurrent
  <2>4. CASE u = v
    <3>1. ~c.outcome.error
      BY <1>0, <1>1, <2>4
    <3> QED
      BY <1>1, <2>3, <2>4, <3>1 DEF TypeOK
  <2>5. CASE u # v
    <3>1. u \in visible /\ shown'[u] = shown[u]
      BY <1>1, <1>5, <2>2, <2>5
    <3>2. ~needs[u]
      BY <2>1, <3>1 DEF VisibleNeedsNothing
    <3>3. image'[u] = image[u] /\ u \notin dropped
      BY <1>0, <1>7, <2>1, <3>1, <3>2 DEF Regular
    <3> QED
      BY <2>1, <3>1, <3>3 DEF ShownIsCurrent
  <2> QED
    BY <2>4, <2>5
<1> QED
  BY <1>3, <1>6, <1>8, <1>9

\* Another width or scale: every request is flagged, converted and redrawn.
LEMMA RefreshIInv ==
  ASSUME IInv, NEW c, c \in Conversions(Invalidated, geometry'), Convert(c),
         geometry' \in Geometry, alive' \in BOOLEAN,
         shown' = IF c.outcome.error THEN shown ELSE RefreshAll(c.outcome.image),
         UNCHANGED <<requests, kind, text, visible>>
  PROVE  IInv'
<1> USE DEF IInv
<1>1. Ready(Invalidated, geometry')
  <2>1. Invalidated \in [View -> BOOLEAN]
    BY DEF Invalidated
  <2>2. \A v \in requests : v \in View /\ Invalidated[v]
    BY Zenon DEF Invalidated, TypeOK, Live
  <2> QED
    BY <2>1, <2>2 DEF Ready
<1>2. /\ Sound(c.outcome, geometry') /\ faults' \in 0..MaxFaults
      /\ needs' \in [View -> BOOLEAN] /\ image' \in [View -> Picture \cup {None}]
      /\ cwd' \in {"home", "tmp"} /\ dropped' \subseteq Live'
      /\ ImageIsOfOwnText' /\ UnflaggedIsCurrent'
      /\ faults' = 0 => faults = 0 /\ Regular(c.outcome, Invalidated)
  BY <1>1, ConvertIInv
<1>3. Live' = Live /\ requests \subseteq View /\ visible \subseteq requests
  BY DEF Live, TypeOK
<1>4. needs' = c.outcome.needs /\ image' = c.outcome.image /\ dropped' = c.outcome.dropped
  BY DEF Convert
<1>5. shown' \in [View -> Picture \cup {None}]
  BY <1>2, <1>4 DEF TypeOK, RefreshAll
<1>6. TypeOK'
  BY <1>2, <1>3, <1>5 DEF TypeOK, Geometry, Picture
<1>7. VisibleNeedsNothing'
  BY <1>2, <1>3, <1>4 DEF VisibleNeedsNothing, Regular
<1>8. ShownIsCurrent'
  <2> SUFFICES ASSUME NEW u \in visible, kind[u] = "refreshed", faults' = 0,
                      u \notin dropped'
               PROVE  shown'[u] # None /\ shown'[u] = image'[u]
    BY DEF ShownIsCurrent
  <2>1. faults = 0 /\ Regular(c.outcome, Invalidated)
    BY <1>2
  <2>2. u \in View /\ u \in Live' /\ ~needs'[u]
    BY <1>3, <1>4, <2>1 DEF Regular, TypeOK
  <2>3. image'[u] # None
    BY <1>2, <2>2 DEF UnflaggedIsCurrent
  <2>4. CASE c.outcome.error
    <3>1. image' = image /\ u \notin dropped
      BY <1>4, <2>1, <2>4 DEF Regular
    <3> QED
      BY <2>1, <2>4, <3>1 DEF ShownIsCurrent
  <2>5. CASE ~c.outcome.error
    <3>1. shown'[u] = image'[u]
      BY <1>4, <2>2, <2>5 DEF RefreshAll
    <3> QED
      BY <2>3, <3>1
  <2> QED
    BY <2>4, <2>5
<1> QED
  BY <1>2, <1>6, <1>7, <1>8

LEMMA GeometryIInv ==
  ASSUME IInv,
         (\E w \in Width : Resize(w)) \/ (alive /\ \E x \in Scale : Rescale(x))
  PROVE  IInv'
<1>1. CASE \E w \in Width : Resize(w)
  <2>1. PICK w \in Width : Resize(w)
    BY <1>1
  <2>2. geometry' \in Geometry /\ alive' \in BOOLEAN
    BY <2>1 DEF Resize, IInv, TypeOK, Geometry
  <2> QED
    BY <2>1, <2>2, RefreshIInv DEF Resize
<1>2. CASE \E x \in Scale : Rescale(x)
  <2>1. PICK x \in Scale : Rescale(x)
    BY <1>2
  <2>2. geometry' \in Geometry
    BY <2>1 DEF Rescale, IInv, TypeOK, Geometry
  <2>3. PICK c \in Conversions(Invalidated, geometry') :
          /\ Convert(c) /\ alive' = ~c.outcome.error
          /\ shown' = IF c.outcome.error THEN shown
                      ELSE RefreshAll(c.outcome.image)
    BY <2>1 DEF Rescale
  <2>4. alive' \in BOOLEAN
    BY <2>3
  <2>5. UNCHANGED <<requests, kind, text, visible>>
    BY <2>1 DEF Rescale
  <2> QED
    BY <2>2, <2>3, <2>4, <2>5, RefreshIInv
<1> QED
  BY <1>1, <1>2

\* The inductive invariant of the engine and its views, and with it the type
\* invariant: checkout always finds its request.
THEOREM IInvIsInvariant == Spec => []IInv
<1>1. IInv /\ [Next]_vars => IInv'
  <2> SUFFICES ASSUME IInv, [Next]_vars PROVE IInv'
    OBVIOUS
  <2>1. ASSUME NEW v \in View, NEW k \in {"refreshed", "static"},
               NEW t \in {"good", "bad"}, AddCell(v, k, t)
        PROVE  IInv'
    BY <2>1, AddCellIInv
  <2>2. ASSUME NEW v \in View, Show(v) \/ RemoveCell(v)
        PROVE  IInv'
    BY <2>2, ShowIInv, RemoveCellIInv
  <2>3. CASE RemoveAll
    BY <2>3, RemoveAllIInv
  <2>4. CASE alive /\ ((\E w \in Width : Resize(w)) \/ \E x \in Scale : Rescale(x))
    BY <2>4, GeometryIInv
  <2>5. CASE UNCHANGED vars
    BY <2>5 DEF vars, engineVars, viewVars, IInv, TypeOK, ImageIsOfOwnText,
       UnflaggedIsCurrent, VisibleNeedsNothing, ShownIsCurrent, Live,
       Geometry, Picture
  <2> QED
    BY <2>1, <2>2, <2>3, <2>4, <2>5 DEF Next
<1> QED
  BY <1>1, InitIInv, PTL DEF Spec

\* checkout always finds its request, and the state is well-typed.
THEOREM TypeCorrect == Spec => []TypeOK
<1>1. IInv => TypeOK
  BY DEF IInv
<1> QED
  BY <1>1, IInvIsInvariant, PTL

\* Every picture is of the text of its own request: the two counts of pages
\* agree for every order of the requests and every choice of flags.
THEOREM OwnText == Spec => []ImageIsOfOwnText
<1>1. IInv => ImageIsOfOwnText
  BY DEF IInv
<1> QED
  BY <1>1, IInvIsInvariant, PTL

\* A request without a flag has a picture for the present geometry, unless a
\* failed run of LaTeX cleared the flag, however conversions end.
THEOREM Unflagged == Spec => []UnflaggedIsCurrent
<1>1. IInv => UnflaggedIsCurrent
  BY DEF IInv
<1> QED
  BY <1>1, IInvIsInvariant, PTL

\* No view shows a picture the engine has replaced, as long as nothing but
\* LaTeX fails.
THEOREM Shown == Spec => []ShownIsCurrent
<1>1. IInv => ShownIsCurrent
  BY DEF IInv
<1> QED
  BY <1>1, IInvIsInvariant, PTL
=============================================================================
