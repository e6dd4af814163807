------------------------------- MODULE MtModes -------------------------------
(***************************************************************************)
(* How Invoke decides in which MT mode a filter runs.  A filter that is    *)
(* created while another's constructor runs is chained: it gets no guard   *)
(* of its own, and the outermost filter's guard has to be strict enough    *)
(* for all that was created in between.  The modes are counted by an       *)
(* MtModeEvaluator for each Invoke, to which invoke_stack points.          *)
(*                                                                         *)
(* memory_mutex is held all along: one thread's nested Invokes.  A clip is *)
(* an address, which may be given out again after the clip is gone.        *)
(***************************************************************************)
EXTENDS Integers, Sequences, SequencesExt, FiniteSets

CONSTANTS
  Functions,       \* names of filter functions
  ScriptFunctions, \* those that are script functions
  Reports,         \* what clips answer to CACHE_GET_MTMODE
  Addresses,       \* where clips may be allocated
  MaxDepth,        \* bound: Invokes within one another
  MaxSettings,     \* bound: how often a script sets MT modes
  Nothing

MT_INVALID        == 0
MT_NICE_FILTER    == 1
MT_MULTI_INSTANCE == 2
MT_SERIALIZED     == 3
MT_SPECIAL_MT     == 4
MT_MODE_COUNT     == 5

Settable == MT_NICE_FILTER .. MT_SPECIAL_MT

Weights == 1 .. 2
UserForce == 2   \* MT_WEIGHT_2_USERFORCE

ASSUME ModesAssumption ==
  /\ ScriptFunctions \subseteq Functions /\ Reports \subseteq Int
  /\ MaxDepth \in Nat /\ MaxSettings \in Nat

VARIABLES
  MtMap,        \* the modes and weights that have been set
  DefaultMtMode,
  settings,     \* how often modes have been set
  invokes,      \* the Invokes in progress, the outermost first
  invoke_stack, \* those whose evaluators count
  clips,        \* what there is at each address
  clip_data,    \* CreatedByInvoke of each address
  wrapped       \* the filter just given to MTGuard::Create

settingVars == <<MtMap, DefaultMtMode, settings>>
modeVars == <<settingVars, invokes, invoke_stack, clips, clip_data, wrapped>>

ModeInit == /\ MtMap = [f \in Functions |-> Nothing]
            /\ DefaultMtMode = MT_MULTI_INSTANCE
            /\ settings = 0
            /\ invokes = <<>>
            /\ invoke_stack = <<>>
            /\ clips = [a \in Addresses |-> Nothing]
            /\ clip_data = [a \in Addresses |-> FALSE]
            /\ wrapped = Nothing

Live == {a \in Addresses : clips[a] # Nothing}

-----------------------------------------------------------------------------
(* MtModeEvaluator *)

InRange(mode) == MT_INVALID < mode /\ mode < MT_MODE_COUNT

Specifies(report) == InRange(report)

GetInstanceMode(report, default) == IF Specifies(report) THEN report ELSE default

GetFilterMTMode(f) == IF MtMap[f] # Nothing THEN MtMap[f].mode ELSE DefaultMtMode

Forced(f) == MtMap[f] # Nothing /\ MtMap[f].weight = UserForce

GetMtMode(f, report) ==
  IF Forced(f) THEN MtMap[f].mode ELSE GetInstanceMode(report, GetFilterMTMode(f))

UsesDefaultMtMode(f, report) == ~Specifies(report) /\ MtMap[f] = Nothing

(* What is counted of modes S; other modes are counted nowhere. *)
Counts(S) == [multi |-> MT_MULTI_INSTANCE \in S, serial |-> MT_SERIALIZED \in S]

Accumulated(x, y) == [multi |-> x.multi \/ y.multi, serial |-> x.serial \/ y.serial]

GetFinalMode(helper, mode) ==
  IF helper.serial THEN MT_SERIALIZED
  ELSE IF helper.multi /\ mode # MT_SERIALIZED THEN MT_MULTI_INSTANCE
  ELSE mode

-----------------------------------------------------------------------------
(* Setting modes: scripts do it, and constructors may. *)

Setting == /\ settings < MaxSettings
           /\ settings' = settings + 1
           /\ wrapped' = Nothing
           /\ UNCHANGED <<invokes, invoke_stack, clips, clip_data>>

SetFilterMTMode(f, mode, weight) ==
  /\ Setting /\ InRange(mode)
  /\ MtMap' = IF MtMap[f] = Nothing \/ weight >= MtMap[f].weight
              THEN [MtMap EXCEPT ![f] = [mode |-> mode, weight |-> weight]]
              ELSE MtMap
  /\ UNCHANGED DefaultMtMode

SetDefaultMtMode(mode) == Setting /\ InRange(mode) /\ DefaultMtMode' = mode /\ UNCHANGED MtMap

-----------------------------------------------------------------------------
(* Invoke *)

ReportsOf(A) == {clips[a].report : a \in A}

(* AddChainedFilter for the clip arguments. *)
ArgumentCounts(A) ==
  Counts({GetInstanceMode(r, DefaultMtMode) : r \in ReportsOf({a \in A : ~clip_data[a]})})

Kind(f) == IF GetFilterMTMode(f) = MT_SPECIAL_MT THEN "special"
           ELSE IF f \in ScriptFunctions THEN "script" ELSE "filter"

(* The innermost constructor that runs around call i, 0 for none. *)
Around(i) == SelectLastInSeq(SubSeq(invokes, 1, i - 1), LAMBDA c : c.kind = "filter")

StrictModes == {MT_MULTI_INSTANCE, MT_SERIALIZED}

(* The strictest of some modes; a clip that is nice or guards itself       *)
(* demands nothing.                                                        *)
Strictest(S) == CHOOSE m \in (S \cap StrictModes) \cup {MT_INVALID} :
                  \A n \in S \cap StrictModes : n <= m

(* What the clips of A demand that were created without Invoke.            *)
Demanded(A) == Strictest({GetInstanceMode(clips[a].report, DefaultMtMode) :
                            a \in {b \in A : clips[b].by = "new"}})

(* inner, stale and lost are not the code's: the strictest mode so far of  *)
(* the filters invoked, or created directly and passed to Invoke; of those *)
(* passed at an address that belonged to a clip of Invoke before; and of   *)
(* those that only an Invoke has counted whose evaluator was dropped.      *)
BeginInvoke(f, A) ==
  /\ Len(invokes) < MaxDepth
  /\ invokes' = Append(invokes,
       [f |-> f, kind |-> Kind(f), source |-> A = {}, helper |-> ArgumentCounts(A),
        inner |-> Demanded({a \in A : ~clip_data[a]}),
        stale |-> Demanded({a \in A : clip_data[a]}),
        lost |-> MT_INVALID])
  /\ invoke_stack' = IF Kind(f) = "filter" THEN Append(invoke_stack, Len(invokes) + 1)
                     ELSE invoke_stack
  /\ wrapped' = Nothing
  /\ UNCHANGED <<settingVars, clips, clip_data>>

(* A constructor creates another filter directly. *)
NewClip(a, report) ==
  /\ invokes # <<>> /\ Last(invokes).kind = "filter"
  /\ clips[a] = Nothing
  /\ clips' = [clips EXCEPT ![a] = [report |-> report, by |-> "new"]]
  /\ wrapped' = Nothing
  /\ UNCHANGED <<settingVars, invokes, invoke_stack, clip_data>>

Created(a, report) == [clips EXCEPT ![a] = [report |-> report, by |-> "invoke"]]

(* A filter function returns a new clip, or one that is there already, such *)
(* as its argument or what its constructor has created.                    *)
Returned(a, report) == a \in Live => clips[a].report = report

(* The last Invoke's evaluator is dropped, and the one around has no part  *)
(* in what it has counted.                                                 *)
Dropped ==
  LET c == Last(invokes)
  IN  [i \in 1 .. Len(invokes) - 1 |->
         IF i = Around(Len(invokes))
         THEN [invokes[i] EXCEPT !.stale = Strictest({@, c.stale}),
                                 !.lost = Strictest({@, c.inner, c.lost})]
         ELSE invokes[i]]

(* After a script function, a filter that guards itself, or a filter       *)
(* function that returns no clip, nothing is counted.                      *)
Returns ==
  /\ invokes # <<>>
  /\ invokes' = Dropped
  /\ invoke_stack' = IF Last(invokes).kind = "filter" THEN Front(invoke_stack) ELSE invoke_stack
  /\ IF Last(invokes).kind = "special"
     THEN \E a \in Addresses \ Live, r \in Reports : clips' = Created(a, r)
     ELSE UNCHANGED clips
  /\ wrapped' = Nothing
  /\ UNCHANGED <<settingVars, clip_data>>

\* Mutant: an exception leaves the pointer on the stack.
Popped_NotOnThrow == invoke_stack

Popped == IF Last(invokes).kind = "filter" THEN Front(invoke_stack) ELSE invoke_stack

(* The constructor throws; whoever called Invoke may catch that. *)
Throws ==
  /\ invokes # <<>>
  /\ invokes' = Dropped
  /\ invoke_stack' = Popped
  /\ wrapped' = Nothing
  /\ UNCHANGED <<settingVars, clips, clip_data>>

\* Mutant: what the chained filter has chained itself is not passed on.
Propagated_OwnOnly(c, mode) == Counts({mode})

(* What the constructor around learns of a chained filter. *)
Propagated(c, mode) == Accumulated(c.helper, Counts({mode}))

ReturnsChained(a, report) ==
  /\ invokes # <<>> /\ Last(invokes).kind = "filter"
  /\ Len(invoke_stack) > 1
  /\ LET c == Last(invokes)
         mode == GetMtMode(c.f, report)
         top == invoke_stack[Len(invoke_stack) - 1]
         around == Around(Len(invokes))
     IN  invokes' = [[Front(invokes) EXCEPT
                      ![top].helper = Accumulated(@, Propagated(c, mode))] EXCEPT
                      ![around].inner = Strictest({@, c.inner, mode}),
                      ![around].stale = Strictest({@, c.stale}),
                      ![around].lost = Strictest({@, c.lost})]
  /\ invoke_stack' = Front(invoke_stack)
  /\ Returned(a, report)
  /\ clips' = IF clips[a] = Nothing THEN Created(a, report) ELSE clips
  /\ wrapped' = Nothing
  /\ UNCHANGED <<settingVars, clip_data>>

ModeToWrap(c, report) ==
  LET own == GetMtMode(c.f, report)
      final == IF Forced(c.f) THEN own ELSE GetFinalMode(c.helper, own)
  IN  IF c.source /\ UsesDefaultMtMode(c.f, report) THEN MT_SERIALIZED ELSE final

(* The caller gets the cache around the clip, or a clip that needs none:   *)
(* in either case one that is counted as nice when passed on.              *)
ReturnsGuarded(a, report) ==
  /\ invokes # <<>> /\ Last(invokes).kind = "filter"
  /\ Len(invoke_stack) = 1
  /\ LET c == Last(invokes)
     IN  wrapped' = [mode |-> ModeToWrap(c, report), forced |-> Forced(c.f),
                     inner |-> c.inner, stale |-> c.stale, lost |-> c.lost]
  /\ invokes' = Front(invokes)
  /\ invoke_stack' = <<>>
  /\ Returned(a, report)
  /\ clips' = Created(a, MT_NICE_FILTER)
  /\ clip_data' = [clip_data EXCEPT ![a] = TRUE]
  /\ UNCHANGED settingVars

(* Nobody needs a clip any more.  Its clip_data stays. *)
Release(a) ==
  /\ invokes = <<>> /\ clips[a] # Nothing
  /\ clips' = [clips EXCEPT ![a] = Nothing]
  /\ wrapped' = Nothing
  /\ UNCHANGED <<settingVars, invokes, invoke_stack, clip_data>>

ModeNext ==
  \/ \E f \in Functions, mode \in MT_INVALID .. MT_MODE_COUNT, w \in Weights :
       SetFilterMTMode(f, mode, w)
  \/ \E mode \in MT_INVALID .. MT_MODE_COUNT : SetDefaultMtMode(mode)
  \/ \E f \in Functions : \E A \in SUBSET Live : BeginInvoke(f, A)
  \/ \E a \in Addresses, r \in Reports :
       NewClip(a, r) \/ ReturnsChained(a, r) \/ ReturnsGuarded(a, r)
  \/ Returns \/ Throws
  \/ \E a \in Addresses : Release(a)

ModeSpec == ModeInit /\ [][ModeNext]_modeVars
-----------------------------------------------------------------------------
(* Properties *)

Levels == StrictModes \cup {MT_INVALID}

Invocation == [f: Functions, kind: {"special", "script", "filter"}, source: BOOLEAN,
               helper: [multi: BOOLEAN, serial: BOOLEAN], inner: Levels, stale: Levels,
               lost: Levels]

ModeTypeOK ==
  /\ MtMap \in [Functions -> [mode: Settable, weight: Weights] \cup {Nothing}]
  /\ DefaultMtMode \in Settable /\ settings \in 0 .. MaxSettings
  /\ invokes \in Seq(Invocation) /\ Len(invokes) <= MaxDepth
  /\ invoke_stack \in Seq(Nat)
  /\ clips \in [Addresses -> [report: Reports \cup {MT_NICE_FILTER}, by: {"new", "invoke"}]
                            \cup {Nothing}]
  /\ clip_data \in [Addresses -> BOOLEAN]
  /\ wrapped \in [mode: Settable, forced: BOOLEAN, inner: Levels, stale: Levels, lost: Levels]
                 \cup {Nothing}

(* invoke_stack points to the evaluators of the constructors that run, in  *)
(* their order, and to nothing else, also after exceptions that            *)
(* constructors catch.                                                     *)
StackPointsToConstructors ==
  /\ ToSet(invoke_stack) = {i \in DOMAIN invokes : invokes[i].kind = "filter"}
  /\ \A i, j \in DOMAIN invoke_stack : i < j => invoke_stack[i] < invoke_stack[j]
StackSound == ModeTypeOK /\ StackPointsToConstructors

(* The mode of a guard that MTGuard::Create makes. *)
GuardMode == IF wrapped.mode \in MT_NICE_FILTER .. MT_SERIALIZED THEN wrapped.mode
             ELSE MT_SERIALIZED

(* Unless the user forces a mode, the guard is as strict as each of the    *)
(* filters demands that were created in its constructor, however deep, by  *)
(* Invokes that returned a clip to be chained, or directly and passed to   *)
(* such an Invoke.  That leaves out two kinds, which the code forgets:     *)
(* clips passed at an address that clip_data still knows from a clip that  *)
(* is gone (stale), and what was counted by an Invoke that threw, returned *)
(* no clip, or called a script function or a filter that guards itself:    *)
(* its evaluator is dropped with all it has counted (lost).                *)
ChainedAreCovered ==
  wrapped # Nothing /\ ~wrapped.forced => wrapped.inner <= GuardMode
=============================================================================
