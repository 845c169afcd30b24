------------------------------ MODULE MCRelease ------------------------------
(***************************************************************************)
(* Two kustomize releases after the recorded one, three kyaml versions and *)
(* two styles: enough for a row to be joined, a row to be added twice, a   *)
(* downgrade, and a style that moves and moves back.                       *)
(***************************************************************************)
EXTENDS Release

CONSTANTS A, B, C, plain, other

MCKyamls == {A, B, C}
MCStyles == {plain, other}
MCHandCut == {<<1, 0>>}

FromStart == ReleaseInit /\ style[A] = plain /\ published = {FirstKustomize}
AllOut == ReleaseInit /\ style[A] = plain /\ published = Kustomizes

-----------------------------------------------------------------------------
(***************************************************************************)
(* Anyone.  To keep it small: the first release after the recorded one     *)
(* moves the style, all releases come out at first, files change only      *)
(* while no release job is about, and no file is torn.  The watcher's run  *)
(* has none of these limits.                                               *)
(***************************************************************************)
StyleMoves == ships[1] = B /\ style[B] = other /\ style[C] = plain

Serial == \/ waiting = None /\ job = None
          \/ UNCHANGED <<tree, pc>>

\* The limits are an ACTION_CONSTRAINT of the run, whose steps are those of Next.
Limits ==
  /\ published # Kustomizes => published' # published
  /\ Serial
  /\ Whole(tree')
AnyoneInit == FromStart /\ StyleMoves
AnyoneSpec == AnyoneInit /\ [][Next]_vars

-----------------------------------------------------------------------------
\* The watcher, with a workflow that works.
WorkingSpec == FromStart /\ [][WatcherNext]_vars /\ JobFairness

-----------------------------------------------------------------------------
\* Nothing fails but apply over a style that moved, as its message expects.
RefusedOnly ==
  outcome' = "error" => pc = "corpus" /\ style[tree.gomod] # tree.golden

ReviewSpec == AllOut /\ StyleMoves /\ [][Next /\ Serial /\ RefusedOnly]_vars

\* Commands may fail; jobs fail only over what they find; merging releases.
FoundWanting == FailJob => RefuseJob \/ NothingToRelease \/ PublishRelease

MergeSpec == AllOut /\ [][Next /\ Limits /\ ~PushTag /\ FoundWanting]_vars
=============================================================================
