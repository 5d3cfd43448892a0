------------------------------- MODULE Review -------------------------------
(***************************************************************************)
(* Two pages on which an answer is about what somebody chose a moment ago.  *)
(* "New run" (runs/new.vue): one picks a saved migration or two connections *)
(* and a mode, asks for a preview, and may then launch; the server resolves *)
(* the request anew each time, others edit saved migrations meanwhile.      *)
(* "Compare" (compare.vue): one counts rows, and opens stored comparisons   *)
(* by ?v= in the URL; every answer takes time.                              *)
(***************************************************************************)
EXTENDS Naturals, FiniteSets

CONSTANTS
  Endpoint,         \* connections
  EngineOf,         \* the engine of each
  Planned,          \* engines with no adapters
  SavedMigration,
  MaxPicks,         \* bound: changes of the selection, and of the URL
  MaxReviewEdits,   \* bound: edits of saved migrations
  MaxComparisons    \* bound: comparisons stored

ASSUME ReviewAssumption ==
  /\ EngineOf \in [Endpoint -> STRING] /\ Planned \subseteq STRING
  /\ MaxPicks \in Nat /\ MaxReviewEdits \in Nat /\ MaxComparisons \in Nat

VARIABLES
  openPage,    \* the page that is open
  saved,       \* migration_definitions: what each names
  offered,     \* the same as the page loaded it
  selection,   \* of the page: [def, src, dst, mode]
  simulate,
  preview,     \* what the page shows, <<>> if nothing
  previewing,  \* the preview being made
  launching,   \* the launch being made
  started,     \* the run it started
  picks, reviewEdits,
  url, result, \* of the page "Compare": ?v=, and the comparison shown; 0 is none
  stillOpening,\* answers to openStored on their way
  comparing,   \* "no", "counting", "stored"
  comparisons, \* comparisons stored
  passedBy      \* history: what is shown came after the URL had moved on

newRunVars == <<saved, offered, selection, simulate, preview, previewing, launching, started, reviewEdits>>
compareVars == <<url, result, stillOpening, comparing, comparisons, passedBy>>
reviewVars == <<openPage, picks, newRunVars, compareVars>>

-----------------------------------------------------------------------------
(* pair-capability.ts, which both the page and the server ask.             *)

Chosen(c) == c \in Endpoint
PairAvailable(s) == /\ Chosen(s.src) /\ Chosen(s.dst)
                    /\ {EngineOf[s.src], EngineOf[s.dst]} \cap Planned = {}
\* Query mode is PostgreSQL to PostgreSQL; such a migration may be saved,
SaveAvailable(s) ==
  PairAvailable(s) /\ (s.mode = "query" => {EngineOf[s.src], EngineOf[s.dst]} = {"postgres"})
\* but only the command line runs it.
ModeAvailable(s) == SaveAvailable(s) /\ s.mode = "full"

What == {w \in [src : Endpoint, dst : Endpoint, mode : {"full", "query"}] : w.src # w.dst /\ SaveAvailable(w)}

\* requestBody, and resolveRunTarget: a saved migration is what it is when the request comes.
Body(s) == IF s.def # "none" THEN [def |-> s.def] ELSE [src |-> s.src, dst |-> s.dst, mode |-> s.mode]
Resolved(body) == IF "def" \in DOMAIN body THEN saved[body.def] ELSE body

ReviewInit ==
  /\ openPage \in {"new run", "compare"}
  /\ saved \in [SavedMigration -> What] /\ offered = saved
  /\ selection = [def |-> "none", src |-> "none", dst |-> "none", mode |-> "full"] /\ simulate = FALSE
  /\ preview = <<>> /\ previewing = <<>> /\ launching = <<>> /\ started = <<>>
  /\ picks = 0 /\ reviewEdits = 0
  /\ url = 0 /\ result = 0 /\ stillOpening = {} /\ comparing = "no" /\ comparisons = 0 /\ passedBy = FALSE

-----------------------------------------------------------------------------
(* "New run".                                                              *)

Pick == picks < MaxPicks /\ picks' = picks + 1

\* PairSelector: when the engines change, a mode that cannot be launched falls back.
Engines(s) == {<<end, EngineOf[s[end]]>> : end \in {e \in {"src", "dst"} : Chosen(s[e])}}
FallBack(s) == IF s.mode = "query" /\ Engines(s) # Engines(selection) THEN [s EXCEPT !.mode = "full"] ELSE s

\* Mutant: what is chosen next leaves the preview where it is.
ChooseKeeping(s) == selection' = s /\ UNCHANGED preview

\* The watcher on requestBody: a preview of something else is thrown away.
Choose(s) == selection' = s /\ preview' = IF Body(s) = Body(selection) THEN preview ELSE <<>>

\* A saved migration fills the form; without one its fields are free, of which the mode
\* "query" is disabled and "simulate" is none.
ChooseAnother ==
  /\ Pick
  /\ \/ \E d \in SavedMigration :
          Choose(FallBack([def |-> d, src |-> offered[d].src, dst |-> offered[d].dst, mode |-> offered[d].mode]))
     \/ Choose([selection EXCEPT !.def = "none"])
     \/ /\ selection.def = "none"
        /\ \/ \E c \in Endpoint, end \in {"src", "dst"} :
                EngineOf[c] \notin Planned /\ Choose(FallBack([selection EXCEPT ![end] = c]))
           \/ Choose([selection EXCEPT !.mode = "full"])
  /\ UNCHANGED <<saved, offered, simulate, previewing, launching, started, reviewEdits>>

Simulate ==
  /\ Pick /\ simulate' = ~ simulate
  /\ UNCHANGED <<saved, offered, selection, preview, previewing, launching, started, reviewEdits>>

Ready == ModeAvailable(selection)

RunPreview ==
  /\ Ready /\ ~ simulate /\ previewing = <<>>
  /\ previewing' = <<[body |-> Body(selection), of |-> <<>>]>>
  /\ UNCHANGED <<saved, offered, selection, simulate, preview, launching, started, picks, reviewEdits>>

\* preview.post: resolve, inspect, answer; or refuse, or fail.
Inspect ==
  /\ previewing # <<>> /\ previewing[1].of = <<>>
  /\ LET w == Resolved(previewing[1].body)
     IN  \/ ModeAvailable(w) /\ w.src # w.dst /\ previewing' = <<[previewing[1] EXCEPT !.of = <<w>>]>>
         \/ previewing' = <<>>
  /\ UNCHANGED <<saved, offered, selection, simulate, preview, launching, started, picks, reviewEdits>>

\* The answer is shown, whatever is chosen by now.
ShowPreview ==
  /\ previewing # <<>> /\ previewing[1].of # <<>> /\ previewing' = <<>>
  /\ preview' = <<[of |-> previewing[1].of[1], late |-> previewing[1].body # Body(selection)]>>
  /\ UNCHANGED <<saved, offered, selection, simulate, launching, started, picks, reviewEdits>>

NeedsPreview == ~ simulate /\ preview = <<>>

Launch ==
  /\ Ready /\ launching = <<>> /\ ~ NeedsPreview /\ started = <<>>
  /\ launching' = <<[body |-> Body(selection), simulate |-> simulate, seen |-> preview]>>
  /\ UNCHANGED <<saved, offered, selection, simulate, preview, previewing, started, picks, reviewEdits>>

\* runs/index.post: resolved anew; started, refused or failed.
StartRun ==
  /\ launching # <<>> /\ launching' = <<>>
  /\ LET w == Resolved(launching[1].body)
     IN  \/ ModeAvailable(w) /\ w.src # w.dst
            /\ started' = <<[of |-> w, simulate |-> launching[1].simulate, seen |-> launching[1].seen]>>
         \/ UNCHANGED started
  /\ UNCHANGED <<saved, offered, selection, simulate, preview, previewing, picks, reviewEdits>>

\* Somebody else saves the migration anew; the page is not told.
EditSaved ==
  /\ reviewEdits < MaxReviewEdits /\ reviewEdits' = reviewEdits + 1
  /\ \E d \in SavedMigration, w \in What : saved' = [saved EXCEPT ![d] = w]
  /\ UNCHANGED <<offered, selection, simulate, preview, previewing, launching, started, picks>>

-----------------------------------------------------------------------------
(* "Compare".                                                              *)

\* watch(openId, openStored): nothing to fetch if it is shown already.
Opens(v) ==
  /\ url' = v
  /\ IF v = 0 \/ v = result THEN result' = v /\ passedBy' = FALSE /\ UNCHANGED stillOpening
                            ELSE stillOpening' = stillOpening \cup {v} /\ UNCHANGED <<result, passedBy>>

OpenStored ==
  /\ Pick /\ \E v \in 0 .. comparisons : v # url /\ Opens(v)
  /\ UNCHANGED <<comparing, comparisons>>

\* Mutant: a link that cannot be read leaves what is shown.
UnreadableKeeps(v) == result

\* A stale link empties the pane.
Unreadable(v) == 0

ShowStored(v) ==
  /\ v \in stillOpening /\ stillOpening' = stillOpening \ {v}
  /\ \E r \in {v, Unreadable(v)} : result' = r /\ passedBy' = (v # url)
  /\ UNCHANGED <<url, comparing, comparisons>>

\* The server counts and stores, or fails.
Compare ==
  /\ comparing = "no" /\ comparisons < MaxComparisons /\ comparing' = "counting"
  /\ UNCHANGED <<url, result, stillOpening, comparisons, passedBy>>

ShowComparison ==
  /\ comparing = "counting"
  /\ \/ /\ comparing' = "stored" /\ comparisons' = comparisons + 1 /\ result' = comparisons + 1
     \/ comparing' = "no" /\ UNCHANGED <<comparisons, result>>
  /\ UNCHANGED <<url, stillOpening, passedBy>>

\* The history is read again, and then the URL names what was stored.
NameIt ==
  /\ comparing = "stored" /\ comparing' = "no" /\ Opens(comparisons) /\ UNCHANGED comparisons

-----------------------------------------------------------------------------
NewRunNext ==
  ChooseAnother \/ Simulate \/ RunPreview \/ Inspect \/ ShowPreview \/ Launch \/ StartRun \/ EditSaved

CompareNext ==
  \/ OpenStored
  \/ (Compare \/ ShowComparison \/ NameIt \/ \E v \in 1 .. MaxComparisons : ShowStored(v)) /\ UNCHANGED picks

ReviewNext ==
  \/ openPage = "new run" /\ NewRunNext /\ UNCHANGED <<openPage, compareVars>>
  \/ openPage = "compare" /\ CompareNext /\ UNCHANGED <<openPage, newRunVars>>

ReviewSpec == ReviewInit /\ [][ReviewNext]_reviewVars

-----------------------------------------------------------------------------
\* new.vue: what is launched, other than a simulation, is what the preview on the page
\* was made of, unless the selection changed while it was being made (the late answer is
\* shown, and enables the launch) or somebody saved the migration anew.
LaunchFollowsPreview ==
  started # <<>> /\ ~ started[1].simulate =>
    /\ started[1].seen # <<>>
    /\ started[1].of = started[1].seen[1].of \/ started[1].seen[1].late \/ reviewEdits > 0

\* compare.vue: the result someone looks at is the one they can send: when nothing is on
\* its way the URL names what is shown, or nothing is shown; unless a stored comparison
\* came after the URL had moved on.
UrlNamesResult ==
  stillOpening = {} /\ comparing = "no" => result \in {0, url} \/ passedBy
=============================================================================
