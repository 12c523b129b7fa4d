------------------------------- MODULE Updates -------------------------------
(* The way of a published version to the player: the service that asks          *)
(* Squirrel on timers, its status, the messages to the window, the notice with  *)
(* its two buttons, and the restart that installs. Squirrel and the release     *)
(* feed are external and do what the service's listeners expect of them.        *)
EXTENDS Integers, Sequences

CONSTANTS MaxVersion,
          Unnamed,                       \* a package the feed gives no name
          MaxFailures, MaxLaunches,
          MaxPushed                       \* messages to the window in flight

ASSUME UpdatesAssumption ==
  /\ {MaxVersion, MaxFailures, MaxLaunches, MaxPushed} \subseteq Nat
  /\ Unnamed \notin Nat

VARIABLES latest, installed,   \* versions of the feed and of this application
          squirrel,            \* "idle", "checking" or "fetching"
          package,             \* the version Squirrel fetches or has fetched, or 0
          status,              \* the service's UpdateStatus; "ready" has a version
          mounted,             \* the notice listens
          requests,            \* requestStatus messages on their way
          pushed,               \* status messages on their way to the window, oldest first
          view, dismissed,     \* the notice's own copy, and the version put off, or 0
          failures, launches

updatesVars == <<latest, installed, squirrel, package, status, mounted, requests, pushed, view, dismissed, failures, launches>>
windowVars == <<mounted, requests, view, dismissed>>

Is(kind) == [kind |-> kind, version |-> 0]
INITIAL_UPDATE_STATUS == Is("idle")

(* Two releases may be out by the time the application starts; a checkout has no updater. *)
UpdatesInit ==
  /\ latest \in 1..MaxVersion /\ installed = 1
  /\ squirrel = "idle" /\ package = 0
  /\ status \in {INITIAL_UPDATE_STATUS, Is("unsupported")}
  /\ mounted = FALSE /\ requests = 0 /\ pushed = <<>>
  /\ view = INITIAL_UPDATE_STATUS /\ dismissed = 0
  /\ failures = 0 /\ launches = 1

canCheckForUpdates_NotAfterError == status.kind \in {"idle", "up-to-date"}
canCheckForUpdates == status.kind \in {"idle", "up-to-date", "error"}

(* nextUpdateStatus and the push: what is ready or unsupported stays so, and nobody is told. *)
Apply(event) ==
  IF status.kind \in {"ready", "unsupported"} THEN UNCHANGED <<status, pushed>>
  ELSE status' = event /\ Len(pushed) < MaxPushed /\ pushed' = Append(pushed, event)

Publish == latest < MaxVersion /\ latest' = latest + 1 /\
           UNCHANGED <<installed, squirrel, package, status, pushed, windowVars, failures, launches>>

Check ==
  /\ canCheckForUpdates /\ squirrel = "idle"
  /\ \/ squirrel' = "checking" /\ Apply(Is("checking")) /\ UNCHANGED failures
     \/ /\ failures < MaxFailures /\ failures' = failures + 1
        /\ Apply(Is("error")) /\ UNCHANGED squirrel
  /\ UNCHANGED <<latest, installed, package, windowVars, launches>>

NothingNew ==
  /\ squirrel = "checking" /\ latest = installed
  /\ squirrel' = "idle" /\ Apply(Is("up-to-date"))
  /\ UNCHANGED <<latest, installed, package, windowVars, failures, launches>>

Found ==
  /\ squirrel = "checking" /\ latest > installed
  /\ squirrel' = "fetching" /\ package' = latest /\ Apply(Is("downloading"))
  /\ UNCHANGED <<latest, installed, windowVars, failures, launches>>

Downloaded ==
  /\ squirrel = "fetching"
  /\ squirrel' = "idle"
  /\ \E name \in {package, Unnamed} : Apply([kind |-> "ready", version |-> name])
  /\ UNCHANGED <<latest, installed, package, windowVars, failures, launches>>

SquirrelFails ==
  /\ squirrel # "idle" /\ failures < MaxFailures
  /\ failures' = failures + 1
  /\ squirrel' = "idle" /\ package' = 0 /\ Apply(Is("error"))
  /\ UNCHANGED <<latest, installed, windowVars, launches>>

Mount ==
  /\ ~mounted
  /\ mounted' = TRUE /\ requests' = 1
  /\ UNCHANGED <<latest, installed, squirrel, package, status, pushed, view, dismissed, failures, launches>>

AnswerRequest ==
  /\ requests > 0 /\ Len(pushed) < MaxPushed
  /\ requests' = requests - 1
  /\ pushed' = Append(pushed, status)
  /\ UNCHANGED <<latest, installed, squirrel, package, status, mounted, view, dismissed, failures, launches>>

(* A message that comes before the notice listens is lost. *)
Receive ==
  /\ pushed # <<>>
  /\ pushed' = Tail(pushed)
  /\ view' = IF mounted THEN Head(pushed) ELSE view
  /\ UNCHANGED <<latest, installed, squirrel, package, status, mounted, requests, dismissed, failures, launches>>

Offered == mounted /\ view.kind = "ready" /\ dismissed # view.version

Later ==
  /\ Offered
  /\ dismissed' = view.version
  /\ UNCHANGED <<latest, installed, squirrel, package, status, mounted, requests, pushed, view, failures, launches>>

(* The process ends, by the notice's button or otherwise, and a fetched package is installed. *)
Relaunch ==
  /\ launches < MaxLaunches
  /\ launches' = launches + 1
  /\ installed' = IF status.kind = "ready" THEN package ELSE installed
  /\ squirrel' = "idle" /\ package' = 0
  /\ status' = IF status.kind = "unsupported" THEN status ELSE INITIAL_UPDATE_STATUS
  /\ mounted' = FALSE /\ requests' = 0 /\ pushed' = <<>>
  /\ view' = INITIAL_UPDATE_STATUS /\ dismissed' = 0
  /\ UNCHANGED <<latest, failures>>

UpdatesNext ==
  \/ Publish \/ Check \/ NothingNew \/ Found \/ Downloaded \/ SquirrelFails
  \/ Mount \/ AnswerRequest \/ Receive \/ Later \/ Relaunch

(* Timers fire, Squirrel answers, the window loads and messages arrive. *)
UpdatesFairness ==
  /\ WF_updatesVars(Check) /\ WF_updatesVars(NothingNew \/ Found \/ Downloaded)
  /\ WF_updatesVars(Mount) /\ WF_updatesVars(AnswerRequest) /\ WF_updatesVars(Receive)

UpdatesSpec == UpdatesInit /\ [][UpdatesNext]_updatesVars /\ UpdatesFairness

(* A player who runs an old version is offered a newer one in every run of the *)
(* application that lasts, whatever failed before, whenever the window came to *)
(* listen, and whatever Squirrel's package is called (update-service.ts,       *)
(* nextUpdateStatus, UpdateNotice.tsx).                                        *)
PublishedIsOffered ==
  \A n \in 1..MaxLaunches :
    (installed < latest /\ launches = n /\ status.kind # "unsupported")
      ~> (Offered \/ dismissed # 0 \/ launches # n)
=============================================================================
