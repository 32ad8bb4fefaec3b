------------------------------ MODULE PageShell ------------------------------
(***************************************************************************)
(* State every page of the frontend shares.                                 *)
(*   toasts       hooks/use-toast.ts: one visible toast, removed by a timer *)
(*                long after it was dismissed;                              *)
(*   install      features/pwa: the browser's deferred install event, which *)
(*                can be shown once, and the banner that offers it;         *)
(*   preferences  features/profile: one map in localStorage, written by     *)
(*                every tab and followed through storage events.            *)
(***************************************************************************)
EXTENDS Naturals, Sequences, FiniteSets

CONSTANTS
    MaxToasts,       \* bound: calls of toast()
    DismissTtl,      \* DISMISS_TTL_MS, in ticks
    MaxInstallTime,  \* bound: ticks
    MaxPromptEvents, \* bound: beforeinstallprompt events
    ProfileTabs,     \* browser tabs
    Scopes,          \* external:<wallet>
    Identities,      \* texts a user types
    MaxSaves         \* bound: saves

ASSUME ShellAssumption ==
    /\ {MaxToasts, DismissTtl, MaxInstallTime, MaxPromptEvents, MaxSaves} \subseteq Nat
    /\ Scopes # {}

VARIABLES
    toasts,       \* memoryState.toasts
    toastTimers,  \* toasts whose removal is scheduled
    toastCount,   \* genId
    shown,        \* what the mounted Toaster renders
    install,      \* PwaInstallState: deferredPrompt (0 none), native and manual flags, isInstalled
    prompts,      \* events whose userChoice a showPwaInstallPrompt call awaits
    fired,        \* beforeinstallprompt events so far: the number of the newest one
    usedEvents,   \* events whose choice has been made
    banner,       \* dismissedAt stored and shown, currentTimestamp, instructions
    installTime,
    prefs,        \* localStorage: preferences of every scope
    tabs,         \* each tab: scope of its wallet, preferences shown, storage events queued
    saves

toastVars == <<toasts, toastTimers, toastCount, shown>>
installVars == <<install, prompts, fired, usedEvents, banner, installTime>>
profileVars == <<prefs, tabs, saves>>
shellVars == <<toastVars, installVars, profileVars>>

-----------------------------------------------------------------------------
(* Toasts *)
ToastLimit == 1
NewestToasts(list) == SubSeq(list, 1, IF Len(list) < ToastLimit THEN Len(list) ELSE ToastLimit)

ToastInit ==
    /\ toasts = <<>>
    /\ toastTimers = {}
    /\ toastCount = 0
    /\ shown = <<>>

(* dispatch: the state is replaced and every listener is called with it. *)
Dispatch(list) == toasts' = list /\ shown' = list

ShowToast ==
    /\ toastCount < MaxToasts
    /\ toastCount' = toastCount + 1
    /\ Dispatch(NewestToasts(<<[id |-> toastCount + 1, open |-> TRUE]>> \o toasts))
    /\ UNCHANGED toastTimers

(* onOpenChange(false), or dismiss() of a toast that may be gone already *)
DismissToast ==
    /\ \E id \in 1..toastCount :
         /\ toastTimers' = toastTimers \cup {id}
         /\ Dispatch([i \in DOMAIN toasts |->
                        IF toasts[i].id = id THEN [toasts[i] EXCEPT !.open = FALSE] ELSE toasts[i]])
    /\ UNCHANGED toastCount

RemoveFrom(id) == SelectSeq(toasts, LAMBDA t : t.id # id)

RemoveToast ==
    /\ \E id \in toastTimers :
         /\ toastTimers' = toastTimers \ {id}
         /\ Dispatch(RemoveFrom(id))
    /\ UNCHANGED toastCount

ToastNext == ShowToast \/ DismissToast \/ RemoveToast

-----------------------------------------------------------------------------
(* Installing the application *)
InstallInit ==
    /\ \E manual \in BOOLEAN :      \* an iOS Safari
         install = [deferredPrompt |-> 0, native |-> FALSE, manual |-> manual,
                    isInstalled |-> FALSE]
    /\ prompts = {}
    /\ fired = 0
    /\ usedEvents = {}
    /\ banner = [stored |-> 0, dismissedAt |-> 0, now |-> 0, instructions |-> FALSE]
    /\ installTime = 1

OtherInstall == UNCHANGED <<fired, banner, installTime>>

(* handleBeforeInstallPrompt; the browser may fire the event again at any   *)
(* time, a new event object each time.                                      *)
BeforeInstallPrompt ==
    /\ fired < MaxPromptEvents
    /\ fired' = fired + 1
    /\ install' = [install EXCEPT !.deferredPrompt = fired + 1, !.native = TRUE,
                                  !.isInstalled = FALSE]
    /\ UNCHANGED <<prompts, usedEvents, banner, installTime>>

ClearPwaDeferredPrompt(state) == [state EXCEPT !.deferredPrompt = 0, !.native = FALSE]

AppInstalled ==
    /\ install' = [ClearPwaDeferredPrompt(install) EXCEPT !.isInstalled = TRUE]
    /\ UNCHANGED <<prompts, usedEvents>> /\ OtherInstall

(* syncInstallState, on a change of the display mode *)
DisplayModeChanges ==
    /\ \E standalone \in BOOLEAN : install' = [install EXCEPT !.isInstalled = standalone]
    /\ UNCHANGED <<prompts, usedEvents>> /\ OtherInstall

IsDismissed == banner.dismissedAt # 0 /\ banner.now - banner.dismissedAt < DismissTtl
CanShowPrompt == ~install.isInstalled /\ ~IsDismissed /\ (install.native \/ install.manual)

(* promptInstall calls showPwaInstallPrompt, which awaits the user. *)
PromptInstall ==
    /\ CanShowPrompt
    /\ install.native
    /\ prompts' = prompts \cup {install.deferredPrompt}
    /\ UNCHANGED <<install, usedEvents>> /\ OtherInstall

ShowInstructions ==
    /\ CanShowPrompt
    /\ ~install.native
    /\ banner' = [banner EXCEPT !.instructions = TRUE]
    /\ UNCHANGED <<install, prompts, fired, usedEvents, installTime>>

AfterChoice(state, outcome) ==
    [ClearPwaDeferredPrompt(state) EXCEPT
        !.isInstalled = IF outcome = "accepted" THEN TRUE ELSE @]

(* The user chooses: every call that awaits this event's userChoice goes on.*)
UserChoice ==
    /\ \E event \in prompts, outcome \in {"accepted", "dismissed"} :
         /\ install' = AfterChoice(install, outcome)
         /\ usedEvents' = usedEvents \cup {event}
         /\ prompts' = prompts \ {event}
         /\ banner' = [banner EXCEPT !.instructions = @ \/ outcome = "dismissed"]
    /\ UNCHANGED <<fired, installTime>>

(* dismissPrompt stores the time and shows it; a reload reads it back. *)
DismissPrompt ==
    /\ CanShowPrompt
    /\ banner' = [banner EXCEPT !.stored = installTime, !.dismissedAt = installTime,
                                !.now = installTime]
    /\ UNCHANGED <<install, prompts, fired, usedEvents, installTime>>

ReloadPage ==
    /\ prompts' = {}
    /\ install' = [ClearPwaDeferredPrompt(install) EXCEPT !.isInstalled = FALSE]
    /\ banner' = [banner EXCEPT !.dismissedAt = banner.stored, !.now = installTime,
                                !.instructions = FALSE]
    /\ UNCHANGED <<fired, usedEvents, installTime>>

InstallTick ==
    /\ installTime < MaxInstallTime
    /\ installTime' = installTime + 1
    /\ UNCHANGED <<install, prompts, fired, usedEvents, banner>>

InstallNext ==
    \/ BeforeInstallPrompt \/ AppInstalled \/ DisplayModeChanges
    \/ PromptInstall \/ ShowInstructions \/ UserChoice \/ DismissPrompt
    \/ ReloadPage \/ InstallTick

-----------------------------------------------------------------------------
(* Profile preferences *)
EmptyPreferences == [customIdentity |-> "", xHandle |-> ""]
FirstScope == CHOOSE s \in Scopes : TRUE

ProfileInit ==
    /\ prefs = [s \in Scopes |-> EmptyPreferences]
    /\ tabs = [t \in ProfileTabs |-> [scope |-> FirstScope, shown |-> EmptyPreferences,
                                      storageEvents |-> 0]]
    /\ saves = 0

(* writeProfilePreferences spreads the normalized partial over the stored   *)
(* preferences: normalizing fills the field the form did not send.          *)
WritePreferences(field, text) == [EmptyPreferences EXCEPT ![field] = text]

NotifyNobody(t) ==           \* variant: no listener for storage events
    [u \in ProfileTabs |-> 0]

NotifyOthers(t) == [u \in ProfileTabs |-> IF u = t THEN 0 ELSE 1]

(* savePreferences: the map is written, the tab shows what was written and  *)
(* every other tab is sent a storage event.                                 *)
SavePreferences(t) ==
    /\ saves < MaxSaves
    /\ saves' = saves + 1
    /\ \E field \in {"customIdentity", "xHandle"}, text \in Identities :
         LET saved == WritePreferences(field, text)
             events == NotifyOthers(t) IN
         /\ prefs' = [prefs EXCEPT ![tabs[t].scope] = saved]
         /\ tabs' = [u \in ProfileTabs |->
                       [tabs[u] EXCEPT !.shown = IF u = t THEN saved ELSE @,
                                       !.storageEvents = @ + events[u]]]

SyncPreferences(t) ==
    /\ tabs[t].storageEvents > 0
    /\ tabs' = [tabs EXCEPT ![t].storageEvents = @ - 1, ![t].shown = prefs[tabs[t].scope]]
    /\ UNCHANGED <<prefs, saves>>

(* Another wallet: the effect of useProfilePreferences reads its scope. *)
SwitchScope(t) ==
    /\ \E s \in Scopes \ {tabs[t].scope} :
         tabs' = [tabs EXCEPT ![t].scope = s, ![t].shown = prefs[s]]
    /\ UNCHANGED <<prefs, saves>>

ProfileNext == \E t \in ProfileTabs : SavePreferences(t) \/ SyncPreferences(t) \/ SwitchScope(t)

ShellInit == ToastInit /\ InstallInit /\ ProfileInit

ShellNext ==
    \/ ToastNext /\ UNCHANGED <<installVars, profileVars>>
    \/ InstallNext /\ UNCHANGED <<toastVars, profileVars>>
    \/ ProfileNext /\ UNCHANGED <<toastVars, installVars>>

ShellSpec == ShellInit /\ [][ShellNext]_shellVars

-----------------------------------------------------------------------------

(* The banner never offers an install event the user has already answered:  *)
(* such an event's prompt() throws.  However clicks, choices, reloads and   *)
(* new events interleave, what is offered is unanswered.                    *)
OfferIsUnanswered == install.native => install.deferredPrompt \notin usedEvents

(* Once its storage events are handled, every tab shows what localStorage   *)
(* holds for its wallet's scope, whichever tabs saved and whichever wallets *)
(* were switched meanwhile.                                                 *)
TabsFollowStorage ==
    \A t \in ProfileTabs : tabs[t].storageEvents = 0 => tabs[t].shown = prefs[tabs[t].scope]

(* What the page shows follows the browser: the install event at hand and   *)
(* the stored profile.                                                      *)
PageFollowsBrowser == OfferIsUnanswered /\ TabsFollowStorage
=============================================================================
