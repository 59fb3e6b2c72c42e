------------------------------- MODULE MCPages -----------------------------
(***************************************************************************)
(* The auth store in the tabs of a browser (AuthStore itself), and the     *)
(* pages and the other stores of a tab.                                    *)
(***************************************************************************)
EXTENDS AuthStore, TLC

CONSTANTS
  People, Modes, Elements, None,
  Questions,  \* questions of a game
  Limit,      \* sessions of a page of the history
  MaxToasts,  \* toasts shown at once
  AdminCommands, GameCommands, MaxSets, MaxToken, KeyedCalls, KeyedSteps,
  MaxPlayed, PagedCalls, PagedSteps, MaxMounts, AccountCommands, MaxShown,
  MaxChanges  \* bounds on what a behaviour holds

VARIABLES
  which, \* the component of this behaviour
  adminAuth, adminDirty, adminPage, adminLeft,
  gameWho, gameAt, gameGame, gameRestore, gameStore, gameIssued, gameWire,
  gameSaved, gameLeft,
  keyedPage, keyedSession, keyedQuery, keyedSeen, keyedState, keyedCalls,
  keyedDeletions, keyedWeak, keyedIssued, keyedLeft,
  pagedPage, pagedSession, pagedQuery, pagedSeen, pagedState, pagedCalls,
  pagedSaved, pagedIssued, pagedLeft,
  accountWho, accountShown, accountPage, accountMount, accountCalls,
  accountTimers, accountDeleted, accountLeft,
  toastToasts, toastToastTimers, toastShows,
  themeStored, themeSystem, themeTab, themeChanges

adminVars ==
  <<adminAuth, adminDirty, adminPage, adminLeft>>
gameVars ==
  <<gameWho, gameAt, gameGame, gameRestore, gameStore, gameIssued, gameWire,
    gameSaved, gameLeft>>
keyedVars ==
  <<keyedPage, keyedSession, keyedQuery, keyedSeen, keyedState, keyedCalls,
    keyedDeletions, keyedWeak, keyedIssued, keyedLeft>>
pagedVars ==
  <<pagedPage, pagedSession, pagedQuery, pagedSeen, pagedState, pagedCalls,
    pagedSaved, pagedIssued, pagedLeft>>
accountVars ==
  <<accountWho, accountShown, accountPage, accountMount, accountCalls,
    accountTimers, accountDeleted, accountLeft>>
toastVars ==
  <<toastToasts, toastToastTimers, toastShows>>
themeVars ==
  <<themeStored, themeSystem, themeTab, themeChanges>>
allVars ==
  <<which, vars, adminVars, gameVars, keyedVars, pagedVars, accountVars,
    toastVars, themeVars>>

Admin == INSTANCE AdminPage WITH
    Users <- People, Filters <- Modes, MaxCommands <- AdminCommands, auth <- adminAuth,
    dirty <- adminDirty, page <- adminPage, left <- adminLeft
Game == INSTANCE GamePages WITH
    Users <- People, MaxCommands <- GameCommands,
    who <- gameWho, at <- gameAt, game <- gameGame, restore <- gameRestore,
    store <- gameStore, issued <- gameIssued, wire <- gameWire,
    saved <- gameSaved, left <- gameLeft
Keyed == INSTANCE KeyedLoad WITH
    Pages <- {"weak", "stats", "ranking", "index", "home"}, Queries <- Modes,
    MaxCalls <- KeyedCalls, MaxSteps <- KeyedSteps, page <- keyedPage,
    session <- keyedSession, query <- keyedQuery, seen <- keyedSeen,
    state <- keyedState, calls <- keyedCalls, deletions <- keyedDeletions,
    weak <- keyedWeak, issued <- keyedIssued, left <- keyedLeft
Paged == INSTANCE PagedLoad WITH
    Pages <- {"history", "elements"}, MaxCalls <- PagedCalls,
    MaxSteps <- PagedSteps, page <- pagedPage,
    session <- pagedSession, query <- pagedQuery, seen <- pagedSeen,
    state <- pagedState, calls <- pagedCalls, saved <- pagedSaved,
    issued <- pagedIssued, left <- pagedLeft
Account == INSTANCE AccountPages WITH
    Users <- People,
    Visited <- {"settings", "login", "register", "verify", "home", "forgot", "reset"},
    MaxCommands <- AccountCommands, who <- accountWho,
    shown <- accountShown, page <- accountPage, mount <- accountMount,
    calls <- accountCalls, timers <- accountTimers, deleted <- accountDeleted,
    left <- accountLeft
Toast == INSTANCE ToastStore WITH
    toasts <- toastToasts,
    toastTimers <- toastToastTimers, shows <- toastShows
Theme == INSTANCE ThemeStore WITH
    stored <- themeStored, system <- themeSystem,
    tab <- themeTab, changes <- themeChanges

(* What the modules take for granted of their constants.                    *)
ASSUME InstancesAssumption ==
  /\ Admin!AdminPageAssumption /\ Game!GamePagesAssumption
  /\ Keyed!KeyedLoadAssumption /\ Paged!PagedLoadAssumption
  /\ Toast!ToastStoreAssumption /\ Theme!ThemeStoreAssumption
  /\ Account!AccountPagesAssumption

StoreRests ==
  Init /\ jar = 0

AdminRests ==
  /\ adminAuth = None /\ adminDirty = None /\ adminPage = None
  /\ adminLeft = None

GameRests ==
  /\ gameWho = None /\ gameAt = None /\ gameGame = None /\ gameRestore = None
  /\ gameStore = None /\ gameIssued = None /\ gameWire = None
  /\ gameSaved = None /\ gameLeft = None

KeyedRests ==
  /\ keyedPage = None /\ keyedSession = None /\ keyedQuery = None
  /\ keyedSeen = None /\ keyedState = None /\ keyedCalls = None
  /\ keyedDeletions = None /\ keyedWeak = None /\ keyedIssued = None
  /\ keyedLeft = None

PagedRests ==
  /\ pagedPage = None /\ pagedSession = None /\ pagedQuery = None
  /\ pagedSeen = None /\ pagedState = None /\ pagedCalls = None
  /\ pagedSaved = None /\ pagedIssued = None /\ pagedLeft = None

AccountRests ==
  /\ accountWho = None /\ accountShown = None /\ accountPage = None
  /\ accountMount = None /\ accountCalls = None /\ accountTimers = None
  /\ accountDeleted = None /\ accountLeft = None

ToastRests ==
  /\ toastToasts = None /\ toastToastTimers = None /\ toastShows = None

ThemeRests ==
  /\ themeStored = None /\ themeSystem = None /\ themeTab = None
  /\ themeChanges = None

(* All start, and then only one component moves. *)
AllInit ==
  /\ which \in {"store", "admin", "game", "keyed", "paged", "account",
                  "toast", "theme"}
  /\ IF which = "store" THEN Init ELSE StoreRests
  /\ IF which = "admin" THEN Admin!Init ELSE AdminRests
  /\ IF which = "game" THEN Game!Init ELSE GameRests
  /\ IF which = "keyed" THEN Keyed!Init ELSE KeyedRests
  /\ IF which = "paged" THEN Paged!Init ELSE PagedRests
  /\ IF which = "account" THEN Account!Init ELSE AccountRests
  /\ IF which = "toast" THEN Toast!ToastInit ELSE ToastRests
  /\ IF which = "theme" THEN Theme!ThemeInit ELSE ThemeRests

AllNext ==
  \/ /\ which = "store" /\ Next
     /\ UNCHANGED <<which, adminVars, gameVars, keyedVars, pagedVars,
                  accountVars, toastVars, themeVars>>
  \/ /\ which = "admin" /\ Admin!Next
     /\ UNCHANGED <<which, vars, gameVars, keyedVars, pagedVars, accountVars,
                  toastVars, themeVars>>
  \/ /\ which = "game" /\ Game!Next
     /\ UNCHANGED <<which, vars, adminVars, keyedVars, pagedVars, accountVars,
                  toastVars, themeVars>>
  \/ /\ which = "keyed" /\ Keyed!Next
     /\ UNCHANGED <<which, vars, adminVars, gameVars, pagedVars, accountVars,
                  toastVars, themeVars>>
  \/ /\ which = "paged" /\ Paged!Next
     /\ UNCHANGED <<which, vars, adminVars, gameVars, keyedVars, accountVars,
                  toastVars, themeVars>>
  \/ /\ which = "account" /\ Account!Next
     /\ UNCHANGED <<which, vars, adminVars, gameVars, keyedVars, pagedVars,
                  toastVars, themeVars>>
  \/ /\ which = "toast" /\ Toast!ToastNext
     /\ UNCHANGED <<which, vars, adminVars, gameVars, keyedVars, pagedVars,
                  accountVars, themeVars>>
  \/ /\ which = "theme" /\ Theme!ThemeNext
     /\ UNCHANGED <<which, vars, adminVars, gameVars, keyedVars, pagedVars,
                  accountVars, toastVars>>

AllSpec == AllInit /\ [][AllNext]_allVars

(* Each page stays within its types.                                       *)
PagesTyped ==
  /\ (which = "admin" => Admin!TypeOK) /\ (which = "game" => Game!TypeOK)
  /\ (which = "keyed" => Keyed!TypeOK) /\ (which = "paged" => Paged!TypeOK)
  /\ (which = "account" => Account!TypeOK)

(* A page that is neither loading nor in error shows what its filters, its *)
(* URL and its session ask for, in whatever order answers arrive; and a    *)
(* tab shows its preference, or the system's theme without one.            *)
ShowsWhatWasAsked ==
  /\ (which = "admin" => Admin!ShowsWhatWasAsked)
  /\ (which = "keyed" => Keyed!ShowsWhatWasAsked)
  /\ (which = "paged" => Paged!ShowsWhatWasAsked)
  /\ (which = "theme" => Theme!ThemeShown)

(* Without the right to see them nothing of the users is kept by the       *)
(* administrators' page, and no late answer brings it back; a result is    *)
(* shown only to the user who played the game.                             *)
NothingOfOthers ==
  /\ (which = "admin" => Admin!RefusedShowsNothing)
  /\ (which = "game" => Game!OwnResult)

(* Answers are those of the questions shown, each once and in order, what  *)
(* is sent or saved is a whole game of one set; and the pages of a history *)
(* fit together while games are saved.                                     *)
InOrder ==
  /\ (which = "game" => Game!GameInOrder)
  /\ (which = "paged" => Paged!HistoryInOrder)

(* Signs of loading and sending, timers and toasts go when their call or   *)
(* their page does.                                                        *)
SignsEnd ==
  /\ (which = "game" => Game!SignsEnd) /\ (which = "keyed" => Keyed!SignsEnd)
  /\ (which = "paged" => Paged!SignsEnd)
  /\ (which = "account" => Account!SignsEnd)
  /\ (which = "toast" => Toast!ToastsEnd)

Symmetry == Permutations(Tabs) \cup Permutations(People)

=============================================================================
