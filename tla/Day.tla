--------------------------------- MODULE Day ---------------------------------
(***************************************************************************)
(* A day's work: a tab of the console, the crews' visits, ratings, weather *)
(* alerts, the queue of messages, the cold email sequence, the Meta inbox, *)
(* the accounts, and the process itself.                                   *)
(*                                                                         *)
(* Each component with parameters of its own.  A behaviour is about one of *)
(* them, its subject, and of the others nothing happens.                   *)
(***************************************************************************)
EXTENDS Access

CONSTANTS
  QueueWorkers, MaxMessages, ColdEmails, BatchLimit, LeaseTicks, MaxAttempts,
  SendLater, Answers, MaxQueueFaults,                       \* MessageQueue
  Offices, OfficeSlots,                                     \* Access, of corporate accounts only
  TabAccounts, TabRole, Nothing, NoKey, Walk, Keys,
  MaxLoads, MaxUpsets,                                      \* Tab
  Visits, Crews, Dispatchers, Photos, KindOf,
  VisitRequests, Unassigned, MaxStandings,                  \* Visits
  Jobs, CustomerOf, Rounds, Taps, Ratings, GoodRating,
  MaxDays, Cooldown, Lookback, MaxCrashes,                  \* Reviews
  Regions, Residents, LivesIn, Checks, MaxChecks,           \* Weather
  Prospects, Steps, DripRequests, MaxOptIns,                \* Drip
  Incoming, Replies, Handlers, InboxWorkers,
  MaxReplyAttempts, MaxInboxFaults,                         \* Inbox
  Names, Connections, Signals, MaxTurns                     \* Process

ASSUME RatingsAssumption ==
  /\ IsFiniteSet(Jobs) /\ Ratings \subseteq Nat \ {0} /\ GoodRating \in Nat
  /\ MaxDays \in Nat /\ Cooldown \in Nat /\ MaxCrashes \in Nat
ASSUME WeatherAssumption == IsFiniteSet(Regions) /\ MaxChecks \in Nat
ASSUME VisitsAssumption == MaxStandings \in Nat
ASSUME ProcessAssumption == IsFiniteSet(Signals) /\ MaxTurns \in Nat
ASSUME DripAssumption == Steps \in Nat \ {0} /\ MaxOptIns \in Nat

VARIABLES
  subject,   \* "queue", "access", "deleting", "tab", "visits", "reviews", "weather",
             \* "drip", "inbox" or "process"
  queueStatus, queueSentAt, queueAttempts, queueLease, queueHold,
  queueWithdrawn, queuePc, queueBatch, queueVerdict, queueElapsed,
  queueAccepted, queueRefused, queueOverran, queueFaults,
  tabToken, tabUser, tabScreen, tabKey, tabShown, tabFailed, tabAsked,
  tabForm, tabSaved, tabCustomers, tabHouses, tabLost, tabEnded, tabUpsets,
  visitsOrder, visitsStaff, visitsFit, visitsStandings, visitsHandling, visitsNotices,
  reviewsDay, reviewsFinished, reviewsAsked, reviewsRound, reviewsTap,
  reviewsAlerts, reviewsCrashes,
  weatherRecorded, weatherCheck, weatherNotices, weatherCrossed,
  weatherStarted,
  dripLead, dripMail, dripInHand, dripSent, dripBought, dripHeld,
  inboxStored, inboxReply, inboxWindow, inboxReached, inboxHandler,
  inboxWorker, inboxFaults,
  processCopies, processInFlight, processTurns, processStopping,
  processOpen, processListening, processHandler, processExit

queueVars == <<queueStatus, queueSentAt, queueAttempts, queueLease, queueHold,
    queueWithdrawn, queuePc, queueBatch, queueVerdict, queueElapsed,
    queueAccepted, queueRefused, queueOverran, queueFaults>>
accessVars == <<now, row, sessions, slot, manager, audited, changes>>
tabVars == <<tabToken, tabUser, tabScreen, tabKey, tabShown, tabFailed, tabAsked,
    tabForm, tabSaved, tabCustomers, tabHouses, tabLost, tabEnded,
    tabUpsets>>
visitsVars == <<visitsOrder, visitsStaff, visitsFit, visitsStandings, visitsHandling, visitsNotices>>
reviewsVars == <<reviewsDay, reviewsFinished, reviewsAsked, reviewsRound, reviewsTap,
    reviewsAlerts, reviewsCrashes>>
weatherVars == <<weatherRecorded, weatherCheck, weatherNotices, weatherCrossed,
    weatherStarted>>
dripVars == <<dripLead, dripMail, dripInHand, dripSent, dripBought, dripHeld>>
inboxVars == <<inboxStored, inboxReply, inboxWindow, inboxReached, inboxHandler,
    inboxWorker, inboxFaults>>
processVars == <<processCopies, processInFlight, processTurns, processStopping,
    processOpen, processListening, processHandler, processExit>>
dayVars == <<subject, queueVars, accessVars, tabVars, visitsVars, reviewsVars, weatherVars, dripVars, inboxVars, processVars>>

Is(s) == subject = s

(* Variables of the components a behaviour is not about. *)
NoQueue ==
  /\ queueStatus = 0 /\ queueSentAt = 0 /\ queueAttempts = 0
  /\ queueLease = 0 /\ queueHold = 0 /\ queueWithdrawn = 0 /\ queuePc = 0
  /\ queueBatch = 0 /\ queueVerdict = 0 /\ queueElapsed = 0
  /\ queueAccepted = 0 /\ queueRefused = 0 /\ queueOverran = 0 /\ queueFaults = 0
NoAccess ==
  /\ now = 0 /\ row = 0 /\ sessions = 0 /\ slot = 0 /\ manager = 0
  /\ audited = 0 /\ changes = 0
NoTab ==
  /\ tabToken = 0 /\ tabUser = 0 /\ tabScreen = 0 /\ tabKey = 0
  /\ tabShown = 0 /\ tabFailed = 0 /\ tabAsked = 0 /\ tabForm = 0
  /\ tabSaved = 0 /\ tabCustomers = 0 /\ tabHouses = 0 /\ tabLost = 0
  /\ tabEnded = 0 /\ tabUpsets = 0
NoVisits ==
  /\ visitsOrder = 0 /\ visitsStaff = 0 /\ visitsFit = 0 /\ visitsStandings = 0
  /\ visitsHandling = 0 /\ visitsNotices = 0
NoReviews ==
  /\ reviewsDay = 0 /\ reviewsFinished = 0 /\ reviewsAsked = 0
  /\ reviewsRound = 0 /\ reviewsTap = 0 /\ reviewsAlerts = 0
  /\ reviewsCrashes = 0
NoWeather ==
  /\ weatherRecorded = 0 /\ weatherCheck = 0 /\ weatherNotices = 0
  /\ weatherCrossed = 0 /\ weatherStarted = 0
NoDrip ==
  /\ dripLead = 0 /\ dripMail = 0 /\ dripInHand = 0 /\ dripSent = 0
  /\ dripBought = 0 /\ dripHeld = 0
NoInbox ==
  /\ inboxStored = 0 /\ inboxReply = 0 /\ inboxWindow = 0 /\ inboxReached = 0
  /\ inboxHandler = 0 /\ inboxWorker = 0 /\ inboxFaults = 0
NoProcess ==
  /\ processCopies = 0 /\ processInFlight = 0 /\ processTurns = 0
  /\ processStopping = 0 /\ processOpen = 0 /\ processListening = 0
  /\ processHandler = 0 /\ processExit = 0

(* A worker's batch may outlast its lease: rows change hands. *)
Q == INSTANCE MessageQueueProofs WITH
  Workers <- QueueWorkers, MaxFaults <- MaxQueueFaults,
  status <- queueStatus, sentAt <- queueSentAt, attempts <- queueAttempts,
  lease <- queueLease, hold <- queueHold, withdrawn <- queueWithdrawn,
  pc <- queuePc, batch <- queueBatch, verdict <- queueVerdict,
  elapsed <- queueElapsed, accepted <- queueAccepted, refused <- queueRefused,
  overran <- queueOverran, faults <- queueFaults

(* Corporate accounts that may delete each other. *)
O == INSTANCE AccessProofs WITH
  Accounts <- Offices, RoleAt <- [a \in Offices |-> "corporate"],
  HomeAt <- [a \in Offices |-> Nowhere], Slots <- OfficeSlots, MaxServing <- 0

T == INSTANCE Tab WITH
  Accounts <- TabAccounts, RoleAt <- TabRole, Nobody <- Nothing,
  token <- tabToken, user <- tabUser,
  screen <- tabScreen, key <- tabKey, shown <- tabShown,
  failed <- tabFailed, asked <- tabAsked, form <- tabForm,
  saved <- tabSaved, customers <- tabCustomers, houses <- tabHouses,
  lost <- tabLost, ended <- tabEnded, upsets <- tabUpsets

V == INSTANCE Visits WITH
  Operators <- Crews, Office <- Dispatchers, Requests <- VisitRequests,
  Nobody <- Unassigned, order <- visitsOrder, staff <- visitsStaff, fit <- visitsFit,
  standings <- visitsStandings, handling <- visitsHandling, notices <- visitsNotices

F == INSTANCE Reviews WITH
  day <- reviewsDay, finished <- reviewsFinished, asked <- reviewsAsked,
  round <- reviewsRound, tap <- reviewsTap, alerts <- reviewsAlerts,
  crashes <- reviewsCrashes

W == INSTANCE Weather WITH
  Customers <- Residents, recorded <- weatherRecorded, check <- weatherCheck,
  notices <- weatherNotices, crossed <- weatherCrossed, started <- weatherStarted

C == INSTANCE Drip WITH
  Leads <- Prospects, Requests <- DripRequests, lead <- dripLead, mail <- dripMail,
  inHand <- dripInHand, sent <- dripSent, bought <- dripBought, held <- dripHeld

I == INSTANCE Inbox WITH
  Written <- Incoming, Workers <- InboxWorkers, MaxAttempts <- MaxReplyAttempts,
  MaxFaults <- MaxInboxFaults, NoMessage <- Nothing,
  stored <- inboxStored, reply <- inboxReply, window <- inboxWindow,
  reached <- inboxReached, handler <- inboxHandler, worker <- inboxWorker,
  faults <- inboxFaults

ASSUME QueueAssumption ==
  /\ MaxMessages \in Nat /\ ColdEmails \subseteq Q!Messages
  /\ BatchLimit \in Nat \ {0} /\ LeaseTicks \in Nat \ {0} /\ MaxAttempts \in Nat \ {0}
  /\ SendLater \subseteq Nat /\ Answers \subseteq Q!ProviderAnswers /\ MaxQueueFaults \in Nat
ASSUME TabAssumption == T!TabParameters
ASSUME InboxAssumption ==
  /\ Incoming \subseteq Nat /\ MaxReplyAttempts \in Nat \ {0} /\ MaxInboxFaults \in Nat
  /\ Nothing \notin Replies /\ Nothing \notin I!Mids

J == INSTANCE Process WITH
  copies <- processCopies, inFlight <- processInFlight, turns <- processTurns,
  stopping <- processStopping, open <- processOpen, listening <- processListening,
  handler <- processHandler, exit <- processExit

DayInit ==
  \/ Is("queue") /\ Q!Init /\ NoAccess /\ NoTab /\ NoVisits /\ NoReviews /\ NoWeather /\ NoDrip /\ NoInbox /\ NoProcess
  \/ Is("access") /\ Init /\ NoQueue /\ NoTab /\ NoVisits /\ NoReviews /\ NoWeather /\ NoDrip /\ NoInbox /\ NoProcess
  \/ Is("deleting") /\ O!Init /\ NoQueue /\ NoTab /\ NoVisits /\ NoReviews /\ NoWeather /\ NoDrip /\ NoInbox /\ NoProcess
  \/ Is("tab") /\ T!Init /\ NoQueue /\ NoAccess /\ NoVisits /\ NoReviews /\ NoWeather /\ NoDrip /\ NoInbox /\ NoProcess
  \/ Is("visits") /\ V!Init /\ NoQueue /\ NoAccess /\ NoTab /\ NoReviews /\ NoWeather /\ NoDrip /\ NoInbox /\ NoProcess
  \/ Is("reviews") /\ F!Init /\ NoQueue /\ NoAccess /\ NoTab /\ NoVisits /\ NoWeather /\ NoDrip /\ NoInbox /\ NoProcess
  \/ Is("weather") /\ W!Init /\ NoQueue /\ NoAccess /\ NoTab /\ NoVisits /\ NoReviews /\ NoDrip /\ NoInbox /\ NoProcess
  \/ Is("drip") /\ C!Init /\ NoQueue /\ NoAccess /\ NoTab /\ NoVisits /\ NoReviews /\ NoWeather /\ NoInbox /\ NoProcess
  \/ Is("inbox") /\ I!Init /\ NoQueue /\ NoAccess /\ NoTab /\ NoVisits /\ NoReviews /\ NoWeather /\ NoDrip /\ NoProcess
  \/ Is("process") /\ J!Init /\ NoQueue /\ NoAccess /\ NoTab /\ NoVisits /\ NoReviews /\ NoWeather /\ NoDrip /\ NoInbox

DayNext ==
  \/ Is("queue") /\ Q!Next /\ UNCHANGED <<subject, accessVars, tabVars, visitsVars, reviewsVars, weatherVars, dripVars, inboxVars, processVars>>
  \/ Is("access") /\ Next /\ UNCHANGED <<subject, queueVars, tabVars, visitsVars, reviewsVars, weatherVars, dripVars, inboxVars, processVars>>
  \/ Is("deleting") /\ O!Next /\ UNCHANGED <<subject, queueVars, tabVars, visitsVars, reviewsVars, weatherVars, dripVars, inboxVars, processVars>>
  \/ Is("tab") /\ T!Next /\ UNCHANGED <<subject, queueVars, accessVars, visitsVars, reviewsVars, weatherVars, dripVars, inboxVars, processVars>>
  \/ Is("visits") /\ V!Next /\ UNCHANGED <<subject, queueVars, accessVars, tabVars, reviewsVars, weatherVars, dripVars, inboxVars, processVars>>
  \/ Is("reviews") /\ F!Next /\ UNCHANGED <<subject, queueVars, accessVars, tabVars, visitsVars, weatherVars, dripVars, inboxVars, processVars>>
  \/ Is("weather") /\ W!Next /\ UNCHANGED <<subject, queueVars, accessVars, tabVars, visitsVars, reviewsVars, dripVars, inboxVars, processVars>>
  \/ Is("drip") /\ C!Next /\ UNCHANGED <<subject, queueVars, accessVars, tabVars, visitsVars, reviewsVars, weatherVars, inboxVars, processVars>>
  \/ Is("inbox") /\ I!Next /\ UNCHANGED <<subject, queueVars, accessVars, tabVars, visitsVars, reviewsVars, weatherVars, dripVars, processVars>>
  \/ Is("process") /\ J!Next /\ UNCHANGED <<subject, queueVars, accessVars, tabVars, visitsVars, reviewsVars, weatherVars, dripVars, inboxVars>>

DaySpec == DayInit /\ [][DayNext]_dayVars

-----------------------------------------------------------------------------
(* The variables of each component keep their types. *)
DayTypesOK ==
  /\ Is("access")   => AccessTypeOK
  /\ Is("deleting") => O!AccessTypeOK
  /\ Is("queue")    => Q!TypeOK
  /\ Is("tab")      => T!TabTypeOK
  /\ Is("visits")   => V!VisitsTypeOK
  /\ Is("reviews")  => F!ReviewsTypeOK
  /\ Is("weather")  => W!WeatherTypeOK
  /\ Is("drip")     => C!DripTypeOK
  /\ Is("inbox")    => I!InboxTypeOK
  /\ Is("process")  => J!ProcessTypeOK

(* A request that was let in acts for the account as it is, and within     *)
(* what its role is for (middleware/auth.ts); and two corporate accounts   *)
(* that delete each other at once do not both go (services/deletion.ts).   *)
AccountsHold ==
  /\ Is("access")   => ActsAsItIs /\ SidesApart
  /\ Is("deleting") => O!OneOfficeStays

(* What the provider took was counted first, also when two workers hold    *)
(* the row, and nothing is given up early (services/messages.ts).          *)
SendsCounted == Is("queue") => Q!EverySendIsCounted /\ Q!NoEarlyGiveUp

(* A message marked sent stays so, whatever late updates another pass      *)
(* still makes to its row (message_log_sent_at_check).                     *)
SentStays ==
  [][Is("queue") => \A m \in Q!Messages : queueStatus[m] = "sent" => queueStatus'[m] = "sent"]_dayVars

(* Whatever loads answer late, the page shows the record in the address,   *)
(* and its buttons act on the record it shows (client/src/lib/useQuery).   *)
ShownIsAsked == Is("tab") => T!ShownIsAsked /\ T!ActsOnWhatItShows

(* Adding a customer again after a step failed adds nothing twice          *)
(* (client/src/routes/AddCustomer.tsx).                                    *)
AddedOnce == Is("tab") => T!AddedOnce

(* A visit that is done stays as it was done, but for the name of an       *)
(* operator whose account is deleted, and until then only its own operator *)
(* and the office change it (services/workOrders.ts, deletion.ts).         *)
VisitsKept == [][Is("visits") => V!DoneStands /\ V!TheirsToWork]_dayVars

(* Nobody is asked for a rating, or warned of the weather, twice over      *)
(* (services/reviews.ts, services/weather.ts).                             *)
ToldOnce ==
  /\ Is("reviews") => F!AskedSparingly
  /\ Is("weather") => W!ToldOnce

(* The steps of a lead's sequence go out in order, each once, and none     *)
(* after they unsubscribe (services/coldEmail.ts).                         *)
SequenceKept == [][Is("drip") => C!SequenceKept]_dayVars

(* Redelivered, echoed or late, a message is in the thread once, and the   *)
(* window to reply is never pulled back (services/metaMessaging.ts).       *)
ThreadWhole == [][Is("inbox") => I!ThreadWhole]_dayVars

(* A process that was asked to stop once leaves no job half done           *)
(* (jobs/scheduler.ts, server.ts).                                         *)
CleanExit == Is("process") => J!CleanExit
=============================================================================
