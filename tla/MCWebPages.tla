----------------------------- MODULE MCWebPages -----------------------------
(***************************************************************************)
(* The pages of the web front end, each explored on its own: a page's      *)
(* state is its component's, and pages meet only through what the backend  *)
(* keeps, which every page's module lets others change.  One visit is one  *)
(* initial state of the page named in "page".                              *)
(***************************************************************************)
EXTENDS Calls

VARIABLES page, ui, store, net, srv, hist

vars == <<page, ui, store, net, srv, hist>>

\* Three menus: with a limit on guests, without one, and withdrawn.
Book == <<[price |-> 7, min |-> 2, max |-> 3, active |-> TRUE, sections |-> {"s1"},
           extras |-> {[id |-> 1, unit |-> "percent", price |-> 10],
                       [id |-> 2, unit |-> "per_guest", price |-> 3]}],
          [price |-> 5, min |-> 0, max |-> 0, active |-> TRUE, sections |-> {"s2", "s3", "s4"},
           extras |-> {[id |-> 3, unit |-> "flat", price |-> 4]}],
          [price |-> 6, min |-> 1, max |-> 1, active |-> FALSE, sections |-> {}, extras |-> {}]>>

\* Two comments of one thread after a manager's message.
Notices == <<"chat", "comment", "comment">>

Session == INSTANCE WebSession WITH
    Users <- {"ann", "boss"}, Admins <- {"boss"}, MaxGen <- 1, MaxForms <- 2
Chat == INSTANCE ManagerChat WITH Services <- {"hall"}, MaxMsgs <- 2
Assistant == INSTANCE AiAssistant WITH MaxTurns <- 3
CartOf == INSTANCE Cart WITH
    Listings <- {"hall"}, Menus <- {"m1"}, MaxAdds <- 2, MaxOrders <- 2
Calculator == INSTANCE MenuCalculator WITH MenuBook <- Book, OpenEnd <- 4
Service == INSTANCE ServicePage WITH
    Menus <- {"m1", "m2"}, Events <- {"toi"}, MaxTexts <- 1
Thread == INSTANCE CommentThread WITH Bodies <- {"hello"}, MaxMsgs <- 3
List == INSTANCE Shortlist WITH
    Candidates <- {"c1", "c2"}, Votable <- {"c1"}, Values <- {"up", "down"}, MAX_COMPARE <- 2, MaxClicks <- 2
Workspace == INSTANCE EventWorkspace WITH MaxSaves <- 2, MaxVisits <- 2
TaskList == INSTANCE EventTasks WITH MaxTasks <- 2, MaxTicks <- 2
Members == INSTANCE EventMembers WITH
    Guests <- {"g1"}, MaxInvitations <- 2, MaxClicks <- 2
Request == INSTANCE EventRequestPage WITH MaxSteps <- 3, MaxVisits <- 2
Card == INSTANCE RecoveryCodeCard WITH MaxCodes <- 3
Profile == INSTANCE ProfilePage WITH Bookings <- {"b1"}, MaxNames <- 2, MaxVisits <- 2
Bell == INSTANCE NotificationBell WITH KindOf <- Notices, BellLimit <- 2, MaxClicks <- 2
Notes == INSTANCE NotificationsPage WITH KindOf <- Notices, PAGE_SIZE <- 2, MaxClicks <- 3
MenuEditor == INSTANCE MenusTab WITH
    Halls <- {"hall"}, MaxMenus <- 4, MaxTexts <- 1, MaxClicks <- 2
HallEditor == INSTANCE HallsTab WITH
    MaxHalls <- 3, MaxTexts <- 1, MaxPhotos <- 2, MaxClicks <- 2
Listings == INSTANCE ProviderListings WITH MaxListings <- 3, MaxTexts <- 2, MaxClicks <- 3
Recoveries == INSTANCE RecoveryDesk WITH
    Requests <- {"r1", "r2"}, Filters <- {"pending", "approved"}, MaxCodes <- 2, MaxClicks <- 3
Moderation == INSTANCE CommentsDesk WITH Comments <- {"c1", "c2"}, MaxClicks <- 3
Sales == INSTANCE BookingsDesk WITH
    Bookings <- {"b1", "b2"}, Statuses <- {"new", "confirmed"}, MaxClicks <- 3
Support == INSTANCE ChatDesk WITH MaxMsgs <- 2, MaxTexts <- 2, MaxClicks <- 3
Reviews == INSTANCE RequestDesk WITH MaxRevisions <- 2, MaxTexts <- 1, MaxClicks <- 3

\* No value is neither an account nor a token, and neither a number nor what the
\* tasks say of a read that follows a new task.
ASSUME NoneAssumption == None \notin {"ann", "boss", "create"} \cup Session!Tokens /\ None # 0

Init ==
    \/ page = "session" /\ Session!Init
    \/ page = "manager chat" /\ Chat!Init
    \/ page = "assistant" /\ Assistant!Init
    \/ page = "cart" /\ CartOf!Init
    \/ page = "menus" /\ Calculator!Init /\ store = None /\ net = << >> /\ srv = None
    \/ page = "service" /\ Service!Init /\ store = None
    \/ page = "comments" /\ Thread!Init /\ store = None
    \/ page = "shortlist" /\ List!Init /\ store = None
    \/ page = "workspace" /\ Workspace!Init
    \/ page = "tasks" /\ TaskList!Init /\ store = None
    \/ page = "members" /\ Members!Init /\ store = None
    \/ page = "request" /\ Request!Init /\ store = None
    \/ page = "recovery code" /\ Card!Init /\ store = None
    \/ page = "profile" /\ Profile!Init /\ store = None
    \/ page = "bell" /\ Bell!Init /\ store = None
    \/ page = "notifications" /\ Notes!Init /\ store = None
    \/ page = "menu editor" /\ MenuEditor!Init /\ store = None
    \/ page = "hall editor" /\ HallEditor!Init /\ store = None
    \/ page = "listings" /\ Listings!Init /\ store = None
    \/ page = "recovery desk" /\ Recoveries!Init /\ store = None
    \/ page = "comments desk" /\ Moderation!Init /\ store = None
    \/ page = "bookings desk" /\ Sales!Init /\ store = None
    \/ page = "chat desk" /\ Support!Init /\ store = None
    \/ page = "request desk" /\ Reviews!Init /\ store = None

Next ==
    \/ page = "session" /\ Session!Next /\ UNCHANGED page
    \/ page = "manager chat" /\ Chat!Next /\ UNCHANGED page
    \/ page = "assistant" /\ Assistant!Next /\ UNCHANGED page
    \/ page = "cart" /\ CartOf!Next /\ UNCHANGED page
    \/ page = "menus" /\ Calculator!Next /\ UNCHANGED <<page, store, net, srv>>
    \/ page = "service" /\ Service!Next /\ UNCHANGED <<page, store>>
    \/ page = "comments" /\ Thread!Next /\ UNCHANGED <<page, store>>
    \/ page = "shortlist" /\ List!Next /\ UNCHANGED <<page, store>>
    \/ page = "workspace" /\ Workspace!Next /\ UNCHANGED page
    \/ page = "tasks" /\ TaskList!Next /\ UNCHANGED <<page, store>>
    \/ page = "members" /\ Members!Next /\ UNCHANGED <<page, store>>
    \/ page = "request" /\ Request!Next /\ UNCHANGED <<page, store>>
    \/ page = "recovery code" /\ Card!Next /\ UNCHANGED <<page, store>>
    \/ page = "profile" /\ Profile!Next /\ UNCHANGED <<page, store>>
    \/ page = "bell" /\ Bell!Next /\ UNCHANGED <<page, store>>
    \/ page = "notifications" /\ Notes!Next /\ UNCHANGED <<page, store>>
    \/ page = "menu editor" /\ MenuEditor!Next /\ UNCHANGED <<page, store>>
    \/ page = "hall editor" /\ HallEditor!Next /\ UNCHANGED <<page, store>>
    \/ page = "listings" /\ Listings!Next /\ UNCHANGED <<page, store>>
    \/ page = "recovery desk" /\ Recoveries!Next /\ UNCHANGED <<page, store>>
    \/ page = "comments desk" /\ Moderation!Next /\ UNCHANGED <<page, store>>
    \/ page = "bookings desk" /\ Sales!Next /\ UNCHANGED <<page, store>>
    \/ page = "chat desk" /\ Support!Next /\ UNCHANGED <<page, store>>
    \/ page = "request desk" /\ Reviews!Next /\ UNCHANGED <<page, store>>

Spec == Init /\ [][Next]_vars

\* Every page keeps its types, calls included.
TypeOK ==
    /\ page = "session" => Session!TypeOK
    /\ page = "manager chat" => Chat!TypeOK
    /\ page = "assistant" => Assistant!TypeOK
    /\ page = "cart" => CartOf!TypeOK
    /\ page = "menus" => Calculator!TypeOK
    /\ page = "service" => Service!TypeOK
    /\ page = "comments" => Thread!TypeOK
    /\ page = "shortlist" => List!TypeOK
    /\ page = "workspace" => Workspace!TypeOK
    /\ page = "tasks" => TaskList!TypeOK
    /\ page = "members" => Members!TypeOK
    /\ page = "request" => Request!TypeOK
    /\ page = "recovery code" => Card!TypeOK
    /\ page = "profile" => Profile!TypeOK
    /\ page = "bell" => Bell!TypeOK
    /\ page = "notifications" => Notes!TypeOK
    /\ page = "menu editor" => MenuEditor!TypeOK
    /\ page = "hall editor" => HallEditor!TypeOK
    /\ page = "listings" => Listings!TypeOK
    /\ page = "recovery desk" => Recoveries!TypeOK
    /\ page = "comments desk" => Moderation!TypeOK
    /\ page = "bookings desk" => Sales!TypeOK
    /\ page = "chat desk" => Support!TypeOK
    /\ page = "request desk" => Reviews!TypeOK

\* The account shown as signed in and the token in localStorage belong
\* together, and one is never kept without the other once loading is over; the
\* only way they part is an answer of /api/auth/me that a later sign-in or
\* sign-out overtook.
SessionAgrees == page = "session" => Session!SessionAgrees

\* The visit whose claim opened the account never tells the visitor that the
\* link was used or is invalid: the effect may run twice, the call leaves once.
ClaimSuccessStands == page = "session" => Session!ClaimSuccessStands

\* Nobody but an admin is left signed in by the admin login form, whatever
\* answers of other forms arrive around it.
AdminDoorForAdmins == page = "session" => Session!AdminDoorForAdmins

\* One click files one thing, however slow the answer is and whatever is clicked,
\* typed, closed or reopened while it is on its way: no cart line is ordered twice,
\* no review, task, menu, listing or reply is made twice by one form, and one lead
\* is on its way at a time.  Each page keeps a guard of its own for that (a flag, a
\* disabled button, a cleared field).  What none of them guards against is an answer
\* that is lost after the thing was filed, where the visitor, who cannot know, files
\* it again; a menu's form stays open as well when the read after it fails, and a
\* cart or a service page may be left before the answer comes.
FiledOnce ==
    /\ page = "cart" => CartOf!NoLineOrderedTwice
    /\ page = "service" => Service!NoCommentTwice
    /\ page = "tasks" => TaskList!NoTaskTwice
    /\ page = "manager chat" => Chat!OneLead
    /\ page = "menu editor" => MenuEditor!OneMenuPerForm
    /\ page = "listings" => Listings!OneListingPerForm
    /\ page = "chat desk" => Support!NoReplyTwice

\* The discussion of an event, where sending, polling every few seconds, editing
\* and deleting overlap: a message is shown once, a message that was not accepted
\* is not shown unless a delete that failed puts back the list it was on, a message
\* being deleted is not brought back by the polls meanwhile, and a message that failed
\* gives its text back to the field.  A poll that left before the message was deleted
\* and arrives after the delete was answered does bring it back, as do a first load
\* or its own send answered that late and a list put back by another delete.
ThreadKept ==
    /\ page = "comments" => Thread!NoDuplicateShown
    /\ page = "comments" => Thread!NoPhantom
    /\ page = "comments" => Thread!DeletedStaysHidden
    /\ page = "comments" => Thread!TextKept

\* Where the screen shows a click before the backend answers or without reading
\* the row again (a task's tick, a selected service, a vote and its tally, a
\* moderated comment, a booking's status and payment, a hidden listing), what it
\* shows once nothing is on its way is what the backend keeps: a refused click is
\* taken back, and a tally counts the visitor once.  Each page names what parts them:
\* clicks on one row that overtake each other, a read that fails or is overtaken, a
\* lost answer.
ClicksAnswered ==
    /\ page = "tasks" => TaskList!TickIsKept
    /\ page = "service" => Service!TickIsTrue
    /\ page = "shortlist" => List!VoteOnScreenIsKept
    /\ page = "shortlist" => List!TallyCountsMeOnce
    /\ page = "comments desk" => Moderation!QueueIsCurrent
    /\ page = "bookings desk" => Sales!CardsAreKept
    /\ page = "listings" => Listings!ListingsAreKept

\* An answer is put where its question was asked, although the visitor has moved
\* on: the manager's thread of another context, the assistant's reply after its
\* own question, the notifications of the chosen tab, the members after the last
\* change, the support requests of the chosen filter.  And a manager's decision falls
\* on the revision that was on screen.  Not put right are a message answered in
\* another context, which the widget shows there, a list an earlier load of another
\* tab overwrites, and members after a change whose answer, or whose load, was lost.
AnswerMatchesQuestion ==
    /\ page = "manager chat" => Chat!ThreadMatchesContext
    /\ page = "assistant" => Assistant!ReplyFollowsQuestion
    /\ page = "notifications" => Notes!PageShowsItsTab
    /\ page = "members" => Members!ListIsCurrent
    /\ page = "recovery desk" => Recoveries!ListIsOfFilter
    /\ page = "request desk" => Reviews!DecidesWhatWasSeen

\* What the backend confirmed is what the page goes on showing: a saved event on
\* every part of its workspace, the saved name in the header, a cancelled request
\* as cancelled, a removed booking gone, a dismissed welcome never again, on the
\* desks a code that works and every message that is marked read.  The exceptions the
\* pages name are answers that were lost or that overtook each other.
SavesReachScreen ==
    /\ page = "workspace" => Workspace!SaveReachesScreen
    /\ page = "profile" => Profile!SavedNameShown
    /\ page = "request" => Request!ConfirmedStays
    /\ page = "profile" => Profile!NoGhostBooking
    /\ page = "workspace" => Workspace!WelcomeOnce
    /\ page = "recovery desk" => Recoveries!CodeShownWorks
    /\ page = "chat desk" => Support!ReadIsShown

\* The cart in localStorage is the cart on screen, one line for a thing however
\* often it is added, and the list a booking offers to resend to a messenger is
\* the list that was booked, whatever the cart holds by then.
OrderIsTheCart ==
    /\ page = "cart" => CartOf!CartKept
    /\ page = "cart" => CartOf!OfferIsOrder

\* The estimate of a banquet is the menu for the guests that will be charged plus
\* the selected extras of that menu, and the guests on screen are ones the menu
\* takes.
EstimateIsExact ==
    /\ page = "menus" => Calculator!EstimateIsExact
    /\ page = "menus" => Calculator!GuestsOfMenu

\* A code the account holds is replaced only after the dialog was confirmed,
\* whatever the look at the account answered, unless that answer is older than a
\* creation of this card, the answer of a creation was lost, or a creation leaves
\* while another is on its way.
ReplacedIfConfirmed == page = "recovery code" => Card!ReplacedIfConfirmed

\* Notifications, read on the bell and on their page while new ones arrive: once
\* nothing is on its way the badge counts what was last read less what was opened
\* since, and a row shown as read is read in the backend, unless a mark failed.
BadgeSettles ==
    /\ page = "bell" => Bell!BadgeSettles
    /\ page = "notifications" => Notes!ReadRowsAreRead

\* The editors of a restaurant and of a provider's listings replace whole rows to
\* change a field: no hall, menu or listing loses what was not to change, as long as
\* nothing was saved to it since it was read, and no photo is lost to another that
\* arrives beside it.
EditorKeepsTheRest ==
    /\ page = "menu editor" => MenuEditor!OnlyWhatWasAsked
    /\ page = "hall editor" => HallEditor!HallKeepsTheRest
    /\ page = "hall editor" => HallEditor!NoPhotoLost
    /\ page = "listings" => Listings!ListingKeepsTheRest

\* An arrow moves one card past its neighbour, by two updates that end in any
\* order, if both are served and nothing else goes on meanwhile, and a copied menu
\* that opens has every piece of its original although it was made call by call.
CardsAsAsked ==
    /\ page = "menu editor" => MenuEditor!ArrowMoves
    /\ page = "menu editor" => MenuEditor!CopyOpensWhole
=============================================================================
