--------------------------- MODULE WebPagesProofs ---------------------------
(* What holds of the pages of the web front end as MCWebPages puts them      *)
(* together.  The session's promises are those WebSessionProofs proves of    *)
(* any accounts, the other pages' those PageProofs proves of any bounds, all *)
(* carried over to the constants of that module.  One page is shown in a     *)
(* visit: a step of it leaves every other page's promise alone.              *)
EXTENDS MCWebPages, TLAPS

S == INSTANCE WebSessionProofs WITH
    Users <- {"ann", "boss"}, Admins <- {"boss"}, MaxGen <- 1, MaxForms <- 2,
    Services <- {"hall"}, MaxChats <- 2,
    Goods <- {"hall"}, GoodsMenus <- {"m1"}, MaxAdds <- 2, MaxOrders <- 2, MaxTurns <- 3,
    BellKinds <- Notices, BellPage <- 2, MaxBellClicks <- 2
P == INSTANCE PageProofs WITH
    Bodies <- {"hello"}, MaxComments <- 3, MaxTasks <- 2, MaxTicks <- 2,
    ServiceMenus <- {"m1", "m2"}, Events <- {"toi"}, MaxReviews <- 1,
    MaxMessages <- 2, MaxReplies <- 2, MaxDeskClicks <- 3,
    MaxListings <- 3, MaxFields <- 2, MaxProviderClicks <- 3,
    Halls <- {"hall"}, MaxMenus <- 4, MaxNames <- 1, MaxMenuClicks <- 2, MaxCodes <- 3,
    Guests <- {"g1"}, MaxInvites <- 2, MaxMemberClicks <- 2,
    NoticeKinds <- Notices, PageSize <- 2, MaxNoteClicks <- 3,
    Requests <- {"r1", "r2"}, Filters <- {"pending", "approved"}, MaxTempCodes <- 2,
    MaxDecisions <- 3, MaxRevisions <- 2, MaxRemarks <- 1, MaxVerdicts <- 3

-----------------------------------------------------------------------------
(* The session *)

LEMMA Constants ==
  /\ S!SessionConstants
  /\ S!MaxCallsAssumption /\ P!MaxCallsAssumption
  /\ None # 0 /\ None # "create"
BY NoneAssumption, MaxCallsAssumption
   DEF S!SessionConstants, S!Tokens, Session!Tokens, S!MaxCallsAssumption, P!MaxCallsAssumption

USE Constants

\* The two instances of WebSession, definition by definition.
LEMMA SameSession ==
  /\ Session!Init <=> S!Init
  /\ Session!Next <=> S!Next
  /\ Session!SessionAgrees <=> S!SessionAgrees
  /\ Session!ClaimSuccessStands <=> S!ClaimSuccessStands
  /\ Session!AdminDoorForAdmins <=> S!AdminDoorForAdmins
BY DEF Session!Init, S!Init, Session!Provider, S!Provider, Session!Fresh,
       S!Fresh, Session!Sent, S!Sent, Session!Call, S!Call, Session!Room,
       S!Room, Session!Served, S!Served, Session!Refused, S!Refused,
       Session!Waiting, S!Waiting, Session!Answered, S!Answered,
       Session!InFlight, S!InFlight, Session!Settled, S!Settled,
       Session!Unheard, S!Unheard, Session!RemoveAt, S!RemoveAt, Session!Pages,
       S!Pages, Session!FormPages, S!FormPages, Session!ClearToken,
       S!ClearToken, Session!SetToken, S!SetToken, Session!Valid, S!Valid,
       Session!Issued, S!Issued, Session!ServeMe, S!ServeMe,
       Session!ServeLogin, S!ServeLogin, Session!ServeRegister,
       S!ServeRegister, Session!ServeRecover, S!ServeRecover,
       Session!ServeClaim, S!ServeClaim, Session!ServeInvitation,
       S!ServeInvitation, Session!ServeRefusal, S!ServeRefusal,
       Session!Backend, S!Backend, Session!IsAdmin, S!IsAdmin,
       Session!LoadUser, S!LoadUser, Session!Overtaken, S!Overtaken,
       Session!MeAnswered, S!MeAnswered, Session!Logout, S!Logout,
       Session!PageKinds, S!PageKinds, Session!Left, S!Left, Session!At, S!At,
       Session!NextOf, S!NextOf, Session!Visit, S!Visit, Session!Reload,
       S!Reload, Session!RefreshMe, S!RefreshMe, Session!Counted, S!Counted,
       Session!LoginForm, S!LoginForm, Session!AdminLoginForm,
       S!AdminLoginForm, Session!RegisterForm, S!RegisterForm,
       Session!RecoverForm, S!RecoverForm, Session!Submit, S!Submit,
       Session!LoginSubmit, S!LoginSubmit, Session!AdminLoginSubmit,
       S!AdminLoginSubmit, Session!RegisterSubmit, S!RegisterSubmit,
       Session!RecoverSubmit, S!RecoverSubmit, Session!FormFailed,
       S!FormFailed, Session!AdminDoor, S!AdminDoor, Session!LoginAnswered,
       S!LoginAnswered, Session!CodeAnswered, S!CodeAnswered,
       Session!RegisterAnswered, S!RegisterAnswered, Session!RecoverAnswered,
       S!RecoverAnswered, Session!CodePanel, S!CodePanel, Session!CodeDone,
       S!CodeDone, Session!MayClaim, S!MayClaim, Session!ClaimEffect,
       S!ClaimEffect, Session!ClaimFailure, S!ClaimFailure,
       Session!ClaimAnswered, S!ClaimAnswered, Session!ClaimTimer,
       S!ClaimTimer, Session!PreviewAnswered, S!PreviewAnswered,
       Session!InviteButton, S!InviteButton, Session!Accept, S!Accept,
       Session!AcceptAnswered, S!AcceptAnswered, Session!Guarded, S!Guarded,
       Session!ProfileGuarded, S!ProfileGuarded, Session!Redirect, S!Redirect,
       Session!AdminRedirect, S!AdminRedirect, Session!ProfileRedirect,
       S!ProfileRedirect, Session!AskSignOut, S!AskSignOut, Session!Stay,
       S!Stay, Session!ConfirmSignOut, S!ConfirmSignOut, Session!Tokens,
       S!Tokens, Session!Kinds, S!Kinds, Session!Next, S!Next,
       Session!SessionAgrees, S!SessionAgrees, Session!ClaimSuccessStands,
       S!ClaimSuccessStands, Session!AdminDoorForAdmins, S!AdminDoorForAdmins,
       Session!AnswerLost, S!AnswerLost, Session!Coming, S!Coming

LEMMA SessionHolds ==
  /\ Session!Init => S!IndInv
  /\ page = "session" /\ S!IndInv /\ (Next \/ UNCHANGED vars) => S!IndInv'
BY SameSession, S!InitInv, S!NextInv
   DEF Next, vars, S!vars

-----------------------------------------------------------------------------
(* The card of the backup code *)

LEMMA SameCard ==
  /\ Card!Init <=> P!Card!Init
  /\ Card!Next <=> P!Card!Next
BY DEF Card!Init, P!Card!Init, Card!Sent, P!Card!Sent, Card!Call, P!Card!Call,
       Card!Room, P!Card!Room, Card!Served, P!Card!Served, Card!Refused,
       P!Card!Refused, Card!Waiting, P!Card!Waiting, Card!Answered,
       P!Card!Answered, Card!InFlight, P!Card!InFlight, Card!Settled,
       P!Card!Settled, Card!RemoveAt, P!Card!RemoveAt, Card!ServeMe,
       P!Card!ServeMe, Card!ServeCreate, P!Card!ServeCreate, Card!ServeRefusal,
       P!Card!ServeRefusal, Card!Backend, P!Card!Backend, Card!MeAnswered,
       P!Card!MeAnswered, Card!replacing, P!Card!replacing, Card!Card,
       P!Card!Card, Card!Type, P!Card!Type, Card!handleCreate,
       P!Card!handleCreate, Card!handlePrimary, P!Card!handlePrimary,
       Card!PrimaryButton, P!Card!PrimaryButton, Card!PressButton,
       P!Card!PressButton, Card!PressEnter, P!Card!PressEnter, Card!Confirm,
       P!Card!Confirm, Card!CancelConfirm, P!Card!CancelConfirm,
       Card!CreateAnswered, P!Card!CreateAnswered, Card!CodeDone,
       P!Card!CodeDone, Card!Next, P!Card!Next, Card!AnswerLost,
       P!Card!AnswerLost, Card!Coming, P!Card!Coming

LEMMA CardHolds ==
  /\ Card!Init => P!CardInv
  /\ page = "recovery code" /\ P!CardInv /\ (Next \/ UNCHANGED vars) => P!CardInv'
BY SameCard, P!CardInit, P!CardNext
   DEF Next, vars, P!Card!vars

-----------------------------------------------------------------------------
(* The discussion of an event                                                *)

LEMMA SameThread ==
  /\ Thread!Init <=> P!Thread!Init
  /\ Thread!Next <=> P!Thread!Next
  /\ Thread!NoDuplicateShown <=> P!Thread!NoDuplicateShown
  /\ Thread!NoPhantom <=> P!Thread!NoPhantom
  /\ Thread!DeletedStaysHidden <=> P!Thread!DeletedStaysHidden
  /\ Thread!TextKept <=> P!Thread!TextKept
BY DEF Thread!Init, P!Thread!Init, Thread!Mine, P!Thread!Mine, Thread!NoText,
       P!Thread!NoText, Thread!Call, P!Thread!Call, Thread!Room, P!Thread!Room,
       Thread!Sent, P!Thread!Sent, Thread!Served, P!Thread!Served,
       Thread!Refused, P!Thread!Refused, Thread!Waiting, P!Thread!Waiting,
       Thread!Answered, P!Thread!Answered, Thread!InFlight, P!Thread!InFlight,
       Thread!Settled, P!Thread!Settled, Thread!RemoveAt, P!Thread!RemoveAt,
       Thread!Real, P!Thread!Real, Thread!Temp, P!Thread!Temp, Thread!isTemp,
       P!Thread!isTemp, Thread!Stored, P!Thread!Stored, Thread!ServeLook,
       P!Thread!ServeLook, Thread!ServeSend, P!Thread!ServeSend,
       Thread!ServeDelete, P!Thread!ServeDelete, Thread!ServeRefusal,
       P!Thread!ServeRefusal, Thread!Backend, P!Thread!Backend,
       Thread!OthersWrite, P!Thread!OthersWrite, Thread!Load, P!Thread!Load,
       Thread!Poll, P!Thread!Poll, Thread!Stale, P!Thread!Stale,
       Thread!Overtaken, P!Thread!Overtaken, Thread!LoadAnswered,
       P!Thread!LoadAnswered, Thread!Fresh, P!Thread!Fresh, Thread!newReal,
       P!Thread!newReal, Thread!stillPending, P!Thread!stillPending,
       Thread!PollAnswered, P!Thread!PollAnswered, Thread!handleScroll,
       P!Thread!handleScroll, Thread!Type, P!Thread!Type, Thread!Composer,
       P!Thread!Composer, Thread!handleSend, P!Thread!handleSend,
       Thread!SendFailed, P!Thread!SendFailed, Thread!SendDone,
       P!Thread!SendDone, Thread!SendAnswered, P!Thread!SendAnswered,
       Thread!handleDelete, P!Thread!handleDelete, Thread!DeleteAnswered,
       P!Thread!DeleteAnswered, Thread!Next, P!Thread!Next,
       Thread!NoDuplicateShown, P!Thread!NoDuplicateShown, Thread!NoPhantom,
       P!Thread!NoPhantom, Thread!DeletedStaysHidden,
       P!Thread!DeletedStaysHidden, Thread!TextKept, P!Thread!TextKept,
       Thread!AnswerLost, P!Thread!AnswerLost, Thread!Coming, P!Thread!Coming,
       Thread!SendLost, P!Thread!SendLost

LEMMA ThreadHolds ==
  /\ Thread!Init => P!ThreadInv
  /\ page = "comments" /\ P!ThreadInv /\ (Next \/ UNCHANGED vars) => P!ThreadInv'
BY SameThread, P!ThreadInit, P!ThreadNext
   DEF Next, vars, P!Thread!vars

-----------------------------------------------------------------------------
(* The tasks of an event                                                     *)

LEMMA SameTask ==
  /\ TaskList!Init <=> P!TaskList!Init
  /\ TaskList!Next <=> P!TaskList!Next
  /\ TaskList!NoTaskTwice <=> P!TaskList!NoTaskTwice
BY DEF TaskList!Init, P!TaskList!Init, TaskList!Tasks, P!TaskList!Tasks,
       TaskList!Sent, P!TaskList!Sent, TaskList!Call, P!TaskList!Call,
       TaskList!Next, P!TaskList!Next, TaskList!DeleteAnswered,
       P!TaskList!DeleteAnswered, TaskList!Settled, P!TaskList!Settled,
       TaskList!RemoveAt, P!TaskList!RemoveAt, TaskList!Only, P!TaskList!Only,
       TaskList!Answered, P!TaskList!Answered, TaskList!handleDelete,
       P!TaskList!handleDelete, TaskList!Clicked, P!TaskList!Clicked,
       TaskList!Room, P!TaskList!Room, TaskList!List, P!TaskList!List,
       TaskList!UpdateAnswered, P!TaskList!UpdateAnswered, TaskList!FailedTick,
       P!TaskList!FailedTick, TaskList!toggleDone, P!TaskList!toggleDone,
       TaskList!Toggled, P!TaskList!Toggled, TaskList!CreateAnswered,
       P!TaskList!CreateAnswered, TaskList!Cleared, P!TaskList!Cleared,
       TaskList!handleAdd, P!TaskList!handleAdd, TaskList!TaskForm,
       P!TaskList!TaskForm, TaskList!Type, P!TaskList!Type,
       TaskList!LoadAnswered, P!TaskList!LoadAnswered, TaskList!Old,
       P!TaskList!Old, TaskList!Backend, P!TaskList!Backend, TaskList!Waiting,
       P!TaskList!Waiting, TaskList!ServeRefusal, P!TaskList!ServeRefusal,
       TaskList!Refused, P!TaskList!Refused, TaskList!ServeDelete,
       P!TaskList!ServeDelete, TaskList!Served, P!TaskList!Served,
       TaskList!ServeUpdate, P!TaskList!ServeUpdate, TaskList!Kept,
       P!TaskList!Kept, TaskList!ServeCreate, P!TaskList!ServeCreate,
       TaskList!ServeLoad, P!TaskList!ServeLoad, TaskList!NoTaskTwice,
       P!TaskList!NoTaskTwice, TaskList!AnswerLost, P!TaskList!AnswerLost,
       TaskList!Coming, P!TaskList!Coming, TaskList!Overtakes,
       P!TaskList!Overtakes, TaskList!Titles, P!TaskList!Titles, TaskList!Twin,
       P!TaskList!Twin

LEMMA TaskHolds ==
  /\ TaskList!Init => P!TaskInv
  /\ page = "tasks" /\ P!TaskInv /\ (Next \/ UNCHANGED vars) => P!TaskInv'
BY SameTask, P!TaskInit, P!TaskNext
   DEF Next, vars, P!TaskList!vars

-----------------------------------------------------------------------------
(* The page of a service                                                     *)

LEMMA SameService ==
  /\ Service!Init <=> P!Service!Init
  /\ Service!Next <=> P!Service!Next
  /\ Service!NoCommentTwice <=> P!Service!NoCommentTwice
BY DEF Service!Init, P!Service!Init, Service!Fresh, P!Service!Fresh,
       Service!Next, P!Service!Next, Service!CommentAnswered,
       P!Service!CommentAnswered, Service!Settled, P!Service!Settled,
       Service!RemoveAt, P!Service!RemoveAt, Service!Answered,
       P!Service!Answered, Service!handleSubmit, P!Service!handleSubmit,
       Service!Sent, P!Service!Sent, Service!Call, P!Service!Call,
       Service!Room, P!Service!Room, Service!CommentForm,
       P!Service!CommentForm, Service!Type, P!Service!Type,
       Service!CandidateAnswered, P!Service!CandidateAnswered, Service!Tick,
       P!Service!Tick, Service!handleAdd, P!Service!handleAdd, Service!Panel,
       P!Service!Panel, Service!CloseOutside, P!Service!CloseOutside,
       Service!EventsAnswered, P!Service!EventsAnswered, Service!handleOpen,
       P!Service!handleOpen, Service!SignInOrOut, P!Service!SignInOrOut,
       Service!ViewMenu, P!Service!ViewMenu, Service!LookAnswered,
       P!Service!LookAnswered, Service!Open, P!Service!Open, Service!InFlight,
       P!Service!InFlight, Service!Kinds, P!Service!Kinds, Service!Unheard,
       P!Service!Unheard, Service!Backend, P!Service!Backend,
       Service!ServeRefusal, P!Service!ServeRefusal, Service!Refused,
       P!Service!Refused, Service!ServeLook, P!Service!ServeLook,
       Service!Served, P!Service!Served, Service!Waiting, P!Service!Waiting,
       Service!ServeComment, P!Service!ServeComment, Service!ServeCandidate,
       P!Service!ServeCandidate, Service!NoCommentTwice,
       P!Service!NoCommentTwice, Service!AnswerLost, P!Service!AnswerLost,
       Service!Coming, P!Service!Coming

LEMMA ServiceHolds ==
  /\ Service!Init => P!ServiceInv
  /\ page = "service" /\ P!ServiceInv /\ (Next \/ UNCHANGED vars) => P!ServiceInv'
BY SameService, P!ServiceInit, P!ServiceNext
   DEF Next, vars, P!Service!vars

-----------------------------------------------------------------------------
(* A conversation on the chat desk                                           *)

LEMMA SameDesk ==
  /\ Support!Init <=> P!Desk!Init
  /\ Support!Next <=> P!Desk!Next
  /\ Support!NoReplyTwice <=> P!Desk!NoReplyTwice
BY DEF Support!Init, P!Desk!Init, Support!Sent, P!Desk!Sent, Support!Call,
       P!Desk!Call, Support!Next, P!Desk!Next, Support!StatusAnswered,
       P!Desk!StatusAnswered, Support!Settled, P!Desk!Settled,
       Support!RemoveAt, P!Desk!RemoveAt, Support!Answered, P!Desk!Answered,
       Support!handleStatusToggle, P!Desk!handleStatusToggle, Support!Click,
       P!Desk!Click, Support!Room, P!Desk!Room, Support!ReplyAnswered,
       P!Desk!ReplyAnswered, Support!handleReply, P!Desk!handleReply,
       Support!MayReply, P!Desk!MayReply, Support!Type, P!Desk!Type,
       Support!LoadAnswered, P!Desk!LoadAnswered, Support!Poll, P!Desk!Poll,
       Support!Write, P!Desk!Write, Support!Backend, P!Desk!Backend,
       Support!ServeRefusal, P!Desk!ServeRefusal, Support!Refused,
       P!Desk!Refused, Support!AdminUpdateStatus, P!Desk!AdminUpdateStatus,
       Support!Served, P!Desk!Served, Support!Waiting, P!Desk!Waiting,
       Support!AddMessage, P!Desk!AddMessage, Support!MarkedRead,
       P!Desk!MarkedRead, Support!Get, P!Desk!Get, Support!Overtakes,
       P!Desk!Overtakes, Support!Reads, P!Desk!Reads, Support!Cardinality,
       P!Desk!Cardinality, Support!NoReplyTwice, P!Desk!NoReplyTwice

LEMMA DeskHolds ==
  /\ Support!Init => P!DeskInv
  /\ page = "chat desk" /\ P!DeskInv /\ (Next \/ UNCHANGED vars) => P!DeskInv'
BY SameDesk, P!DeskInit, P!DeskNext
   DEF Next, vars, P!Desk!vars

-----------------------------------------------------------------------------
(* A provider's listings                                                     *)

LEMMA SameProviderBackend == Listings!Backend <=> P!Provider!Backend
BY DEF Listings!AnswerLost, P!Provider!AnswerLost, Listings!Backend,
       P!Provider!Backend, Listings!Coming, P!Provider!Coming,
       Listings!CreateOwn, P!Provider!CreateOwn, Listings!Delete,
       P!Provider!Delete, Listings!Listings, P!Provider!Listings, Listings!Met,
       P!Provider!Met, Listings!MyListings, P!Provider!MyListings,
       Listings!Overtakes, P!Provider!Overtakes, Listings!Patched,
       P!Provider!Patched, Listings!Refused, P!Provider!Refused,
       Listings!ServeRefusal, P!Provider!ServeRefusal, Listings!Served,
       P!Provider!Served, Listings!Update, P!Provider!Update, Listings!Waiting,
       P!Provider!Waiting, Listings!With, P!Provider!With, Listings!Without,
       P!Provider!Without

LEMMA SameProvider ==
  /\ Listings!Init <=> P!Provider!Init
  /\ Listings!Next <=> P!Provider!Next
  /\ Listings!OneListingPerForm <=> P!Provider!OneListingPerForm
<1>1. /\ Listings!AddButton <=> P!Provider!AddButton
      /\ Listings!EditButton <=> P!Provider!EditButton
      /\ Listings!onCancel <=> P!Provider!onCancel
      /\ Listings!ServiceForm <=> P!Provider!ServiceForm
      /\ Listings!handleSubmit <=> P!Provider!handleSubmit
  BY DEF Listings!AddButton, P!Provider!AddButton, Listings!Asked,
         P!Provider!Asked, Listings!Call, P!Provider!Call, Listings!Click,
         P!Provider!Click, Listings!Closed, P!Provider!Closed, Listings!EMPTY,
         P!Provider!EMPTY, Listings!EditButton, P!Provider!EditButton,
         Listings!MaySave, P!Provider!MaySave, Listings!New, P!Provider!New,
         Listings!Opened, P!Provider!Opened, Listings!Payload,
         P!Provider!Payload, Listings!Room, P!Provider!Room, Listings!Sent,
         P!Provider!Sent, Listings!ServiceForm, P!Provider!ServiceForm,
         Listings!Typed, P!Provider!Typed, Listings!handleSubmit,
         P!Provider!handleSubmit, Listings!onCancel, P!Provider!onCancel
<1>2. /\ Listings!SaveAnswered <=> P!Provider!SaveAnswered
      /\ Listings!loadMine <=> P!Provider!loadMine
      /\ Listings!handleToggleActive <=> P!Provider!handleToggleActive
      /\ Listings!ToggleAnswered <=> P!Provider!ToggleAnswered
      /\ Listings!handleDelete <=> P!Provider!handleDelete
      /\ Listings!DeleteAnswered <=> P!Provider!DeleteAnswered
  BY DEF Listings!Answered, P!Provider!Answered, Listings!Call,
         P!Provider!Call, Listings!Click, P!Provider!Click, Listings!Closed,
         P!Provider!Closed, Listings!DeleteAnswered, P!Provider!DeleteAnswered,
         Listings!EMPTY, P!Provider!EMPTY, Listings!RemoveAt,
         P!Provider!RemoveAt, Listings!Room, P!Provider!Room,
         Listings!SaveAnswered, P!Provider!SaveAnswered, Listings!Sent,
         P!Provider!Sent, Listings!Settled, P!Provider!Settled,
         Listings!ToggleAnswered, P!Provider!ToggleAnswered, Listings!Without,
         P!Provider!Without, Listings!handleDelete, P!Provider!handleDelete,
         Listings!handleToggleActive, P!Provider!handleToggleActive,
         Listings!listingToPayload, P!Provider!listingToPayload,
         Listings!loadMine, P!Provider!loadMine
<1>3. /\ Listings!Init <=> P!Provider!Init
      /\ Listings!OneListingPerForm <=> P!Provider!OneListingPerForm
  BY DEF Listings!EMPTY, P!Provider!EMPTY, Listings!Init, P!Provider!Init,
         Listings!OneListingPerForm, P!Provider!OneListingPerForm
<1> QED BY <1>1, <1>2, <1>3, SameProviderBackend DEF Listings!Next, P!Provider!Next

LEMMA ProviderHolds ==
  /\ Listings!Init => P!ProviderInv
  /\ page = "listings" /\ P!ProviderInv /\ (Next \/ UNCHANGED vars) => P!ProviderInv'
BY SameProvider, P!ProviderInit, P!ProviderNext
   DEF Next, vars, P!Provider!vars

-----------------------------------------------------------------------------
(* A restaurant's menus                                                      *)

LEMMA SameMenu ==
  /\ MenuEditor!Init <=> P!Menu!Init
  /\ MenuEditor!Next <=> P!Menu!Next
  /\ MenuEditor!OneMenuPerForm <=> P!Menu!OneMenuPerForm
BY DEF MenuEditor!Init, P!Menu!Init, MenuEditor!Texts, P!Menu!Texts,
       MenuEditor!Fresh, P!Menu!Fresh, MenuEditor!EMPTY_MENU,
       P!Menu!EMPTY_MENU, MenuEditor!Tree, P!Menu!Tree, MenuEditor!Next,
       P!Menu!Next, MenuEditor!CopyAnswered, P!Menu!CopyAnswered,
       MenuEditor!Failed, P!Menu!Failed, MenuEditor!Finally, P!Menu!Finally,
       MenuEditor!Settled, P!Menu!Settled, MenuEditor!RemoveAt,
       P!Menu!RemoveAt, MenuEditor!Then, P!Menu!Then, MenuEditor!Sent,
       P!Menu!Sent, MenuEditor!Call, P!Menu!Call, MenuEditor!Answered,
       P!Menu!Answered, MenuEditor!duplicate, P!Menu!duplicate,
       MenuEditor!Cards, P!Menu!Cards, MenuEditor!Row, P!Menu!Row,
       MenuEditor!Pieces, P!Menu!Pieces, MenuEditor!Click, P!Menu!Click,
       MenuEditor!Room, P!Menu!Room, MenuEditor!Buttons, P!Menu!Buttons,
       MenuEditor!toggleBuilder, P!Menu!toggleBuilder, MenuEditor!Closed,
       P!Menu!Closed, MenuEditor!remove, P!Menu!remove,
       MenuEditor!CancelDelete, P!Menu!CancelDelete, MenuEditor!AskDelete,
       P!Menu!AskDelete, MenuEditor!StrayAnswered, P!Menu!StrayAnswered,
       MenuEditor!MoveAnswered, P!Menu!MoveAnswered, MenuEditor!AfterHalf,
       P!Menu!AfterHalf, MenuEditor!ThenRefresh, P!Menu!ThenRefresh,
       MenuEditor!OtherHalf, P!Menu!OtherHalf, MenuEditor!move, P!Menu!move,
       MenuEditor!Swap, P!Menu!Swap, MenuEditor!Place, P!Menu!Place,
       MenuEditor!menuRowToPayload, P!Menu!menuRowToPayload,
       MenuEditor!Exchanged, P!Menu!Exchanged, MenuEditor!Shown, P!Menu!Shown,
       MenuEditor!sortByOrder, P!Menu!sortByOrder, MenuEditor!SetToSortSeq,
       P!Menu!SetToSortSeq, MenuEditor!SetToSeq, P!Menu!SetToSeq,
       MenuEditor!IsInjective, P!Menu!IsInjective, MenuEditor!Quiet,
       P!Menu!Quiet, MenuEditor!Distinct, P!Menu!Distinct,
       MenuEditor!Neighbours, P!Menu!Neighbours, MenuEditor!UpdateAnswered,
       P!Menu!UpdateAnswered, MenuEditor!toggleActive, P!Menu!toggleActive,
       MenuEditor!save, P!Menu!save, MenuEditor!New, P!Menu!New,
       MenuEditor!MaySave, P!Menu!MaySave, MenuEditor!FormShown,
       P!Menu!FormShown, MenuEditor!MenuForm, P!Menu!MenuForm,
       MenuEditor!cancelForm, P!Menu!cancelForm, MenuEditor!startEdit,
       P!Menu!startEdit, MenuEditor!startCreate, P!Menu!startCreate,
       MenuEditor!AddButton, P!Menu!AddButton, MenuEditor!SwitchTab,
       P!Menu!SwitchTab, MenuEditor!Kinds, P!Menu!Kinds, MenuEditor!Unheard,
       P!Menu!Unheard, MenuEditor!refresh, P!Menu!refresh, MenuEditor!Done,
       P!Menu!Done, MenuEditor!Backend, P!Menu!Backend, MenuEditor!HallDeleted,
       P!Menu!HallDeleted, MenuEditor!ServeRefusal, P!Menu!ServeRefusal,
       MenuEditor!Refused, P!Menu!Refused, MenuEditor!loadListingTree,
       P!Menu!loadListingTree, MenuEditor!Served, P!Menu!Served,
       MenuEditor!Waiting, P!Menu!Waiting, MenuEditor!ServeDelete,
       P!Menu!ServeDelete, MenuEditor!Without, P!Menu!Without,
       MenuEditor!Alive, P!Menu!Alive, MenuEditor!ServePart, P!Menu!ServePart,
       MenuEditor!ServeUpdate, P!Menu!ServeUpdate, MenuEditor!Patched,
       P!Menu!Patched, MenuEditor!Met, P!Menu!Met, MenuEditor!validateMenuHall,
       P!Menu!validateMenuHall, MenuEditor!ServeCreate, P!Menu!ServeCreate,
       MenuEditor!With, P!Menu!With, MenuEditor!Menus, P!Menu!Menus,
       MenuEditor!Cardinality, P!Menu!Cardinality, MenuEditor!OneMenuPerForm,
       P!Menu!OneMenuPerForm, MenuEditor!AnswerLost, P!Menu!AnswerLost,
       MenuEditor!Coming, P!Menu!Coming

LEMMA MenuHolds ==
  /\ MenuEditor!Init => P!MenuInv
  /\ page = "menu editor" /\ P!MenuInv /\ (Next \/ UNCHANGED vars) => P!MenuInv'
BY SameMenu, P!MenuInit, P!MenuNext
   DEF Next, vars, P!Menu!vars

-----------------------------------------------------------------------------
(* The manager's widget                                                      *)

LEMMA SameChat ==
  /\ Chat!Init <=> S!Chat!Init
  /\ Chat!OneLead <=> S!Chat!OneLead
  /\ Chat!ThreadMatchesContext <=> S!Chat!ThreadMatchesContext
BY DEF Chat!Init, S!Chat!Init, Chat!Threads, S!Chat!Threads, Chat!Closed,
       S!Chat!Closed, Chat!Nothing, S!Chat!Nothing, Chat!NoContext,
       S!Chat!NoContext, Chat!OneLead, S!Chat!OneLead,
       Chat!ThreadMatchesContext, S!Chat!ThreadMatchesContext, Chat!ThreadOf,
       S!Chat!ThreadOf, Chat!ChatShown, S!Chat!ChatShown

LEMMA SameChatFiltered ==
  ASSUME NEW n, NEW kept PROVE Chat!Filtered(n, kept) = S!Chat!Filtered(n, kept)
BY DEF Chat!Filtered, S!Chat!Filtered, Chat!Nth, S!Chat!Nth, Chat!Cardinality,
       S!Chat!Cardinality

LEMMA SameChatCancel ==
  ASSUME NEW n, NEW kinds PROVE Chat!Cancel(n, kinds) = S!Chat!Cancel(n, kinds)
BY SameChatFiltered DEF Chat!Cancel, S!Chat!Cancel

LEMMA SameChatCommit ==
  ASSUME NEW u, NEW n PROVE Chat!Commit(u, n) <=> S!Chat!Commit(u, n)
BY SameChatCancel DEF Chat!Commit, S!Chat!Commit, Chat!Reloads, S!Chat!Reloads,
       Chat!Cleared, S!Chat!Cleared, Chat!Nothing, S!Chat!Nothing, Chat!LoadKey,
       S!Chat!LoadKey, Chat!PollKey, S!Chat!PollKey, Chat!ChatShown,
       S!Chat!ChatShown, Chat!Room, S!Chat!Room, Chat!Sent, S!Chat!Sent,
       Chat!Call, S!Chat!Call, Chat!ThreadOf, S!Chat!ThreadOf

LEMMA SameChatNext == Chat!Next <=> S!Chat!Next
<1>0. Chat!Backend <=> S!Chat!Backend
  BY DEF Chat!AnswerLost, S!Chat!AnswerLost, Chat!Backend, S!Chat!Backend,
         Chat!Coming, S!Chat!Coming, Chat!ManagerWrites, S!Chat!ManagerWrites,
         Chat!Refused, S!Chat!Refused, Chat!ServeLead, S!Chat!ServeLead,
         Chat!ServeLook, S!Chat!ServeLook, Chat!ServeRefusal,
         S!Chat!ServeRefusal, Chat!ServeSend, S!Chat!ServeSend, Chat!Served,
         S!Chat!Served, Chat!Shown, S!Chat!Shown, Chat!Threads, S!Chat!Threads,
         Chat!Waiting, S!Chat!Waiting
<1>1. /\ Chat!LoadAnswered <=> S!Chat!LoadAnswered
      /\ Chat!Poll <=> S!Chat!Poll
      /\ Chat!PollAnswered <=> S!Chat!PollAnswered
      /\ Chat!ClosePanel <=> S!Chat!ClosePanel
      /\ Chat!AutoClose <=> S!Chat!AutoClose
      /\ Chat!OpenPanel <=> S!Chat!OpenPanel
      /\ Chat!MenuWrite <=> S!Chat!MenuWrite
      /\ Chat!MenuCallback <=> S!Chat!MenuCallback
  BY SameChatCommit DEF Chat!RemoveAt, S!Chat!RemoveAt, Chat!Answered, S!Chat!Answered, Chat!AutoClose,
         S!Chat!AutoClose, Chat!Call, S!Chat!Call, Chat!ClosePanel,
         S!Chat!ClosePanel, Chat!Launcher, S!Chat!Launcher, Chat!LoadAnswered,
         S!Chat!LoadAnswered, Chat!MenuCallback, S!Chat!MenuCallback,
         Chat!MenuWrite, S!Chat!MenuWrite, Chat!NoContext, S!Chat!NoContext,
         Chat!OpenPanel, S!Chat!OpenPanel, Chat!Poll, S!Chat!Poll,
         Chat!PollAnswered, S!Chat!PollAnswered, Chat!Room, S!Chat!Room,
         Chat!Sent, S!Chat!Sent, Chat!Settled, S!Chat!Settled, Chat!Shown,
         S!Chat!Shown, Chat!ShutDown, S!Chat!ShutDown, Chat!ThreadOf,
         S!Chat!ThreadOf
<1>2. /\ Chat!Back <=> S!Chat!Back
      /\ Chat!OpenChat <=> S!Chat!OpenChat
      /\ Chat!Greet <=> S!Chat!Greet
      /\ Chat!SignInOrOut <=> S!Chat!SignInOrOut
      /\ Chat!SubmitMessage <=> S!Chat!SubmitMessage
      /\ Chat!SubmitCallback <=> S!Chat!SubmitCallback
      /\ Chat!LeadAnswered <=> S!Chat!LeadAnswered
      /\ Chat!SendChat <=> S!Chat!SendChat
      /\ Chat!SendAnswered <=> S!Chat!SendAnswered
  BY SameChatCommit DEF Chat!Back, S!Chat!Back, Chat!OpenChat, S!Chat!OpenChat,
         Chat!Contextual, S!Chat!Contextual, Chat!NoContext, S!Chat!NoContext,
         Chat!Contexts, S!Chat!Contexts, Chat!Notified, S!Chat!Notified, Chat!About,
         S!Chat!About, Chat!Greet, S!Chat!Greet, Chat!SignInOrOut, S!Chat!SignInOrOut,
         Chat!SubmitMessage, S!Chat!SubmitMessage, Chat!SendLead, S!Chat!SendLead,
         Chat!MessageForm, S!Chat!MessageForm, Chat!Room, S!Chat!Room, Chat!Sent,
         S!Chat!Sent, Chat!Call, S!Chat!Call, Chat!SubmitCallback,
         S!Chat!SubmitCallback, Chat!CallbackForm, S!Chat!CallbackForm,
         Chat!LeadAnswered, S!Chat!LeadAnswered, Chat!Answered, S!Chat!Answered,
         Chat!Settled, S!Chat!Settled, Chat!RemoveAt, S!Chat!RemoveAt, Chat!SendChat,
         S!Chat!SendChat, Chat!ChatView, S!Chat!ChatView, Chat!Target, S!Chat!Target,
         Chat!SendAnswered, S!Chat!SendAnswered, Chat!ThreadOf, S!Chat!ThreadOf
<1> QED BY <1>0, <1>1, <1>2 DEF Chat!Next, S!Chat!Next

LEMMA ChatHolds ==
  /\ Chat!Init => S!ChatInv /\ S!ContextInv
  /\ page = "manager chat" /\ S!ChatInv /\ (Next \/ UNCHANGED vars) => S!ChatInv'
  /\ page = "manager chat" /\ S!ContextInv /\ (Next \/ UNCHANGED vars) => S!ContextInv'
BY SameChat, SameChatNext, S!ChatInit, S!ChatNext, S!ContextInit, S!ContextNext
   DEF Next, vars, S!Chat!vars

-----------------------------------------------------------------------------
(* The cart                                                                  *)

LEMMA SameBasket ==
  /\ CartOf!Init <=> S!Basket!Init
  /\ CartOf!Next <=> S!Basket!Next
  /\ CartOf!NoLineOrderedTwice <=> S!Basket!NoLineOrderedTwice
  /\ CartOf!CartKept <=> S!Basket!CartKept
  /\ CartOf!OfferIsOrder <=> S!Basket!OfferIsOrder
BY DEF CartOf!Init, S!Basket!Init, CartOf!Variants, S!Basket!Variants,
       CartOf!Next, S!Basket!Next, CartOf!Reload, S!Basket!Reload,
       CartOf!InFlight, S!Basket!InFlight, CartOf!ResendAnswered,
       S!Basket!ResendAnswered, CartOf!Settled, S!Basket!Settled,
       CartOf!RemoveAt, S!Basket!RemoveAt, CartOf!Answered, S!Basket!Answered,
       CartOf!handleResend, S!Basket!handleResend, CartOf!Sent, S!Basket!Sent,
       CartOf!Call, S!Basket!Call, CartOf!Room, S!Basket!Room,
       CartOf!CheckoutAnswered, S!Basket!CheckoutAnswered,
       CartOf!addBookingRef, S!Basket!addBookingRef, CartOf!Accepted,
       S!Basket!Accepted, CartOf!OrderSent, S!Basket!OrderSent, CartOf!ToSet,
       S!Basket!ToSet, CartOf!Commit, S!Basket!Commit, CartOf!Listing,
       S!Basket!Listing, CartOf!ListKey, S!Basket!ListKey,
       CartOf!handleCheckout, S!Basket!handleCheckout, CartOf!CheckoutForm,
       S!Basket!CheckoutForm, CartOf!removeItem, S!Basket!removeItem,
       CartOf!VariantOf, S!Basket!VariantOf, CartOf!Without, S!Basket!Without,
       CartOf!cartItemKey, S!Basket!cartItemKey, CartOf!Filtered,
       S!Basket!Filtered, CartOf!Nth, S!Basket!Nth, CartOf!persist,
       S!Basket!persist, CartOf!addItem, S!Basket!addItem, CartOf!ListAnswered,
       S!Basket!ListAnswered, CartOf!SignInOrOut, S!Basket!SignInOrOut,
       CartOf!CloseDrawer, S!Basket!CloseDrawer, CartOf!OpenDrawer,
       S!Basket!OpenDrawer, CartOf!Backend, S!Basket!Backend,
       CartOf!ServeRefusal, S!Basket!ServeRefusal, CartOf!Refused,
       S!Basket!Refused, CartOf!ServeLists, S!Basket!ServeLists, CartOf!Served,
       S!Basket!Served, CartOf!Waiting, S!Basket!Waiting, CartOf!ServeCheckout,
       S!Basket!ServeCheckout, CartOf!Filed, S!Basket!Filed,
       CartOf!Cardinality, S!Basket!Cardinality, CartOf!OfferIsOrder,
       S!Basket!OfferIsOrder, CartOf!Offered, S!Basket!Offered,
       CartOf!CartKept, S!Basket!CartKept, CartOf!NoLineOrderedTwice,
       S!Basket!NoLineOrderedTwice, CartOf!AnswerLost, S!Basket!AnswerLost,
       CartOf!Coming, S!Basket!Coming

LEMMA BasketHolds ==
  /\ CartOf!Init => S!BasketInv
  /\ page = "cart" /\ S!BasketInv /\ (Next \/ UNCHANGED vars) => S!BasketInv'
BY SameBasket, S!BasketInit, S!BasketNext
   DEF Next, vars, S!Basket!vars

-----------------------------------------------------------------------------
(* The assistant                                                           *)

LEMMA SameAssistant ==
  /\ Assistant!Init <=> S!Assistant!Init
  /\ Assistant!Next <=> S!Assistant!Next
  /\ Assistant!ReplyFollowsQuestion <=> S!Assistant!ReplyFollowsQuestion
BY DEF Assistant!Init, S!Assistant!Init, Assistant!Widget, S!Assistant!Widget,
       Assistant!Next, S!Assistant!Next, Assistant!TurnAnswered,
       S!Assistant!TurnAnswered, Assistant!Settled, S!Assistant!Settled,
       Assistant!RemoveAt, S!Assistant!RemoveAt, Assistant!Last,
       S!Assistant!Last, Assistant!Reply, S!Assistant!Reply,
       Assistant!Answered, S!Assistant!Answered, Assistant!Send,
       S!Assistant!Send, Assistant!Sent, S!Assistant!Sent, Assistant!Call,
       S!Assistant!Call, Assistant!Question, S!Assistant!Question,
       Assistant!Room, S!Assistant!Room, Assistant!MayAsk, S!Assistant!MayAsk,
       Assistant!Composer, S!Assistant!Composer, Assistant!Type,
       S!Assistant!Type, Assistant!Close, S!Assistant!Close, Assistant!Open,
       S!Assistant!Open, Assistant!Backend, S!Assistant!Backend,
       Assistant!ServeTurn, S!Assistant!ServeTurn, Assistant!Refused,
       S!Assistant!Refused, Assistant!Served, S!Assistant!Served,
       Assistant!Waiting, S!Assistant!Waiting, Assistant!ReplyFollowsQuestion,
       S!Assistant!ReplyFollowsQuestion

LEMMA AssistantHolds ==
  /\ Assistant!Init => S!AssistantInv
  /\ page = "assistant" /\ S!AssistantInv /\ (Next \/ UNCHANGED vars) => S!AssistantInv'
BY SameAssistant, S!AssistantInit, S!AssistantNext
   DEF Next, vars, S!Assistant!vars

-----------------------------------------------------------------------------
(* The bell                                                                *)

LEMMA SameBell ==
  /\ Bell!Init <=> S!Bell!Init
  /\ Bell!Next <=> S!Bell!Next
  /\ Bell!BadgeSettles <=> S!Bell!BadgeSettles
BY DEF Bell!Init, S!Bell!Init, Bell!Sent, S!Bell!Sent, Bell!Call, S!Bell!Call,
       Bell!Next, S!Bell!Next, Bell!Backend, S!Bell!Backend, Bell!Arrive,
       S!Bell!Arrive, Bell!ReadElsewhere, S!Bell!ReadElsewhere,
       Bell!refreshCount, S!Bell!refreshCount, Bell!CountAnswered,
       S!Bell!CountAnswered, Bell!handleToggle, S!Bell!handleToggle,
       Bell!BellAnswered, S!Bell!BellAnswered, Bell!CloseOutside,
       S!Bell!CloseOutside, Bell!handleItemClick, S!Bell!handleItemClick,
       Bell!MarkAnswered, S!Bell!MarkAnswered, Bell!handleMarkAll,
       S!Bell!handleMarkAll, Bell!MarkAllAnswered, S!Bell!MarkAllAnswered,
       Bell!ToggleDiscussion, S!Bell!ToggleDiscussion, Bell!suppress,
       S!Bell!suppress, Bell!SuppressAnswered, S!Bell!SuppressAnswered,
       Bell!ServeLook, S!Bell!ServeLook, Bell!ServeMark, S!Bell!ServeMark,
       Bell!ServeMarkAll, S!Bell!ServeMarkAll, Bell!ServeRefusal,
       S!Bell!ServeRefusal, Bell!Unread, S!Bell!Unread, Bell!InFlight,
       S!Bell!InFlight, Bell!Room, S!Bell!Room, Bell!Answered, S!Bell!Answered,
       Bell!Cardinality, S!Bell!Cardinality, Bell!Unserved, S!Bell!Unserved,
       Bell!Settled, S!Bell!Settled, Bell!Clicked, S!Bell!Clicked,
       Bell!BellRows, S!Bell!BellRows, Bell!unreadIds, S!Bell!unreadIds,
       Bell!Less, S!Bell!Less, Bell!Marked, S!Bell!Marked, Bell!ToDiscussion,
       S!Bell!ToDiscussion, Bell!StaysHere, S!Bell!StaysHere, Bell!Marks,
       S!Bell!Marks, Bell!Unheard, S!Bell!Unheard, Bell!Marking,
       S!Bell!Marking, Bell!Ids, S!Bell!Ids, Bell!Waiting, S!Bell!Waiting,
       Bell!Served, S!Bell!Served, Bell!Answer, S!Bell!Answer, Bell!Refused,
       S!Bell!Refused, Bell!RemoveAt, S!Bell!RemoveAt, Bell!groupNotifications,
       S!Bell!groupNotifications, Bell!Max, S!Bell!Max, Bell!Nth, S!Bell!Nth,
       Bell!PageOf, S!Bell!PageOf, Bell!BadgeSettles, S!Bell!BadgeSettles,
       Bell!Coming, S!Bell!Coming

LEMMA BellHolds ==
  /\ Bell!Init => S!BellInv
  /\ page = "bell" /\ S!BellInv /\ (Next \/ UNCHANGED vars) => S!BellInv'
BY SameBell, S!BellInit, S!BellNext
   DEF Next, vars, S!Bell!vars

-----------------------------------------------------------------------------
(* The members of an event                                                 *)

LEMMA SameMembers ==
  /\ Members!Init <=> P!Members!Init
  /\ Members!Next <=> P!Members!Next
  /\ Members!ListIsCurrent <=> P!Members!ListIsCurrent
BY DEF Members!Init, P!Members!Init, Members!Sent, P!Members!Sent,
       Members!Call, P!Members!Call, Members!Next, P!Members!Next,
       Members!MarksGone, P!Members!MarksGone, Members!copyLink,
       P!Members!copyLink, Members!ChangeAnswered, P!Members!ChangeAnswered,
       Members!Settled, P!Members!Settled, Members!RemoveAt,
       P!Members!RemoveAt, Members!Reload, P!Members!Reload, Members!Answered,
       P!Members!Answered, Members!Changes, P!Members!Changes, Members!Kinds,
       P!Members!Kinds, Members!handleRevoke, P!Members!handleRevoke,
       Members!Clicked, P!Members!Clicked, Members!Room, P!Members!Room,
       Members!handleRemove, P!Members!handleRemove, Members!MemberRow,
       P!Members!MemberRow, Members!handleChangeRole,
       P!Members!handleChangeRole, Members!Roles, P!Members!Roles,
       Members!InviteAnswered, P!Members!InviteAnswered,
       Members!handleCreateInvite, P!Members!handleCreateInvite,
       Members!InviteForm, P!Members!InviteForm, Members!TypeEmail,
       P!Members!TypeEmail, Members!LoadAnswered, P!Members!LoadAnswered,
       Members!Backend, P!Members!Backend, Members!ServeRefusal,
       P!Members!ServeRefusal, Members!Refused, P!Members!Refused,
       Members!ServeRevoke, P!Members!ServeRevoke, Members!Served,
       P!Members!Served, Members!Waiting, P!Members!Waiting,
       Members!ServeRemove, P!Members!ServeRemove, Members!Without,
       P!Members!Without, Members!ServeRole, P!Members!ServeRole,
       Members!ServeInvite, P!Members!ServeInvite, Members!ServeLoad,
       P!Members!ServeLoad, Members!Lists, P!Members!Lists,
       Members!ListIsCurrent, P!Members!ListIsCurrent, Members!AnswerLost,
       P!Members!AnswerLost, Members!Coming, P!Members!Coming

LEMMA MembersHolds ==
  /\ Members!Init => P!MembersInv
  /\ page = "members" /\ P!MembersInv /\ (Next \/ UNCHANGED vars) => P!MembersInv'
BY SameMembers, P!MembersInit, P!MembersNext
   DEF Next, vars, P!Members!vars

-----------------------------------------------------------------------------
(* The notifications                                                       *)

LEMMA SameNotes ==
  /\ Notes!Init <=> P!Notes!Init
  /\ Notes!Next <=> P!Notes!Next
  /\ Notes!PageShowsItsTab <=> P!Notes!PageShowsItsTab
  /\ Notes!ReadRowsAreRead <=> P!Notes!ReadRowsAreRead
BY DEF Notes!Init, P!Notes!Init, Notes!Fresh, P!Notes!Fresh, Notes!LoadArg,
       P!Notes!LoadArg, Notes!Sent, P!Notes!Sent, Notes!Call, P!Notes!Call,
       Notes!Next, P!Notes!Next, Notes!Backend, P!Notes!Backend, Notes!Arrive,
       P!Notes!Arrive, Notes!ReadElsewhere, P!Notes!ReadElsewhere, Notes!Open,
       P!Notes!Open, Notes!switchTab, P!Notes!switchTab, Notes!PageBack,
       P!Notes!PageBack, Notes!PageOn, P!Notes!PageOn, Notes!PageAnswered,
       P!Notes!PageAnswered, Notes!handleClick, P!Notes!handleClick,
       Notes!MarkAnswered, P!Notes!MarkAnswered, Notes!handleMarkAll,
       P!Notes!handleMarkAll, Notes!MarkAllAnswered, P!Notes!MarkAllAnswered,
       Notes!ServePage, P!Notes!ServePage, Notes!ServeMark, P!Notes!ServeMark,
       Notes!ServeMarkAll, P!Notes!ServeMarkAll, Notes!ServeRefusal,
       P!Notes!ServeRefusal, Notes!Room, P!Notes!Room, Notes!Tabs,
       P!Notes!Tabs, Notes!Turned, P!Notes!Turned, Notes!Pager, P!Notes!Pager,
       Notes!totalPages, P!Notes!totalPages, Notes!Answered, P!Notes!Answered,
       Notes!Settled, P!Notes!Settled, Notes!Rows, P!Notes!Rows,
       Notes!unreadIds, P!Notes!unreadIds, Notes!Cardinality,
       P!Notes!Cardinality, Notes!Clicked, P!Notes!Clicked, Notes!Marked,
       P!Notes!Marked, Notes!StaysHere, P!Notes!StaysHere, Notes!Marks,
       P!Notes!Marks, Notes!Unheard, P!Notes!Unheard, Notes!Ids, P!Notes!Ids,
       Notes!Waiting, P!Notes!Waiting, Notes!Served, P!Notes!Served,
       Notes!ListOf, P!Notes!ListOf, Notes!Refused, P!Notes!Refused,
       Notes!Reloaded, P!Notes!Reloaded, Notes!RemoveAt, P!Notes!RemoveAt,
       Notes!groupNotifications, P!Notes!groupNotifications, Notes!Max,
       P!Notes!Max, Notes!Nth, P!Notes!Nth, Notes!Answer, P!Notes!Answer,
       Notes!PageOf, P!Notes!PageOf, Notes!PageShowsItsTab,
       P!Notes!PageShowsItsTab, Notes!InFlight, P!Notes!InFlight,
       Notes!ReadRowsAreRead, P!Notes!ReadRowsAreRead, Notes!isRead,
       P!Notes!isRead, Notes!Marking, P!Notes!Marking, Notes!Coming,
       P!Notes!Coming

LEMMA NotesHolds ==
  /\ Notes!Init => P!ReadInv
  /\ page = "notifications" /\ P!ReadInv /\ (Next \/ UNCHANGED vars) => P!ReadInv'
BY SameNotes, P!ReadInit, P!ReadNext
   DEF Next, vars, P!Notes!vars

-----------------------------------------------------------------------------
(* The desk of support requests                                            *)

LEMMA SameRecoveries ==
  /\ Recoveries!Init <=> P!Recoveries!Init
  /\ Recoveries!Next <=> P!Recoveries!Next
  /\ Recoveries!ListIsOfFilter <=> P!Recoveries!ListIsOfFilter
BY DEF Recoveries!Init, P!Recoveries!Init, Recoveries!Asked,
       P!Recoveries!Asked, Recoveries!Sent, P!Recoveries!Sent, Recoveries!Call,
       P!Recoveries!Call, Recoveries!Fresh, P!Recoveries!Fresh,
       Recoveries!Next, P!Recoveries!Next, Recoveries!Reopen,
       P!Recoveries!Reopen, Recoveries!Click, P!Recoveries!Click,
       Recoveries!Kinds, P!Recoveries!Kinds, Recoveries!Unheard,
       P!Recoveries!Unheard, Recoveries!Room, P!Recoveries!Room,
       Recoveries!HideCode, P!Recoveries!HideCode, Recoveries!act,
       P!Recoveries!act, Recoveries!Settled, P!Recoveries!Settled,
       Recoveries!RemoveAt, P!Recoveries!RemoveAt, Recoveries!Issued,
       P!Recoveries!Issued, Recoveries!Answered, P!Recoveries!Answered,
       Recoveries!handleReject, P!Recoveries!handleReject, Recoveries!Decide,
       P!Recoveries!Decide, Recoveries!Card, P!Recoveries!Card,
       Recoveries!Open, P!Recoveries!Open, Recoveries!handleApprove,
       P!Recoveries!handleApprove, Recoveries!ChangeFilter,
       P!Recoveries!ChangeFilter, Recoveries!NewList, P!Recoveries!NewList,
       Recoveries!LoadAnswered, P!Recoveries!LoadAnswered,
       Recoveries!Elsewhere, P!Recoveries!Elsewhere, Recoveries!Statuses,
       P!Recoveries!Statuses, Recoveries!Backend, P!Recoveries!Backend,
       Recoveries!ServeRefusal, P!Recoveries!ServeRefusal, Recoveries!Refused,
       P!Recoveries!Refused, Recoveries!Reject, P!Recoveries!Reject,
       Recoveries!Told, P!Recoveries!Told, Recoveries!Served,
       P!Recoveries!Served, Recoveries!Waiting, P!Recoveries!Waiting,
       Recoveries!Approve, P!Recoveries!Approve, Recoveries!ListRequests,
       P!Recoveries!ListRequests, Recoveries!Under, P!Recoveries!Under,
       Recoveries!ListIsOfFilter, P!Recoveries!ListIsOfFilter

LEMMA RecoveriesHolds ==
  /\ Recoveries!Init => P!RecoveriesInv
  /\ page = "recovery desk" /\ P!RecoveriesInv /\ (Next \/ UNCHANGED vars) => P!RecoveriesInv'
BY SameRecoveries, P!RecoveriesInit, P!RecoveriesNext
   DEF Next, vars, P!Recoveries!vars

-----------------------------------------------------------------------------
(* The desk of event requests                                              *)

LEMMA SameReviews ==
  /\ Reviews!Init <=> P!Reviews!Init
  /\ Reviews!Next <=> P!Reviews!Next
  /\ Reviews!DecidesWhatWasSeen <=> P!Reviews!DecidesWhatWasSeen
BY DEF Reviews!Init, P!Reviews!Init, Reviews!Sent, P!Reviews!Sent,
       Reviews!Call, P!Reviews!Call, Reviews!Next, P!Reviews!Next,
       Reviews!DecisionAnswered, P!Reviews!DecisionAnswered, Reviews!ReadAgain,
       P!Reviews!ReadAgain, Reviews!Settled, P!Reviews!Settled,
       Reviews!RemoveAt, P!Reviews!RemoveAt, Reviews!Answered,
       P!Reviews!Answered, Reviews!handleStatusChange,
       P!Reviews!handleStatusChange, Reviews!InFlight, P!Reviews!InFlight,
       Reviews!Room, P!Reviews!Room, Reviews!NEXT_STATUSES,
       P!Reviews!NEXT_STATUSES, Reviews!Decisions, P!Reviews!Decisions,
       Reviews!MayDecide, P!Reviews!MayDecide, Reviews!Type, P!Reviews!Type,
       Reviews!LoadAnswered, P!Reviews!LoadAnswered, Reviews!Elsewhere,
       P!Reviews!Elsewhere, Reviews!Cancel, P!Reviews!Cancel, Reviews!Submit,
       P!Reviews!Submit, Reviews!Backend, P!Reviews!Backend,
       Reviews!ServeRefusal, P!Reviews!ServeRefusal, Reviews!Refused,
       P!Reviews!Refused, Reviews!AdminUpdateStatus,
       P!Reviews!AdminUpdateStatus, Reviews!Served, P!Reviews!Served,
       Reviews!Waiting, P!Reviews!Waiting, Reviews!AdminGet,
       P!Reviews!AdminGet, Reviews!DecidesWhatWasSeen,
       P!Reviews!DecidesWhatWasSeen

LEMMA ReviewsHolds ==
  /\ Reviews!Init => P!ReviewsInv
  /\ page = "request desk" /\ P!ReviewsInv /\ (Next \/ UNCHANGED vars) => P!ReviewsInv'
BY SameReviews, P!ReviewsInit, P!ReviewsNext
   DEF Next, vars, P!Reviews!vars

-----------------------------------------------------------------------------
(* The pages together *)

\* What holds while a page is open: its component's invariant. First what a visitor has, then
\* what the account and its events have, then the desks and editors of the administration.
VisitorInv ==
  /\ page = "session" => S!IndInv
  /\ page = "manager chat" => S!ChatInv /\ S!ContextInv
  /\ page = "cart" => S!BasketInv
  /\ page = "assistant" => S!AssistantInv
  /\ page = "bell" => S!BellInv
  /\ page = "recovery code" => P!CardInv

EventInv ==
  /\ page = "comments" => P!ThreadInv
  /\ page = "tasks" => P!TaskInv
  /\ page = "service" => P!ServiceInv
  /\ page = "members" => P!MembersInv
  /\ page = "notifications" => P!ReadInv

DesksInv ==
  /\ page = "chat desk" => P!DeskInv
  /\ page = "listings" => P!ProviderInv
  /\ page = "menu editor" => P!MenuInv
  /\ page = "recovery desk" => P!RecoveriesInv
  /\ page = "request desk" => P!ReviewsInv

PagesInv == VisitorInv /\ EventInv /\ DesksInv

LEMMA PagesInit == Init => PagesInv
BY SessionHolds, CardHolds, ThreadHolds, TaskHolds, ServiceHolds, DeskHolds,
   ProviderHolds, MenuHolds, ChatHolds, BasketHolds, AssistantHolds, BellHolds,
   MembersHolds, NotesHolds, RecoveriesHolds, ReviewsHolds, Zenon
   DEF Init, PagesInv, VisitorInv, EventInv, DesksInv

LEMMA PagesStep ==
  ASSUME PagesInv, Next \/ UNCHANGED vars PROVE PagesInv'
<1>1. page' = page
  BY DEF Next, vars
<1>2. VisitorInv'
  BY <1>1, SessionHolds, ChatHolds, BasketHolds, AssistantHolds, BellHolds, CardHolds,
     Zenon
     DEF PagesInv, VisitorInv
<1>3. EventInv'
  BY <1>1, ThreadHolds, TaskHolds, ServiceHolds, MembersHolds, NotesHolds, Zenon
     DEF PagesInv, EventInv
<1>4. DesksInv'
  BY <1>1, DeskHolds, ProviderHolds, MenuHolds, RecoveriesHolds, ReviewsHolds, Zenon
     DEF PagesInv, DesksInv
<1> QED BY <1>2, <1>3, <1>4 DEF PagesInv

LEMMA PagesInvariance == Spec => []PagesInv
BY PagesInit, PagesStep, PTL DEF Spec

\* The account shown as signed in and the token in localStorage belong together,
\* on the pages as they are put together.
THEOREM PagesSessionAgrees == Spec => []SessionAgrees
<1>1. PagesInv => SessionAgrees
  BY SameSession DEF PagesInv, VisitorInv, SessionAgrees, S!IndInv
<1> QED BY <1>1, PagesInvariance, PTL

\* A claim that opened the account is never shown as used or invalid.
THEOREM PagesClaimStands == Spec => []ClaimSuccessStands
<1>1. PagesInv => ClaimSuccessStands
  BY SameSession
     DEF PagesInv, VisitorInv, ClaimSuccessStands, S!IndInv, S!ClaimOver, S!ClaimSuccessStands
<1> QED BY <1>1, PagesInvariance, PTL

\* Nobody but an admin is left signed in by the admin login form.
THEOREM PagesAdminDoor == Spec => []AdminDoorForAdmins
<1>1. PagesInv => AdminDoorForAdmins
  BY SameSession DEF PagesInv, VisitorInv, AdminDoorForAdmins, S!IndInv
<1> QED BY <1>1, PagesInvariance, PTL

\* A code the account holds is replaced only after the dialog was confirmed
\* (handlePrimary), unless the look at the account came late, the answer of a creation
\* was lost, so that the card goes on believing there is no code, or two creations were
\* on their way at once.
THEOREM PagesReplaceIfConfirmed == Spec => []ReplacedIfConfirmed
<1>1. PagesInv => ReplacedIfConfirmed
  BY DEF PagesInv, VisitorInv, ReplacedIfConfirmed, Card!ReplacedIfConfirmed, P!CardInv, P!Quiet
<1> QED BY <1>1, PagesInvariance, PTL

\* In the discussion of an event a message is on screen once and only if it was
\* accepted or is on its way; one the user deletes is off the screen while its delete is
\* on its way (pendingDelete) and stays off, unless an answer older than the delete comes
\* when the delete is done, which the code lets bring it back, or a delete that failed
\* put its list back; and no text is lost.
THEOREM PagesThreadKept == Spec => []ThreadKept
<1>1. P!ThreadInv => /\ P!Thread!NoDuplicateShown /\ P!Thread!NoPhantom
                     /\ P!Thread!DeletedStaysHidden /\ P!Thread!TextKept
  BY DEF P!ThreadInv, P!Clear, P!Thread!NoDuplicateShown
<1>2. PagesInv => ThreadKept
  BY <1>1, SameThread DEF PagesInv, EventInv, ThreadKept
<1> QED BY <1>2, PagesInvariance, PTL

\* One click files one thing, on the pages as they are put together: no line of a cart is
\* booked twice (isSubmitting, clear), no review, task, lead, menu, listing or reply is made
\* twice by one form, whatever is clicked, typed, closed or reopened while its call is on its
\* way.  Excepted is a form whose call was served and its answer lost: a review, a task, a
\* menu, a listing or a reply is then kept by its form, which cannot tell, and may be made
\* again; so is an order reloaded or lost in the meantime, a menu whose list could not be
\* read, and a review whose page was left.
THEOREM PagesFiledOnce == Spec => []FiledOnce
<1>1. /\ S!BasketInv => S!Basket!NoLineOrderedTwice
      /\ S!ChatInv => S!Chat!OneLead
  BY DEF S!BasketInv, S!OrderedOnce, S!Basket!NoLineOrderedTwice, S!ChatInv, S!LeadNet, S!Lead,
         S!Chat!OneLead
<1>2. P!ServiceInv => P!Service!NoCommentTwice
  BY DEF P!ServiceInv, P!AllHeard, P!Service!NoCommentTwice
<1>3. P!TaskInv => P!TaskList!NoTaskTwice
  BY P!TaskTruth
<1>4. P!MenuInv => P!Menu!OneMenuPerForm
  BY DEF P!MenuInv, P!EachOnce, P!MenuPast, P!Menu!OneMenuPerForm
<1>5. P!ProviderInv => P!Provider!OneListingPerForm
  BY DEF P!ProviderInv, P!ProviderPast, P!Provider!OneListingPerForm
<1>6. P!DeskInv => P!Desk!NoReplyTwice
  BY DEF P!DeskInv, P!DeskFiled, P!Texts, P!Desk!NoReplyTwice
<1>7. PagesInv => FiledOnce
  BY <1>1, <1>2, <1>3, <1>4, <1>5, <1>6, SameBasket, SameService,
     SameTask, SameChat, SameMenu, SameProvider,
     SameDesk, Zenon
     DEF PagesInv, VisitorInv, EventInv, DesksInv, FiledOnce
<1> QED BY <1>7, PagesInvariance, PTL

\* The cart in localStorage is the cart on screen, with one line for a thing however often it
\* is added (cartItemKey), and the list a booking offers to resend is the list that was
\* booked, whatever the cart holds by then.
THEOREM PagesOrderIsTheCart == Spec => []OrderIsTheCart
<1>1. S!BasketInv => S!Basket!CartKept
  BY DEF S!BasketInv, S!BasketLines, S!Basket!CartKept
<1>2. S!BasketInv => S!Basket!OfferIsOrder
  BY DEF S!BasketInv, S!BasketOffer, S!Basket!OfferIsOrder, S!Basket!Offered
<1>3. PagesInv => OrderIsTheCart
  BY <1>1, <1>2, SameBasket DEF PagesInv, VisitorInv, OrderIsTheCart
<1> QED BY <1>3, PagesInvariance, PTL

\* An answer is put where its question was asked, on the pages as they are put together:
\* the manager's thread of the context on screen, the assistant's reply after its own
\* question, the notifications of the chosen tab, the members after the last change, the
\* support requests of the chosen filter; and a manager decides on the revision on screen.
\* Excepted are a chat thread that a message sent in another context left on screen, the
\* members after a load that failed or was overtaken or after a change whose answer was
\* lost, a filter turned while its list was on the way, and a decision made in between by
\* another manager, by an unheard answer or by a click ahead of the read.
THEOREM PagesAnswerMatches == Spec => []AnswerMatchesQuestion
<1>1. S!ContextInv => S!Chat!ThreadMatchesContext
  BY DEF S!ContextInv, S!InContext, S!Chat!ThreadMatchesContext
<1>2. S!AssistantInv => S!Assistant!ReplyFollowsQuestion
  BY DEF S!AssistantInv, S!Paired, S!Assistant!ReplyFollowsQuestion
<1>3. P!MembersInv => P!Members!ListIsCurrent
  <2>1. net = << >> => DOMAIN net = {}
    OBVIOUS
  <2> QED BY <2>1 DEF P!MembersInv, P!MembersShown, P!MemberLists, P!MemberChanged, P!Current,
                      P!Members!ListIsCurrent
<1>4. P!ReadInv => P!Notes!PageShowsItsTab
  BY DEF P!ReadInv, P!NotesInv, P!AsAsked, P!HeardPage, P!Notes!PageShowsItsTab, P!Notes!InFlight
<1>5. P!RecoveriesInv => P!Recoveries!ListIsOfFilter
  BY DEF P!RecoveriesInv, P!Listed, P!Reading, P!OfFilter, P!Recoveries!ListIsOfFilter
<1>6. P!ReviewsInv => P!Reviews!DecidesWhatWasSeen
  BY DEF P!ReviewsInv, P!ReviewsPast, P!Reviews!DecidesWhatWasSeen
<1>7. PagesInv => AnswerMatchesQuestion
  BY <1>1, <1>2, <1>3, <1>4, <1>5, <1>6, SameChat, SameAssistant,
     SameMembers, SameNotes, SameRecoveries,
     SameReviews, Zenon
     DEF PagesInv, VisitorInv, EventInv, DesksInv, AnswerMatchesQuestion
<1> QED BY <1>7, PagesInvariance, PTL

\* The badge of the header settles on what is unread, and a row of the notifications page
\* that looks read is: however groups, clicks, reloads and marks cross, on the pages as they
\* are put together.
THEOREM PagesBadgeSettles == Spec => []BadgeSettles
<1>1. PagesInv => BadgeSettles
  BY S!BellTruth, P!ReadTruth, SameBell, SameNotes, Zenon
     DEF PagesInv, VisitorInv, EventInv, BadgeSettles
<1> QED BY <1>1, PagesInvariance, PTL
=============================================================================
