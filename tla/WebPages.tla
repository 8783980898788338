------------------------------ MODULE WebPages ------------------------------
(* The pages and dialogs of apps/web that load and save, each by what it    *)
(* does at the points in which they differ (module Pages says what the      *)
(* traits mean).  A trait that is not named is as in Loads or Edits.        *)

\* A page that loads once, for a selection that stands, and keeps its list
\* when a request fails.
Loads == [follows |-> FALSE, restores |-> FALSE, clears |-> FALSE, drops |-> FALSE,
          waits |-> FALSE, polls |-> FALSE, failed |-> "keeps"]
LoadsOrEmpties == [Loads EXCEPT !.failed = "empties"]
Follows == [Loads EXCEPT !.follows = TRUE]
FollowsBranch == [Follows EXCEPT !.restores = TRUE]
Searches == [Follows EXCEPT !.waits = TRUE, !.failed = "empties"]

\* A form or button of one request whose button rests while it is under way.
Edits(starts, names, then) ==
    [starts |-> starts, names |-> names, once |-> TRUE, then |-> then,
     gone |-> FALSE, parts |-> 1, partial |-> {}]
AddsTo(names, then) == Edits("blank", names, then)
Clicks(names, then) == Edits("click", names, then)
Restless(editor) == [editor EXCEPT !.once = FALSE]
InParts(editor, partial) == [editor EXCEPT !.parts = 2, !.partial = partial]
ReadOnly == Edits("none", "selection", "stays")

-----------------------------------------------------------------------------
\* Courts of the owner.
CourtsView == [FollowsBranch EXCEPT !.clears = TRUE, !.failed = "empties"]
CourtForm == Edits("mount", "item", "patches")
NewCourt == InParts(Edits("kept", "item", "appends"), {"partly", "saved"})
CourtImages == Restless(Clicks("item", "stays"))
DeleteCourt == Clicks("item", "patches")

\* Prices: of the branch and court selected last, whatever answer came last.
RulesView == [FollowsBranch EXCEPT !.failed = "empties"]
RuleForm == Edits("open", "scoped", "patches")
NewRule == AddsTo("selection", "appends")
DeleteRule == Clicks("scoped", "patches")
CopyPricing == AddsTo("selection", "reloads")

\* Recurring schedules of the branch.
SchedulesView == [FollowsBranch EXCEPT !.failed = "empties"]
PauseOrCancelSchedule == Clicks("scoped", "reloads")
NewSchedule == AddsTo("selection", "reloads")
ScheduleForm == Edits("open", "scoped", "reloads")
ScheduleView == [Follows EXCEPT !.clears = TRUE, !.failed = "empties"]
CancelSchedule == Clicks("scoped", "reloads")
CustomerSelector == Searches

\* Branches of the owner.
BranchesView == Loads
BranchForm == Edits("renews", "item", "reloads")
NewBranch == InParts(AddsTo("selection", "reloads"), {"failed", "saved"})
BranchLogo == AddsTo("item", "stays")
BranchImages == Restless(Clicks("item", "reloads"))
SetDefaultBranch == Clicks("item", "reloads")
DeleteBranch == Clicks("item", "reloads")

\* Staff accounts.
StaffView == Loads
StaffForm == [InParts(Edits("renews", "item", "reloads"), {"partly"}) EXCEPT !.gone = TRUE]
ResetPassword == AddsTo("item", "stays")
DeactivateStaff == Clicks("item", "reloads")

\* Customers of the owner.
CustomersView == FollowsBranch
AddCustomer == AddsTo("selection", "reloads")
CustomerView == [Follows EXCEPT !.clears = TRUE, !.failed = "empties"]

\* The tabs of the settings, and the customer's profile.
SettingsView == [FollowsBranch EXCEPT !.clears = TRUE, !.failed = "empties"]
HoursView == SettingsView
VenueInfo == Edits("answer", "selection", "stays")
VenueLogo == AddsTo("selection", "stays")
OperatingHours == Edits("answer", "selection", "patches")
NotificationsView == LoadsOrEmpties
Notifications == Restless(Clicks("selection", "guessed"))
AccountView == Loads
Account == InParts(Edits("answer", "selection", "stays"), {"failed"})
ProfileView == Loads
Profile == Edits("answer", "selection", "stays")

\* The bookings of the day, of a branch and a date.  A new branch clears the
\* courts and the bookings, a new date neither; the courts drop an answer that is
\* overtaken, the bookings do not.  The court of a quick booking is one of the
\* courts shown, its hour and length are read from the bookings shown.
DayCourtsView == [FollowsBranch EXCEPT !.clears = TRUE, !.drops = TRUE, !.failed = "empties"]
DayOfBranchView == [FollowsBranch EXCEPT !.clears = TRUE, !.polls = TRUE, !.failed = "empties"]
DayOfDateView == [Follows EXCEPT !.polls = TRUE, !.failed = "empties"]
QuickBookCourt == Edits("cell", "scoped", "stays")
QuickBookHour == Edits("cell", "selection", "reloads")
BookingOfBranch == Restless(Clicks("scoped", "patches"))
BookingOfDate == Restless(Clicks("item", "patches"))

\* The customer's own bookings.
HistoryView == [Loads EXCEPT !.failed = "breaks"]
CancelBooking == Restless(Clicks("item", "patches"))

\* Reports and the pages of the admin.
RevenueView == FollowsBranch
PageViewsView == FollowsBranch
DashboardView == [FollowsBranch EXCEPT !.failed = "breaks"]
StatsView == [Loads EXCEPT !.failed = "breaks"]
ApprovalsView == LoadsOrEmpties
DisputesView == LoadsOrEmpties
Approve == Restless(Clicks("item", "reloads"))
ResolveDispute == Restless(Clicks("item", "reloads"))

\* Pages for everyone.
HomeView == LoadsOrEmpties
VenuesView == Searches
MapView == Searches
BlogView == Searches
ArticleView == Follows
VenueView == Follows
AvailabilityView == LoadsOrEmpties
WardsView == [Follows EXCEPT !.clears = TRUE, !.failed = "empties"]

\* Forms that are sent once and lead to another page, or stay as they are.
Login == AddsTo("selection", "stays")
Register == AddsTo("selection", "stays")
RegisterOwner == AddsTo("selection", "stays")
ForgotPassword == AddsTo("selection", "stays")
ResetByLink == AddsTo("selection", "stays")
SupportMessage == AddsTo("selection", "stays")
PartnerApplication == AddsTo("selection", "stays")

-----------------------------------------------------------------------------
Screen(views, editors) == {[view |-> v, editor |-> e] : v \in views, e \in editors}

OwnerScreens ==
    Screen({CourtsView}, {CourtForm, NewCourt, CourtImages, DeleteCourt})
    \cup Screen({RulesView}, {RuleForm, NewRule, DeleteRule, CopyPricing})
    \cup Screen({SchedulesView}, {PauseOrCancelSchedule, NewSchedule, ScheduleForm})
    \cup Screen({ScheduleView}, {CancelSchedule})
    \cup Screen({BranchesView}, {BranchForm, NewBranch, BranchLogo, BranchImages,
                                 SetDefaultBranch, DeleteBranch})
    \cup Screen({StaffView}, {StaffForm, ResetPassword, DeactivateStaff})
    \cup Screen({CustomersView}, {AddCustomer})
    \cup Screen({DayCourtsView}, {QuickBookCourt})
    \cup Screen({DayOfBranchView}, {BookingOfBranch})
    \cup Screen({DayOfDateView}, {QuickBookHour, BookingOfDate})

SettingsScreens ==
    Screen({SettingsView}, {VenueInfo, VenueLogo})
    \cup Screen({HoursView}, {OperatingHours})
    \cup Screen({NotificationsView}, {Notifications})
    \cup Screen({AccountView}, {Account})
    \cup Screen({ProfileView}, {Profile})

OtherScreens ==
    Screen({HistoryView}, {CancelBooking})
    \cup Screen({ApprovalsView}, {Approve})
    \cup Screen({DisputesView}, {ResolveDispute})
    \cup Screen({CustomerSelector, CustomerView, RevenueView, PageViewsView,
                 DashboardView, StatsView, HomeView, VenuesView, MapView, BlogView,
                 ArticleView, VenueView, AvailabilityView, WardsView}, {ReadOnly})
    \cup Screen({Loads}, {Login, Register, RegisterOwner, ForgotPassword, ResetByLink,
                          SupportMessage, PartnerApplication})

AllScreens == OwnerScreens \cup SettingsScreens \cup OtherScreens
=============================================================================
