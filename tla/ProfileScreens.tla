--------------------------- MODULE ProfileScreens ---------------------------
(***************************************************************************)
(* The account screens of apps/web/src/features (profile, seller-profile,  *)
(* settings, notifications), in the terms of ScreenForms.                  *)
(***************************************************************************)
EXTENDS SharedScreens, TLC

-----------------------------------------------------------------------------
(* SettingsPage, useTwoFactorSettings and TwoFactorDialog                  *)

TwoFactor_loadTwoFactorStatus ==
    Blanking(Loader(getTwoFactorStatus, {"isTwoFactorLoading"}))
\* A handler that has made its change reads the status again before it lowers
\* its flag; a failure of that reading is not told.
TwoFactor_reread == Ignored(getTwoFactorStatus)
\* Starting sends a code. The dialog is for disabling when the status that was
\* read says that two-factor sign-in is on.
TwoFactor_onTwoFactorAction ==
    Handler({"isTwoFactorMutationPending"},
            <<Call(startTwoFactorSetup, Fails, Fails),
              Halting(TwoFactor_reread, {MovingTo(Succeeds, "disable")})>>,
            MovingTo(Succeeds, "setup"))
TwoFactor_onConfirmDialog(service) ==
    Handler({"isTwoFactorMutationPending"}, <<Call(service, Fails, Fails), TwoFactor_reread>>,
            MovingTo(Succeeds, "page"))
TwoFactor_onCancelDialog == Local(MovingTo(Silent, "page"))
TwoFactorDialog(mode) == Stage({mode}, {"isTwoFactorMutationPending"})

\* The account is deleted before the user is signed out and leaves.
Settings_onDeleteAccount == <<Call(deleteUser, Fails, Silent), Ignored(logout)>>
Settings_handleConfirmDeleteAccount ==
    Handler({"isDeleteAccountPending"}, Settings_onDeleteAccount, Leaving(Succeeds))
DeleteAccountDialog == Dialog({"isDeleteAccountPending"})
SettingsPage ==
    Screen([status |-> TwoFactor_loadTwoFactorStatus],
           [twoFactor |-> At(Stage({"page"}, {"isTwoFactorLoading", "isTwoFactorMutationPending"}),
                             TwoFactor_onTwoFactorAction),
            setup |-> At(TwoFactorDialog("setup"),
                         TwoFactor_onConfirmDialog(confirmTwoFactorSetup)),
            disable |-> At(TwoFactorDialog("disable"),
                           TwoFactor_onConfirmDialog(disableTwoFactor)),
            cancel |-> At(Stage({"setup", "disable"}, {}), TwoFactor_onCancelDialog),
            deleteAccount |-> At(DeleteAccountDialog, Settings_handleConfirmDeleteAccount)])

-----------------------------------------------------------------------------
(* EditProfilePage. No flag is up while a profile is saved.                *)

ProfileSave == <<Ignored(Function(<<LookUp(resolveCityId), LookUp(resolveAreaId)>>)),
                 Call(updateUser, Fails, Fails)>>
EditProfile_handleSave ==
    Handler({}, <<Call(uploadAvatar, Fails, Fails)>> \o ProfileSave, Leaving(Succeeds))
EditProfile_handleCancel == Local(Leaving(Silent))
EditProfilePage ==
    Screen([cities |-> LocationOptions_cities, areas |-> LocationOptions_areas],
           [save |-> At(Page({}), EditProfile_handleSave),
            cancel |-> At(Page({}), EditProfile_handleCancel)])

-----------------------------------------------------------------------------
(* UnifiedProfilePage, the page of a seller and of one's own profile. All  *)
(* of it gives way to a spinner while the profile is loaded.               *)

\* The seller's profile and reviews or, without a profile, the user, who may
\* not be there, and the posts.
SellerProfile_user == Get([getUser.steps[1].on EXCEPT !["gone"] = "skip"])
SellerProfile_reload ==
    Blanking(Guarded(Following(Loader(Function(<<LookUp(getSellerProfile.steps[1]),
                                                 SellerProfile_user>>
                                                 \o getPostsByUserId.steps),
                                      {"isLoading"}), {})))
UnifiedProfile_reload(end) == Reloading(end, {"profile"})
UnifiedProfile_handleReviewSubmit ==
    Handler({"isSubmittingReview"}, <<Call(addReview, Fails, Fails)>>,
            UnifiedProfile_reload(Succeeds))
UnifiedProfile_handleDeletePost ==
    Handler({"isDeletingPost"}, PostActions_deletePost, UnifiedProfile_reload(Succeeds))
UnifiedProfile_handleUpdatePost ==
    Handler({"isSubmittingEdit"}, PostActions_updatePost({UnifiedProfile_reload(Partly)}),
            UnifiedProfile_reload(Succeeds))
UnifiedProfileTabs == Page({"isLoading", "isSubmittingReview"})
UnifiedProfilePage ==
    [report |-> At(Page({"isLoading", "isSubmittingReport"}), Report_handleSubmit),
     back |-> At(Page({}), Local(Leaving(Silent)))]

SellerProfilePage ==
    Screen([profile |-> SellerProfile_reload],
           UnifiedProfilePage
             @@ [review |-> At(UnifiedProfileTabs, UnifiedProfile_handleReviewSubmit)])
ProfilePage ==
    Screen([profile |-> SellerProfile_reload],
           UnifiedProfilePage
             @@ [delete |-> At(Page({"isLoading", "isDeletingPost"}),
                               UnifiedProfile_handleDeletePost),
                 edit |-> At(Page({"isLoading", "isSubmittingEdit"}),
                             UnifiedProfile_handleUpdatePost)])

-----------------------------------------------------------------------------
(* NotificationsPage and HeaderNotificationsDropdown. The query is whose   *)
(* notifications they are. What cannot be marked is not told.              *)

Notifications_fetchNotifications ==
    Blanking(Guarded(Following(Loader(getNotifications, {"isLoading"}), {})))
Notifications_markAsRead ==
    Scoped(Handler({}, <<Call(markAsRead, Silent, Silent)>>, Patching(Silent)))
Notifications_markAllAsRead ==
    Scoped(Handler({}, <<Unread(markAllAsRead, Silent)>>, Patching(Silent)))
NotificationsPage ==
    Screen([list |-> Notifications_fetchNotifications],
           [retry |-> At(Page({"isLoading"}), Local(Reloading(Silent, {"list"}))),
            read |-> At(Row(Page({"isLoading"}), {"list"}), Notifications_markAsRead),
            readAll |-> At(Row(Page({"isLoading"}), {"list"}), Notifications_markAllAsRead),
            back |-> At(Page({}), Local(Leaving(Silent)))])

\* The list is fetched when the menu is opened, and the badge recounted when
\* one has been marked.
HeaderNotifications_fetchNotifications == OnDemand(Notifications_fetchNotifications)
HeaderNotifications_handleMarkAsRead == Notifications_markAsRead
HeaderNotifications_handleMarkAllAsRead == Notifications_markAllAsRead
HeaderNotificationsDropdown ==
    Screen([list |-> HeaderNotifications_fetchNotifications],
           [open |-> At(Page({}), Local(Reloading(Silent, {"list"}))),
            read |-> At(Row(Page({"isLoading"}), {"list"}), HeaderNotifications_handleMarkAsRead),
            readAll |-> At(Row(Page({"isLoading"}), {"list"}),
                           HeaderNotifications_handleMarkAllAsRead)])
=============================================================================
