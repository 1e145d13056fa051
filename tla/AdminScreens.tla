---------------------------- MODULE AdminScreens ----------------------------
(***************************************************************************)
(* The screens of the administration (apps/web/src/features/admin), in the *)
(* terms of ScreenForms. A definition Screen_name is the function `name'   *)
(* of the component Screen; a definition with the name of a component says *)
(* where that component offers its controls.                               *)
(***************************************************************************)
EXTENDS ScreenForms

-----------------------------------------------------------------------------
(* UsersManagement                                                         *)

Users_fetchUsers == Loader(getAllUsers, {})
Users_fetchRoles == Loader(getRoles, {})
Users_verifyUserExists == Call(exists, Dropping(Fails), Fails)

Users_handleCreateUser ==
    Handler({"isCreatingUser"}, <<Call(createUser, Fails, Fails)>>,
            Reloading(Succeeds, {"fetchUsers", "fetchRoles"}))
Users_handleSuspendUser ==
    Handler({"isSuspending"}, <<Call(suspendUser, Fails, Fails)>>,
            Reloading(Succeeds, {"fetchUsers"}))
Users_handleBulkSuspend ==
    Bulk({"isSuspending"}, suspendUser, Reloading(Succeeds, {"fetchUsers"}),
         Reloading(Partly, {"fetchUsers"}), Fails)
Users_handleStatusChange ==
    Handler({}, <<Users_verifyUserExists, Call(updateUserStatus, Fails, Fails)>>,
            Patching(Succeeds))
Users_handleRoleChange ==
    Handler({}, <<Users_verifyUserExists, Call(updateUserRole, Fails, Fails)>>,
            Patching(Succeeds))
Users_handleDeleteUser ==
    Handler({}, <<Users_verifyUserExists, Call(deleteUser, Fails, Fails)>>,
            Patching(Succeeds))
Users_handleBulkAction ==
    Handler({}, <<Call(bulkUpdateUserStatus, Fails, Fails)>>, Patching(Succeeds))

UsersTable == Row(Page({}), {"fetchUsers"})
BulkUserActionsBar == UsersTable
CreateUserDialog == Row(Dialog({"isCreatingUser"}), {"fetchRoles"})
SuspendUserDialog == Row(Dialog({"isSuspending"}), {"fetchUsers"})
UsersManagementDialogs ==
    [create |-> At(CreateUserDialog, Users_handleCreateUser),
     delete |-> At(UsersTable, Users_handleDeleteUser),
     suspend |-> At(SuspendUserDialog, Users_handleSuspendUser)]

UsersManagement ==
    Screen([fetchUsers |-> Users_fetchUsers, fetchRoles |-> Users_fetchRoles],
           [create |-> UsersManagementDialogs.create,
            delete |-> UsersManagementDialogs.delete,
            suspend |-> UsersManagementDialogs.suspend,
            status |-> At(UsersTable, Users_handleStatusChange),
            role |-> At(UsersTable, Users_handleRoleChange),
            bulkSuspend |-> At(SuspendUserDialog, Users_handleBulkSuspend),
            bulkStatus |-> At(BulkUserActionsBar, Users_handleBulkAction)])

-----------------------------------------------------------------------------
(* UserDetailAdminPage. The page is replaced while it loads.               *)

UserDetail_fetchDetails == Following(Loader(getUserDetails, {"isLoading"}), {})
UserDetail_handleStatusChange ==
    Handler({}, <<Call(updateUserStatus, Fails, Fails)>>, Reloading(Succeeds, {"fetchDetails"}))
UserDetail_handleSuspendUser ==
    Handler({"isSuspending"}, <<Call(suspendUser, Fails, Fails)>>,
            Reloading(Succeeds, {"fetchDetails"}))
UserDetail_page(unless) == Row(Page({"isLoading"} \cup unless), {"fetchDetails"})
UserDetailAdminPage ==
    Screen([fetchDetails |-> UserDetail_fetchDetails],
           [status |-> At(UserDetail_page({}), UserDetail_handleStatusChange),
            suspend |-> At(UserDetail_page({"isSuspending"}), UserDetail_handleSuspendUser)])

-----------------------------------------------------------------------------
(* ReportsQueue. A report is resolved by an action on its target and then  *)
(* by a change of its own status; the second may fail alone.               *)

\* Answers of an older search or filter are not told from newer ones.
Reports_fetchReports == Following(Loader(getReports, {"isLoading"}), {})

getReportActionFailureOutcome(primaryActionSucceeded) ==
    IF primaryActionSucceeded THEN Reloading(Fails, {"fetchReports"}) ELSE Fails
Reports_handleReportActionFailure(primary) == getReportActionFailureOutcome(primary)

Reports_handle(busy, primary) ==
    LET unresolved(done) == Reports_handleReportActionFailure(done)
    IN  Handler(busy,
                <<Call(primary, unresolved(FALSE), unresolved(FALSE)),
                  Call(updateReportStatus, unresolved(TRUE), unresolved(TRUE))>>,
                Reloading(Succeeds, {"fetchReports"}))
Reports_handleUpdateStatus ==
    Handler({}, <<Call(updateReportStatus, Fails, Fails)>>,
            Reloading(Succeeds, {"fetchReports"}))
Reports_handleBlockUser == Reports_handle({"isSuspending"}, suspendUser)
Reports_handleBlockPost == Reports_handle({"isBlockingPost"}, adminUpdatePostStatus)
Reports_handleDeleteComment == Reports_handle({"isDeletingComment"}, deletePostComment)

Reports_rows(unless) == Row(Dialog(unless), {"fetchReports"})
ReportActionDialog_suspend == Reports_rows({"isSuspending"})
ReportActionDialog_blockPost == Reports_rows({"isBlockingPost"})
ReportActionDialog_deleteComment == Reports_rows({"isDeletingComment"})
ReportActionDialog_save == Reports_rows({})

ReportsQueue ==
    Screen([fetchReports |-> Reports_fetchReports],
           [save |-> At(ReportActionDialog_save, Reports_handleUpdateStatus),
            suspend |-> At(ReportActionDialog_suspend, Reports_handleBlockUser),
            blockPost |-> At(ReportActionDialog_blockPost, Reports_handleBlockPost),
            deleteComment |-> At(ReportActionDialog_deleteComment, Reports_handleDeleteComment)])

-----------------------------------------------------------------------------
(* ListingsManagement                                                      *)

Listings_fetchPosts == Blanking(Following(Loader(getPosts, {"isLoading"}), {}))
Listings_handleUpdateStatus ==
    Handler({}, <<Call(adminUpdatePostStatus, Fails, Fails)>>,
            Reloading(Succeeds, {"fetchPosts"}))
Listings_handleDeletePost ==
    Handler({}, <<Call(softDeletePost, Fails, Fails)>>, Reloading(Succeeds, {"fetchPosts"}))
Listings_handleBulkBlock ==
    Bulk({"isBulkUpdating"}, adminUpdatePostStatus, Reloading(Succeeds, {"fetchPosts"}),
         Reloading(Partly, {"fetchPosts"}), Reloading(Fails, {"fetchPosts"}))

\* The rows are hidden while they are loaded, the dialogs they open are not.
Listings_confirmDialogs == Row(Dialog({}), {"fetchPosts"})
Listings_bulkBar == Row(Page({"isBulkUpdating"}), {"fetchPosts"})
\* Its buttons close the details and ask for a confirmation.
ListingDetailModal == At(Listings_confirmDialogs, Local(Silent))

ListingsManagement ==
    Screen([fetchPosts |-> Listings_fetchPosts],
           [status |-> At(Listings_confirmDialogs, Listings_handleUpdateStatus),
            delete |-> At(Listings_confirmDialogs, Listings_handleDeletePost),
            bulkBlock |-> At(Listings_bulkBar, Listings_handleBulkBlock),
            details |-> ListingDetailModal])

-----------------------------------------------------------------------------
(* RolesManagement and its PermissionsDialog                               *)

\* A failed read looks like a system without roles.
Roles_fetchRoles == Loader(getRoles, {})
\* A failed check looks like a role that is gone: its row is dropped.
Roles_ensureRoleExists == Call(roleExists, Dropping(Fails), Dropping(Fails))
Roles_handleSave_edit ==
    Handler({"isSaving"}, <<Roles_ensureRoleExists, Call(updateRole, Fails, Fails)>>,
            Patching(Succeeds))
Roles_handleSave_create ==
    Handler({"isSaving"}, <<Call(createRole, Fails, Fails)>>, Patching(Succeeds))
Roles_openEdit == Handler({}, <<Roles_ensureRoleExists, Ignored(getRole)>>, Silent)
Roles_deleteRole ==
    Handler({}, <<Roles_ensureRoleExists, Call(deleteRole, Fails, Fails)>>, Patching(Succeeds))

Roles_addDialog == Dialog({"isSaving"})
Roles_editDialog == Row(Dialog({"isSaving"}), {"fetchRoles"})
Roles_table == Row(Page({}), {"fetchRoles"})
RolesManagement ==
    Screen([fetchRoles |-> Roles_fetchRoles],
           [create |-> At(Roles_addDialog, Roles_handleSave_create),
            update |-> At(Roles_editDialog, Roles_handleSave_edit),
            edit |-> At(Roles_table, Roles_openEdit),
            delete |-> At(Roles_table, Roles_deleteRole)])

\* Every failed load is followed by another at once: the effect depends on
\* the function, and the function on isLoading.
Permissions_loadPermissions ==
    Retrying(Loader(Both(getPermissions, getRolePermissions), {"isLoading"}))
\* What updateRolePermissions returns is not read: only a throw is a failure.
Permissions_handleSave ==
    Handler({"isSaving"}, <<Unread(updateRolePermissions, Fails)>>, Leaving(Succeeds))
PermissionsDialog ==
    Screen([loadPermissions |-> Permissions_loadPermissions],
           [save |-> At(Row(Dialog({"isSaving", "isLoading"}), {"loadPermissions"}),
                        Permissions_handleSave)])

-----------------------------------------------------------------------------
(* LocationsManagement: the page is replaced while it loads.               *)

Locations_fetchCities == Loader(adminGetCities, {"isLoading"})
Locations_handleSave(service) ==
    Handler({}, <<Call(service, Fails, Fails)>>, Reloading(Succeeds, {"fetchCities"}))
Locations_handleDeleteCity ==
    Handler({}, <<Call(deleteCity, Fails, Fails)>>, Reloading(Succeeds, {"fetchCities"}))
Locations_handleDeleteArea ==
    Handler({}, <<Call(deleteArea, Fails, Fails)>>, Reloading(Succeeds, {"fetchCities"}))
Locations_nameDialog == Dialog({"isLoading"})
Locations_rows == Row(Page({"isLoading"}), {"fetchCities"})
LocationsManagement ==
    Screen([fetchCities |-> Locations_fetchCities],
           [addCity |-> At(Locations_nameDialog, Locations_handleSave(createCity)),
            editCity |-> At(Locations_rows, Locations_handleSave(updateCity)),
            addArea |-> At(Locations_rows, Locations_handleSave(createArea)),
            editArea |-> At(Locations_rows, Locations_handleSave(updateArea)),
            deleteCity |-> At(Locations_rows, Locations_handleDeleteCity),
            deleteArea |-> At(Locations_rows, Locations_handleDeleteArea)])

-----------------------------------------------------------------------------
(* AdminBannersManagement: the page is replaced while it loads.            *)

Banners_loadBanners == Loader(getBanners, {"isLoading"})
Banners_uploadBannerImage ==
    Handler({"isUploadingImage"}, <<Call(uploadBannerImage, Fails, Fails)>>, Succeeds)
Banners_toggleActive ==
    Handler({}, <<Call(toggleBannerActive, Fails, Fails)>>, Reloading(Succeeds, {"loadBanners"}))
Banners_removeBanner ==
    Handler({}, <<Call(deleteBanner, Fails, Fails)>>, Reloading(Succeeds, {"loadBanners"}))
Banners_saveBanner(service) ==
    Handler({}, <<Call(service, Fails, Fails)>>, Reloading(Succeeds, {"loadBanners"}))
\* Every banner is written in its new place, whatever became of the others.
Banners_handleDragEnd ==
    Bulk({}, updateBanner, Reloading(Succeeds, {"loadBanners"}),
         Reloading(Fails, {"loadBanners"}), Reloading(Fails, {"loadBanners"}))
BannerForm_upload == Page({"isLoading", "isUploadingImage"})
BannerForm_save == Page({"isLoading", "isUploadingImage"})
BannerListItem == Row(Page({"isLoading"}), {"loadBanners"})
AdminBannersManagement ==
    Screen([loadBanners |-> Banners_loadBanners],
           [upload |-> At(BannerForm_upload, Banners_uploadBannerImage),
            create |-> At(BannerForm_save, Banners_saveBanner(createBanner)),
            update |-> At(BannerForm_save, Banners_saveBanner(updateBanner)),
            toggle |-> At(BannerListItem, Banners_toggleActive),
            remove |-> At(BannerListItem, Banners_removeBanner),
            drag |-> At(BannerListItem, Banners_handleDragEnd)])

-----------------------------------------------------------------------------
(* CategoriesManagement                                                    *)

Categories_fetchCategories == Loader(getCategories, {})
\* A failed check looks like a category that is gone: its row is dropped.
Categories_ensureCategoryExists == Call(categoryExists, Dropping(Fails), Dropping(Fails))
Categories_handleSave_edit ==
    Handler({}, <<Categories_ensureCategoryExists, Call(updateCategory, Fails, Fails)>>,
            Patching(Succeeds))
Categories_handleSave_create ==
    Handler({}, <<Call(createCategory, Fails, Fails)>>, Patching(Succeeds))
Categories_openEdit ==
    Handler({}, <<Categories_ensureCategoryExists, Ignored(getCategory)>>, Silent)
Categories_deleteCategory ==
    Handler({}, <<Categories_ensureCategoryExists, Call(deleteCategory, Fails, Fails)>>,
            Patching(Succeeds))
CategoryFormFields_handleFileUpload ==
    Handler({"isUploading"}, <<Call(uploadCategoryImage, Fails, Fails)>>, Succeeds)
CategoryFormFields == Dialog({"isUploading"})
CategoryDialog == Dialog({})
CategoriesTable == Row(Page({}), {"fetchCategories"})
CategoriesManagement ==
    Screen([fetchCategories |-> Categories_fetchCategories],
           [create |-> At(CategoryDialog, Categories_handleSave_create),
            update |-> At(CategoriesTable, Categories_handleSave_edit),
            edit |-> At(CategoriesTable, Categories_openEdit),
            delete |-> At(CategoriesTable, Categories_deleteCategory),
            upload |-> At(CategoryFormFields, CategoryFormFields_handleFileUpload)])

-----------------------------------------------------------------------------
(* PostCommentsModeration, ReviewsModeration, AuditLogViewer: one page of  *)
(* rows at a time, blanked by a failed load.                               *)

Comments_fetchComments == Blanking(Following(Loader(getPostComments, {"isLoading"}), {}))
Comments_handleDelete ==
    Handler({}, <<Call(deletePostComment, Fails, Fails)>>, Reloading(Succeeds, {"fetchComments"}))
Comments_table == Row(Page({}), {"fetchComments"})
PostCommentsModeration ==
    Screen([fetchComments |-> Comments_fetchComments],
           [delete |-> At(Comments_table, Comments_handleDelete)])

\* The buttons that turn the page are disabled while a page is loading, but
\* not while a deletion is, which loads the page it was started from.
Reviews_fetchReviews ==
    Blanking(Following(Loader(getReviews, {"isLoading"}), {"isLoading"}))
Reviews_handleDelete ==
    Handler({}, <<Call(deleteReview, Fails, Fails)>>, Reloading(Succeeds, {"fetchReviews"}))
Reviews_table == Row(Page({}), {"fetchReviews"})
ReviewsModeration ==
    Screen([fetchReviews |-> Reviews_fetchReviews],
           [delete |-> At(Reviews_table, Reviews_handleDelete)])

\* The choice of a table is not disabled while a page is loading.
AuditLog_fetchLogs == Blanking(Following(Loader(getAuditLogs, {"isLoading"}), {}))
AuditLog_rows == At(Row(Page({"isLoading"}), {"fetchLogs"}), Local(Silent))
AuditLogViewer == Screen([fetchLogs |-> AuditLog_fetchLogs], [expand |-> AuditLog_rows])

-----------------------------------------------------------------------------
(* SystemSettingsPanel: savingKey is the one setting that is being saved.  *)

Settings_fetchSettings == Loader(getSettings, {"isLoading"})
Settings_handleSave(own, other) ==
    Marking(Handler({}, <<Call(updateSetting, Fails, Fails)>>,
                    Reloading(Succeeds, {"fetchSettings"})), own, {other})
Settings_row(own) == Row(Page({"isLoading", own}), {"fetchSettings"})
SystemSettingsPanel ==
    Screen([fetchSettings |-> Settings_fetchSettings],
           [saveA |-> At(Settings_row("savingA"), Settings_handleSave("savingA", "savingB")),
            saveB |-> At(Settings_row("savingB"), Settings_handleSave("savingB", "savingA"))])

-----------------------------------------------------------------------------
(* AdminDashboard and AdminLayout with its search and its bell             *)

Dashboard_fetchStats == Loader(Both(getStats, getAnalytics), {"isLoading"})
AdminDashboard == Screen([fetchStats |-> Dashboard_fetchStats], << >>)

\* The timer of an unfinished word is cleared, the request it sent is not.
adminSearch == Function(<<Get(Reading(asRecord, "no"))>>)
GlobalSearch_search == OnDemand(Following(Loader(adminSearch, {"searchLoading"}), {}))
\* The counts are read on a timer, when the list opens and when the tab is seen.
Bell_fetchNotifications == Polling(Loader(getStats, {}))
Bell_dismissAll == Local(Patching(Silent))
AdminNotificationsBell == At(Row(Page({}), {"fetchNotifications"}), Bell_dismissAll)
AdminLayout_expireSession == Handler({}, <<Ignored(logout)>>, Leaving(Silent))
AdminLayout_handleLogout == Handler({}, <<Ignored(logout)>>, Leaving(Silent))
AdminLayout ==
    Screen([search |-> GlobalSearch_search, fetchNotifications |-> Bell_fetchNotifications],
           [dismissAll |-> AdminNotificationsBell,
            logout |-> At(Page({}), AdminLayout_handleLogout),
            expire |-> At(Page({}), AdminLayout_expireSession)])
============================================================================
