----------------------------- MODULE AllScreens -----------------------------
(* The screens of apps/web that the tables describe, by name.              *)
EXTENDS AdminScreens, AuthScreens, ChatScreens, PostScreens, ProfileScreens,
        MarketScreens

AllPages ==
    [UsersManagement |-> UsersManagement, UserDetailAdminPage |-> UserDetailAdminPage,
     ReportsQueue |-> ReportsQueue, ListingsManagement |-> ListingsManagement,
     RolesManagement |-> RolesManagement, PermissionsDialog |-> PermissionsDialog,
     LocationsManagement |-> LocationsManagement,
     AdminBannersManagement |-> AdminBannersManagement,
     CategoriesManagement |-> CategoriesManagement,
     PostCommentsModeration |-> PostCommentsModeration,
     ReviewsModeration |-> ReviewsModeration, AuditLogViewer |-> AuditLogViewer,
     SystemSettingsPanel |-> SystemSettingsPanel, AdminDashboard |-> AdminDashboard,
     AdminLayout |-> AdminLayout, LoginPage |-> LoginPage,
     ForgotPasswordPage |-> ForgotPasswordPage, CompleteProfilePage |-> CompleteProfilePage,
     VerifyEmailPage |-> VerifyEmailPage, ChatPage |-> ChatPage, ChatWindow |-> ChatWindow,
     CreatePostDialog |-> CreatePostDialog, EditPostDialog |-> EditPostDialog,
     PostDetailsPage |-> PostDetailsPage, PostSellerSidebar |-> PostSellerSidebar,
     SimilarItemsSection |-> SimilarItemsSection, PostCommentsSection |-> PostCommentsSection,
     PostLocationMapCard |-> PostLocationMapCard, SettingsPage |-> SettingsPage,
     EditProfilePage |-> EditProfilePage, SellerProfilePage |-> SellerProfilePage,
     ProfilePage |-> ProfilePage, NotificationsPage |-> NotificationsPage,
     HeaderNotificationsDropdown |-> HeaderNotificationsDropdown,
     AllPostsPage |-> AllPostsPage, SearchResultsPage |-> SearchResultsPage,
     CategoryPage |-> CategoryPage, FavoritesPage |-> FavoritesPage, HomePage |-> HomePage,
     ComparePage |-> ComparePage, AppContent |-> AppContent]
=============================================================================
