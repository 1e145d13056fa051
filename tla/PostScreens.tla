---------------------------- MODULE PostScreens ----------------------------
(***************************************************************************)
(* The screens on which a post is shown, written and discussed             *)
(* (apps/web/src/features/post-details and the dialogs of marketplace), in *)
(* the terms of ScreenForms. The parts of the details page keep no state   *)
(* in common but the post they are about: each is a screen of its own.     *)
(***************************************************************************)
EXTENDS SharedScreens

-----------------------------------------------------------------------------
(* The form of CreatePostDialog and EditPostDialog. Each image that is     *)
(* chosen is validated by the server on its own; the form is not submitted *)
(* while one is being validated, unless the user takes the image away.     *)

validatePostImage == Function(<<Get(Reading(Replied, "no"))>>)
PostForm_validateImageAsync(image) ==
    Marking(Handler({}, <<Call(validatePostImage, Fails, Fails)>>, Silent), image, {})
PostForm_removeImage(image) == Local(Stopping(Silent, image))
PostForm_images == {"isValidatingFirst", "isValidatingSecond"}
PostForm_handleImageUpload(image) == At(Dialog({image}), PostForm_validateImageAsync(image))
PostForm_submit == Row(Dialog({"isSubmitting"} \cup PostForm_images), {"areas"})
PostForm_options ==
    [categories |-> useCatalogCategories, cities |-> LocationOptions_cities,
     areas |-> LocationOptions_areas]
PostForm(submit) ==
    [first |-> PostForm_handleImageUpload("isValidatingFirst"),
     second |-> PostForm_handleImageUpload("isValidatingSecond"),
     removeFirst |-> At(Dialog({}), PostForm_removeImage("isValidatingFirst")),
     submit |-> At(PostForm_submit, submit)]

CreatePost_handleSubmit ==
    Handler({"isSubmitting"}, PostActions_createPost({Leaving(Partly)}), Leaving(Succeeds))
CreatePostDialog == Screen(PostForm_options, PostForm(CreatePost_handleSubmit))

EditPost_handleSubmit ==
    Handler({"isSubmitting"}, PostActions_updatePost({Leaving(Partly)}), Leaving(Succeeds))
EditPostDialog == Screen(PostForm_options, PostForm(EditPost_handleSubmit))

-----------------------------------------------------------------------------
(* PostDetailsRouteWrapper and PostDetailsPage                             *)

PostDetails_routePost ==
    Blanking(Guarded(Following(Loader(getPostById, {"isLoadingRoutePost"}), {})))
PostDetails_retryRoutePost == Local(Reloading(Silent, {"routePost"}))
PostDetails_trackView == Guarded(Following(Loader(trackPostView, {}), {}))
PostDetails_onUpdatePost ==
    Handler({"isSubmittingEdit"}, PostActions_updatePost({Patching(Partly)}), Patching(Succeeds))
PostDetails_onUpdatePostStatus ==
    Handler({"isSubmittingRemoval"}, PostActions_updatePostStatus, Patching(Succeeds))
PostDetails_onDeletePost ==
    Handler({"isSubmittingRemoval"}, PostActions_deletePost, Leaving(Succeeds))
PostActionDialogs(unless) == Row(Dialog(unless), {"routePost"})
PostDetailsPage ==
    Screen([routePost |-> PostDetails_routePost, views |-> PostDetails_trackView],
           [retry |-> At(Page({"isLoadingRoutePost"}), PostDetails_retryRoutePost),
            edit |-> At(PostActionDialogs({"isSubmittingEdit"}), PostDetails_onUpdatePost),
            sold |-> At(PostActionDialogs({"isSubmittingRemoval"}),
                        PostDetails_onUpdatePostStatus),
            delete |-> At(PostActionDialogs({"isSubmittingRemoval"}), PostDetails_onDeletePost),
            report |-> ReportPostDialog,
            back |-> At(Page({}), Local(Leaving(Silent)))])

\* The seller of the post: what is read from the user is dropped once another
\* seller's post is shown, what is read from the seller's profile is not.
PostSeller_user == Guarded(Following(Loader(getUser, {"isSellerLoading"}), {}))
PostSeller_rating == Guarded(Following(Loader(getSellerRating, {}), {}))
PostSeller_profile == Following(Loader(getSellerProfile, {}), {})
PostSellerSidebar ==
    Screen([user |-> PostSeller_user, rating |-> PostSeller_rating,
            profile |-> PostSeller_profile], << >>)

\* The queries are kept by the seller's id: those of another are not shown.
SimilarItems_feed == Loader(getPostsFromFeed, {})
SimilarItems_sellerPosts == Guarded(Following(Loader(getPostsByUserId, {}), {}))
SimilarItemsSection ==
    Screen([feed |-> SimilarItems_feed, sellerPosts |-> SimilarItems_sellerPosts],
           [open |-> At(Page({}), Local(Leaving(Silent)))])

-----------------------------------------------------------------------------
(* PostCommentsSection and CommentItem. Every answer is dropped that       *)
(* arrives when another post is shown.                                     *)

Comments_fetch == Guarded(Following(Loader(getComments, {"loading"}), {}))
Comments_handleAddComment ==
    Scoped(Handler({"submitting"}, <<Call(addComment, Fails, Fails)>>, Patching(Succeeds)))
Comments_handleDeleteComment ==
    Scoped(Handler({}, <<Call(deleteComment, Fails, Fails)>>, Patching(Succeeds)))
Comments_handleUpdateComment ==
    Scoped(Handler({}, <<Call(updateComment, Fails, Fails)>>, Patching(Succeeds)))
Comments_loadMore ==
    Scoped(Handler({"loadingMore"}, <<Call(getComments, Fails, Fails)>>, Patching(Silent)))
\* A failure that the service returns is not told: the replies look empty.
CommentItem_handleToggleReplies ==
    Scoped(Marking(Handler({}, <<Call(getReplies, Silent, Fails)>>, Patching(Silent)),
                   "loadingReplies", {}))
\* Nor is the failure of a reply: the form keeps its text.
CommentItem_handleReplySubmit ==
    Scoped(Handler({"submittingReply"}, <<Call(addComment, Silent, Fails)>>, Patching(Succeeds)))
CommentItem(unless) == Row(Page(unless), {"comments"})
PostCommentsSection ==
    Screen([comments |-> Comments_fetch],
           [add |-> At(Page({"submitting"}), Comments_handleAddComment),
            more |-> At(CommentItem({"loadingMore"}), Comments_loadMore),
            delete |-> At(CommentItem({}), Comments_handleDeleteComment),
            update |-> At(CommentItem({}), Comments_handleUpdateComment),
            replies |-> At(CommentItem({}), CommentItem_handleToggleReplies),
            reply |-> At(CommentItem({"submittingReply"}), CommentItem_handleReplySubmit),
            report |-> ReportPostDialog])

-----------------------------------------------------------------------------
(* PostLocationMapCard. Google Maps answers or throws.                     *)

loadGoogleMapsApi == Get(Reading({"full"}, "throw"))
geocodeDestination == Get(Reading({"full"}, "throw"))
calculateDrivingRouteMetrics == Get(Reading({"full"}, "throw"))
getBrowserLocation == Function(<<Get(Reading({"full"}, "throw"))>>)

MapCard_map ==
    Blanking(Guarded(Following(Loader(Function(<<loadGoogleMapsApi, geocodeDestination>>),
                                      {"mapStatus"}), {})))
\* A request number drops the answers for an earlier destination.
MapCard_calculateRouteFromLocation ==
    Call(Function(<<loadGoogleMapsApi, geocodeDestination, calculateDrivingRouteMetrics>>),
         Fails, Fails)
MapCard_cachedLocation ==
    Scoped(Handler({"routeStatus"}, <<MapCard_calculateRouteFromLocation>>, Patching(Silent)))
MapCard_handleUseLocation ==
    Scoped(Handler({"routeStatus"}, <<Call(getBrowserLocation, Fails, Fails),
                                      MapCard_calculateRouteFromLocation>>, Patching(Silent)))
PostLocationMapCard ==
    Screen([map |-> MapCard_map],
           [cached |-> At(Page({"routeStatus"}), MapCard_cachedLocation),
            use |-> At(Page({"routeStatus"}), MapCard_handleUseLocation)])
============================================================================
