--------------------------- MODULE SharedScreens ---------------------------
(***************************************************************************)
(* The parts that several screens of apps/web share: the option lists of   *)
(* the forms, the report dialog, and the mutations of a post.              *)
(***************************************************************************)
EXTENDS ScreenForms

\* useLocationOptions: the cities are loaded once, the areas for the chosen
\* city; each effect drops an answer that arrives after its clean-up.
LocationOptions_cities == Blanking(Guarded(Loader(getCities, {"isLoadingCities"})))
LocationOptions_areas ==
    Blanking(Guarded(Following(OnDemand(Loader(getAreasByCity, {"isLoadingAreas"})), {})))

useCatalogCategories == Guarded(Loader(getCategories, {"isLoadingCategories"}))

-----------------------------------------------------------------------------
(* ReportPostDialog. Nothing catches an exception of its call.             *)

Report_handleSubmit ==
    Handler({"isSubmittingReport"}, <<Call(submitReport, Fails, Silent)>>, Succeeds)
ReportPostDialog == At(Dialog({"isSubmittingReport"}), Report_handleSubmit)

-----------------------------------------------------------------------------
(* usePostActions: the calls of a mutation of a post. The refresh of the   *)
(* feed that follows it is never reported. A mutation that was made may    *)
(* come with a message about its images, which the page shows as an error  *)
(* beside its success.                                                     *)

PostActions_refreshPostsAfterMutation == Ignored(getPostsFromFeed)
PostActions_createPost(message) ==
    <<Call(createPost, Fails, Fails),
      Halting(PostActions_refreshPostsAfterMutation, message)>>
\* The service may have no post to return for an update that was made.
PostActions_updatePost(message) ==
    <<Halting(Call(updatePost, Fails, Fails), {Fails}),
      Halting(PostActions_refreshPostsAfterMutation, message)>>
PostActions_updatePostStatus ==
    <<Call(updatePostStatus, Fails, Fails), PostActions_refreshPostsAfterMutation>>
PostActions_deletePost ==
    <<Call(deletePost, Fails, Fails), PostActions_refreshPostsAfterMutation>>
=============================================================================
