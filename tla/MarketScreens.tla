--------------------------- MODULE MarketScreens ---------------------------
(***************************************************************************)
(* The screens on which posts are found and compared (features/home and    *)
(* features/marketplace of apps/web/src), and the frame of the app, in the *)
(* terms of ScreenForms.                                                   *)
(***************************************************************************)
EXTENDS SharedScreens, TLC

-----------------------------------------------------------------------------
(* A card of a post. The phone number is asked for when it is wanted.      *)

PostCardList_handleCallClick ==
    Handler({"isResolvingPhone"}, <<Call(getSellerProfile, Fails, Fails)>>, Silent)
PostCardList == Page({"isResolvingPhone"})
PostCard_openPost == Local(Leaving(Silent))
PostResultsGrid(loader) ==
    [call |-> At(Row(PostCardList, {loader}), PostCardList_handleCallClick),
     open |-> At(Row(Page({}), {loader}), PostCard_openPost)]

-----------------------------------------------------------------------------
(* The pages of results. The query, which the URL holds, is the key of the *)
(* request: an answer for another one is kept but not shown. When a        *)
(* request fails the posts that the feed has are shown in its place.       *)

runSearchPipeline == search
useMarketplaceSearchResults ==
    Blanking(Guarded(Following(Loader(runSearchPipeline, {"isSearching"}), {})))
Results_refetch == Local(Reloading(Silent, {"results"}))
ResultsPage ==
    Screen([results |-> useMarketplaceSearchResults],
           PostResultsGrid("results")
             @@ [retry |-> At(Page({"isSearching"}), Results_refetch),
                 back |-> At(Page({}), Local(Leaving(Silent)))])

\* The user changes a filter or the text; a page that the results no longer
\* have is left by an effect of the page.
AllPostsPage == ResultsPage
SearchResultsPage == ResultsPage
CategoryPage == [ResultsPage EXCEPT !.loaders = @ @@ [categories |-> useCatalogCategories]]

\* The favorites that the feed does not have, each asked for by itself.
Favorites_missingPosts ==
    Guarded(Following(Loader(getPostById, {"isLoadingMissingFavoritePosts"}), {}))
FavoritesPage ==
    Screen([missing |-> Favorites_missingPosts],
           PostResultsGrid("missing") @@ [back |-> At(Page({}), Local(Leaving(Silent)))])

-----------------------------------------------------------------------------
(* HomePage                                                                *)

usePosts_feed == Loader(getPostsFromFeed, {"isLoadingPosts"})
usePosts_search == OnDemand(useMarketplaceSearchResults)
Hero_refreshBanners == Guarded(Loader(getActiveBanners, {}))
\* A slide stays for half a second.
Hero_goToSlide == Local(Cooling(Silent, "isTransitioning"))
Home_fetchPostsFromBackend == <<Ignored(getPostsFromFeed), Ignored(runSearchPipeline)>>
Home_handleRetry == Handler({"isRetrying"}, Home_fetchPostsFromBackend, Patching(Silent))
HomeHeroSection == Page({"isTransitioning"})
HomeDeferredSections == Page({"isLoadingPosts", "isRetrying"})
HomeCategoriesSection == At(Row(Page({"isLoadingCategories"}), {"categories"}),
                            Local(Leaving(Silent)))
HomePage ==
    Screen([feed |-> usePosts_feed, results |-> usePosts_search,
            banners |-> Hero_refreshBanners, categories |-> useCatalogCategories],
           [slide |-> At(HomeHeroSection, Hero_goToSlide),
            retry |-> At(HomeDeferredSections, Home_handleRetry),
            category |-> HomeCategoriesSection])

-----------------------------------------------------------------------------
(* ComparePage. The comparison itself is not dropped when the posts that   *)
(* are compared change; what is read about them is.                        *)

Compare_fetchComparison == Following(Loader(comparePosts, {"loading"}), {})
Compare_postDetails == Guarded(Following(Loader(Function(<<LookUp(getPostById.steps[1])>>), {}), {}))
Compare_sellerProfiles ==
    Guarded(Following(Loader(Function(<<LookUp(getSellerProfile.steps[1])>>), {}), {}))
Compare_videos ==
    Blanking(Guarded(Following(Loader(getVideoRecommendations, {"videoStatus"}), {})))
ComparePage ==
    Screen([comparison |-> Compare_fetchComparison, details |-> Compare_postDetails,
            sellers |-> Compare_sellerProfiles, videos |-> Compare_videos],
           [retry |-> At(Page({"loading"}), Local(Reloading(Silent, {"comparison"}))),
            back |-> At(Page({}), Local(Leaving(Silent)))])

-----------------------------------------------------------------------------
(* AppContent asks every half minute whether the system is up.             *)

App_loadMaintenanceStatus == Guarded(Polling(Loader(getPublicStatus, {})))
AppContent == Screen([status |-> App_loadMaintenanceStatus], << >>)
============================================================================
