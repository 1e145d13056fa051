---------------------------- MODULE ApiServices ----------------------------
(***************************************************************************)
(* The service functions of apps/web/src/services/api: what each of them   *)
(* asks the server for, and what its caller is told for every answer.      *)
(*                                                                         *)
(* A service function is a list of requests made one after the other.      *)
(* Each request has a map `on' from the possible answers of apiRequest     *)
(* (module ApiClient) to what the function does with it:                   *)
(*   "ok"     it reads the answer and goes on, or returns success;         *)
(*   "skip"   it carries on without the answer;                            *)
(*   "no"     it stops and returns failure, FALSE or null;                 *)
(*   "empty"  it stops and returns an empty list or zero, which its caller *)
(*            cannot tell from a real answer;                              *)
(*   "throw"  it stops and throws.                                         *)
(* `check' is what the function returns for an argument it refuses before  *)
(* any request is made ("ok" when it refuses none).                        *)
(***************************************************************************)
EXTENDS Sequences

\* The answers of apiRequest. A 2xx carries a body the reader knows ("full"),
\* an object without the fields looked for ("odd"), no object at all ("void"),
\* or an object whose own success flag is false ("declined").
Replied == {"full", "odd", "void", "declined"}
Failed == {"gone", "unavailable", "refused", "lost"}
Answers == Replied \cup Failed
Results == {"ok", "skip", "no", "empty", "throw"}

-----------------------------------------------------------------------------
(* Readers: the set of answers each parser takes for a value.              *)

asRecord == {"full", "odd", "declined"}
isBoolean == {"full"}
isArray == {"full"}
parseRawPost == asRecord
parsePostsEnvelope == {"full"}
parseCategoryPayload == {"full"}
parseCategoryCollectionPayload == {"full"}
parseCategoryExistsPayload == {"full"}
isChatMessagesPayload == {"full"}
parseSentChatMessagePayload == {"full"}
parsePresencePayload == asRecord
parsePostComment == {"full"}
parseCommentListResponse == asRecord
parseUserSchema == {"full"}
parseAuthEnvelope == asRecord
parseFavoritesEnvelope == {"full"}
parseFavoriteMutationSuccess == {"full"}
parseRawReview == asRecord
parseRawReviewsCollection == {"full"}
normalizeRoleRecord == {"full"}
normalizeChatMessage == {"full"}
extractUploadedImageUrl == {"full"}
parseTwoFactorStatusPayload == asRecord
parseTwoFactorSetupStartPayload == asRecord \ {"declined"}
handleAuthSuccessPayload == parseAuthEnvelope \ {"declined"}
hasMatchingUserIdentity == {"full"}

-----------------------------------------------------------------------------
(* Forms of a request.                                                     *)

Reading(read, otherwise) ==
    [a \in Answers |-> IF a \in read THEN "ok" ELSE otherwise]

\* The caller of an optional request goes on whatever it answers.
Optional(on) == [a \in Answers |-> IF on[a] = "ok" THEN "ok" ELSE "skip"]

Get(on) == [writes |-> FALSE, erases |-> FALSE, flagged |-> FALSE, on |-> on]
Send(on) == [Get(on) EXCEPT !.writes = TRUE]
\* A DELETE: an answer 404 says that there is nothing left to delete.
Erase(on) == [Send(on) EXCEPT !.erases = TRUE]
\* An endpoint whose body has a success flag of its own.
Flagged(step) == [step EXCEPT !.flagged = TRUE]

Function(steps) == [check |-> "ok", steps |-> steps]
Checked(refusal, steps) == [check |-> refusal, steps |-> steps]

-----------------------------------------------------------------------------
(* Lookups that other functions make on the way.                           *)

\* A name that is not in the list that was read, or in the empty list that
\* stands for a failed read, resolves to undefined.
resolveCategoryId == Get(Reading({"full"}, "no"))
resolveCityId == Get(Reading({"full"}, "no"))
resolveAreaId == Get(Reading({"full"}, "no"))

LookUp(step) == [step EXCEPT !.on = Optional(step.on)]

getCities == Function(<<Get(Reading(isArray, "empty"))>>)
getAreasByCity == Checked("empty", <<Get(Reading(isArray, "empty"))>>)

enrichPostsWithCategoryAndSeller == Get(Optional(Reading({"full"}, "no")))
getPostImageRowsByPostId == Get(Optional(Reading(isArray, "empty")))

-----------------------------------------------------------------------------
(* auth.ts                                                                 *)

login == Function(<<Flagged(Send(Reading(handleAuthSuccessPayload, "no")))>>)
verifyTwoFactorLogin == Function(<<Flagged(Send(Reading(handleAuthSuccessPayload, "no")))>>)
getTwoFactorStatus == Function(<<Get(Reading(parseTwoFactorStatusPayload, "no"))>>)
getTwoFactorChallenge == Function(<<Get(Reading(handleAuthSuccessPayload, "no"))>>)
startTwoFactorSetup ==
    Function(<<Flagged(Send(Reading(parseTwoFactorSetupStartPayload, "no")))>>)
confirmTwoFactorSetup == Function(<<Send(Reading(Replied, "no"))>>)
disableTwoFactor == Function(<<Send(Reading(Replied, "no"))>>)
signup ==
    Checked("no", <<resolveCityId, resolveAreaId,
                    Flagged(Send(Reading(handleAuthSuccessPayload, "no")))>>)
register == signup
requestPasswordReset == Function(<<Send(Reading(Replied, "no"))>>)
verifyPasswordResetCode == Function(<<Send(Reading(Replied, "no"))>>)
confirmPasswordReset == Function(<<Send(Reading(Replied, "no"))>>)
logout == Function(<<Send(Optional(Reading(Replied, "no")))>>)
getCurrentUser == Function(<<Get(Reading(Replied, "no"))>>)
verifyEmail == Function(<<Flagged(Send(Reading(handleAuthSuccessPayload, "no")))>>)
\* The answer never tells whether the account exists: failure reads as success.
resendVerificationEmail == Function(<<Send(Optional(Reading(Replied, "no")))>>)

-----------------------------------------------------------------------------
(* users.ts                                                                *)

getUser ==
    Checked("throw", <<
        Get([Reading(hasMatchingUserIdentity \cap parseUserSchema, "throw")
               EXCEPT !["gone"] = "no"])>>)
updateUser == Checked("throw", <<Send(Reading(Replied, "throw"))>>)
uploadAvatar == Checked("throw", <<Send(Reading(asRecord, "throw"))>>)
getAllUsers == Function(<<Get(Reading(isArray, "no"))>>)
createUser ==
    Checked("no", <<LookUp(resolveCityId), LookUp(resolveAreaId),
                    Send(Reading(Replied, "no"))>>)
deleteUser == Checked("no", <<Erase(Reading(Replied, "no"))>>)
\* The answer is a Boolean: "full" says that the user exists, "odd" that not.
exists == Checked("throw", <<Get([Reading(isBoolean, "throw") EXCEPT !["odd"] = "no"])>>)
\* The whole user is read and written back with the changed field: what
\* another administrator wrote in between is overwritten.
updateUserWithAdminPatch == getUser.steps \o <<Send(Reading(Replied, "no"))>>
updateUserStatus == Checked("throw", updateUserWithAdminPatch)
updateUserRole == Checked("no", updateUserWithAdminPatch)

-----------------------------------------------------------------------------
(* admin.ts, admin-locations.ts, admin-banners.ts                          *)

getStats == Function(<<Get(Reading(asRecord, "throw"))>>)
getAnalytics == Function(<<Get(Reading(asRecord, "throw"))>>)
getPosts == Function(<<Get(Reading(asRecord, "throw"))>>)
adminUpdatePostStatus == Function(<<Send(Reading(Replied, "no"))>>)
softDeletePost == Function(<<Erase(Reading(Replied, "no"))>>)
getUserDetails == Function(<<Get(Reading(asRecord, "no"))>>)
getReviews == Function(<<Get(Reading(asRecord, "throw"))>>)
deleteReview == Function(<<Erase(Reading(Replied, "no"))>>)
getPostComments == Function(<<Get(Reading(asRecord, "throw"))>>)
\* A comment that is already gone counts as deleted.
deletePostComment ==
    Function(<<Erase([Reading(Replied, "no") EXCEPT !["gone"] = "ok"])>>)
getAuditLogs == Function(<<Get(Reading(asRecord, "throw"))>>)
getSettings == Function(<<Get(Reading(asRecord, "throw"))>>)
updateSetting == Function(<<Send(Reading(Replied, "no"))>>)
getReports == Function(<<Get(Reading(asRecord, "throw"))>>)
updateReportStatus == Function(<<Send(Reading(Replied, "no"))>>)
getPermissions == Function(<<Get(Reading(asRecord, "throw"))>>)
getRolePermissions == Function(<<Get(Reading(asRecord, "throw"))>>)
updateRolePermissions == Function(<<Send(Reading(Replied, "no"))>>)
bulkUpdateUserStatus == Function(<<Send(Reading(Replied, "no"))>>)
suspendUser == Function(<<Send(Reading(asRecord, "no"))>>)

adminGetCities == Function(<<Get(Reading(asRecord, "throw"))>>)
createCity == Function(<<Send(Reading(Replied, "throw"))>>)
updateCity == Function(<<Send(Reading(Replied, "throw"))>>)
deleteCity == Function(<<Erase(Reading(Replied, "throw"))>>)
createArea == Function(<<Send(Reading(Replied, "throw"))>>)
updateArea == Function(<<Send(Reading(Replied, "throw"))>>)
deleteArea == Function(<<Erase(Reading(Replied, "throw"))>>)

getBanners == Function(<<Get(Reading({"full"}, "empty"))>>)
createBanner == Function(<<Send(Reading(Replied, "no"))>>)
updateBanner == Function(<<Send(Reading(Replied, "no"))>>)
deleteBanner == Function(<<Erase(Reading(Replied, "no"))>>)
toggleBannerActive == Function(<<Send(Reading(Replied, "no"))>>)
uploadBannerImage == Checked("no", <<Send(Reading({"full"}, "no"))>>)

-----------------------------------------------------------------------------
(* roles.ts and categories.ts. A created or changed record whose echo      *)
(* cannot be read is reported as a failure although it is stored.          *)

getRoles == Function(<<Get(Reading(isArray, "empty"))>>)
getRole == Checked("no", <<Get(Reading(normalizeRoleRecord, "no"))>>)
createRole == Checked("no", <<Send(Reading(normalizeRoleRecord, "no"))>>)
updateRole == Checked("no", <<Send(Reading(normalizeRoleRecord, "no"))>>)
deleteRole == Checked("no", <<Erase(Reading(Replied, "no"))>>)
roleExists == Checked("no", <<Get(Reading(isBoolean, "no"))>>)

getCategories ==
    Function(<<Get([a \in Answers |->
                      IF a \in parseCategoryCollectionPayload THEN "ok"
                      ELSE IF a \in Replied THEN "empty" ELSE "no"])>>)
getCategory == Checked("no", <<Get(Reading(parseCategoryPayload, "no"))>>)
createCategory == Checked("no", <<Send(Reading(parseCategoryPayload, "no"))>>)
updateCategory == Checked("no", <<Send(Reading(parseCategoryPayload, "no"))>>)
deleteCategory == Checked("no", <<Erase(Reading(Replied, "no"))>>)
categoryExists == Checked("no", <<Get(Reading(parseCategoryExistsPayload, "no"))>>)
uploadCategoryImage == Checked("no", <<Send(Reading(Replied, "no"))>>)

-----------------------------------------------------------------------------
(* posts                                                                   *)

resolveCurrentUserId == Get(Reading({"full"}, "no"))
createPostImageFromUrl == Send(Optional(Reading(Replied, "no")))
uploadPostImageFile == Send(Optional(Reading(extractUploadedImageUrl, "no")))
createPostImages == <<uploadPostImageFile>>
deletePostImage == Erase(Optional(Reading(Replied, "no")))
\* The images a post has are deleted before the new ones are uploaded.
replacePostImages ==
    <<getPostImageRowsByPostId, deletePostImage>> \o createPostImages
createPost ==
    Function(<<resolveCurrentUserId, resolveCategoryId, LookUp(resolveCityId),
               LookUp(resolveAreaId), Send(Reading({"full"}, "no"))>>
             \o createPostImages \o <<enrichPostsWithCategoryAndSeller>>)
updatePost ==
    Checked("no", <<Get(Reading({"full"}, "no")), LookUp(resolveCityId),
                    LookUp(resolveAreaId), LookUp(resolveCategoryId),
                    Send(Reading(parseRawPost, "no"))>>
                  \o replacePostImages)
updatePostStatus == Checked("no", <<Send(Reading(parseRawPost, "no"))>>)
deletePost == Checked("no", <<Erase(Reading(Replied, "no"))>>)
getPostById ==
    Function(<<Get([Reading({"full"}, "throw") EXCEPT !["gone"] = "no"]),
               getPostImageRowsByPostId, enrichPostsWithCategoryAndSeller>>)
fetchFeedPage ==
    <<Get(Reading(parsePostsEnvelope, "no")), enrichPostsWithCategoryAndSeller>>
getPostsFromFeed == Function(fetchFeedPage)
search ==
    Function(<<Get(Reading(parsePostsEnvelope, "no")),
               enrichPostsWithCategoryAndSeller>>)
getSellerProfile == Checked("no", <<Get(Reading(asRecord, "no"))>>)
getTopSellers == Function(<<Get(Reading(isArray, "empty"))>>)
getPostsByUserId == Checked("throw", <<Get(Reading({"full"}, "throw"))>>)
trackPostView == Function(<<Send(Reading(Replied, "no"))>>)

-----------------------------------------------------------------------------
(* comments, reviews, reports, favorites, notifications, chat, compare     *)

getComments == Function(<<Get(Reading(parseCommentListResponse, "no"))>>)
getReplies == Function(<<Get(Reading(parseCommentListResponse, "no"))>>)
addComment == Function(<<Send(Reading(parsePostComment, "no"))>>)
updateComment == Function(<<Send(Reading(parsePostComment, "no"))>>)
deleteComment == Function(<<Erase(Reading(Replied, "no"))>>)

getUserReviews == Checked("empty", <<Get(Reading(parseRawReviewsCollection, "empty"))>>)
getSellerRating == Checked("empty", <<Get(Reading({"full"}, "empty"))>>)
addReview == Checked("no", <<Send(Reading(parseRawReview, "no"))>>)
submitReport == Checked("no", <<Send(Reading(Replied, "no"))>>)

getFavorites == Function(<<Get(Reading(parseFavoritesEnvelope, "throw"))>>)
mutateFavorite == <<Flagged(Send(Reading(parseFavoriteMutationSuccess, "no")))>>
addFavorite == Checked("no", mutateFavorite)
removeFavorite == Checked("no", mutateFavorite)

getNotifications == Function(<<Get(Reading({"full"}, "throw"))>>)
getUnreadCountResult == Function(<<Get(Reading(asRecord, "empty"))>>)
getUnreadCount == getUnreadCountResult
markAsRead == Checked("no", <<Send(Reading({"full"}, "no"))>>)
markAllAsRead == Function(<<Send(Reading(asRecord, "throw"))>>)

fetchChatMessages == <<Get(Reading(isChatMessagesPayload, "throw"))>>
getRecentChats == Function(fetchChatMessages)
getChatHistory == Checked("throw", fetchChatMessages)
getPresence == Checked("throw", <<Get(Reading(parsePresencePayload, "throw"))>>)
sendMessage == Checked("no", <<Send(Reading(parseSentChatMessagePayload
                                            \cap normalizeChatMessage, "no"))>>)
sendImageMessage == Checked("throw", <<Send(Reading(parseSentChatMessagePayload
                                            \cap normalizeChatMessage, "throw"))>>)

comparePosts == Function(<<Send(Reading(Replied, "throw"))>>)
getVideoRecommendations == Function(<<Send(Reading(Replied, "throw"))>>)
getActiveBanners == Function(<<Get(Reading({"full"}, "no"))>>)
\* No answer counts as a system that is up: only a 503 reports an outage.
normalizePublicSystemStatusResponse ==
    [Reading(Replied, "empty") EXCEPT !["unavailable"] = "no"]
getPublicStatus == Function(<<Get(normalizePublicSystemStatusResponse)>>)
============================================================================
