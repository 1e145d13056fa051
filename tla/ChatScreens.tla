---------------------------- MODULE ChatScreens ----------------------------
(***************************************************************************)
(* The screens of apps/web/src/features/chat, in the terms of ScreenForms. *)
(* What the realtime connection does is in module ChatClient.              *)
(***************************************************************************)
EXTENDS SharedScreens

-----------------------------------------------------------------------------
(* useChatList and ChatPage                                                *)

\* The conversations are shown before the names of the people are known; a
\* name that cannot be read is replaced by a number.
ChatList_fetchChats ==
    Blanking(Guarded(Loader(Function(getRecentChats.steps
                                       \o <<LookUp(getUser.steps[1])>>),
                            {"isLoadingChats"})))
\* A message from somebody who is not in the list asks for the name.
ChatList_onMessageReceived == Guarded(Polling(OnDemand(Loader(getUser, {}))))
\* The person the route names, when the list does not have the name yet.
ChatPage_selectedUser == Guarded(Following(Loader(getUser, {}), {}))
ChatPage_handlePageBack == Local(Leaving(Silent))
ChatPage ==
    Screen([fetchChats |-> ChatList_fetchChats, nameOf |-> ChatList_onMessageReceived,
            selected |-> ChatPage_selectedUser],
           [retry |-> At(Page({"isLoadingChats"}), Local(Reloading(Silent, {"fetchChats"}))),
            back |-> At(Page({}), ChatPage_handlePageBack)])

-----------------------------------------------------------------------------
(* useChat and ChatWindow. The window has the conversation for its key: it *)
(* is mounted anew for another one.                                        *)

Chat_loadHistory == Blanking(Guarded(Loader(getChatHistory, {"isLoading"})))
ChatWindow_refreshPresence == Blanking(Polling(Loader(getPresence, {})))

\* chatService.sendMessage throws what it cannot send.
Chat_sendMessage == Function(<<Send(Reading(parseSentChatMessagePayload, "throw"))>>)
Chat_sendImageMessage == sendImageMessage
\* isSending is set by every run and cleared by the first that ends.
ChatWindow_handleSend(service) ==
    Marking(Handler({}, <<Call(service, Fails, Fails)>>, Patching(Silent)), "isSending", {})
ChatWindow_sendButton == Page({"isSending"})
\* The Enter key does not ask whether a message is being sent.
ChatWindow_enterKey == Page({})
ChatWindow_downloadImage == Handler({}, <<Ignored(Function(<<Get(Reading(Replied, "throw"))>>))>>, Silent)
ChatWindow ==
    Screen([history |-> Chat_loadHistory, presence |-> ChatWindow_refreshPresence],
           [send |-> At(ChatWindow_sendButton, ChatWindow_handleSend(Chat_sendMessage)),
            sendImage |-> At(ChatWindow_sendButton, ChatWindow_handleSend(Chat_sendImageMessage)),
            enter |-> At(ChatWindow_enterKey, ChatWindow_handleSend(Chat_sendMessage)),
            download |-> At(Row(Page({}), {"history"}), ChatWindow_downloadImage),
            report |-> ReportPostDialog,
            back |-> At(Page({}), Local(Leaving(Silent)))])
============================================================================
