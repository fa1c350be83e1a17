-------------------------------- MODULE Https --------------------------------
(***************************************************************************)
(* The HTTPS client of Lua/https.c: the requests of a Lua program and the  *)
(* answers of the SDK, which all run on the main thread and share one set  *)
(* of static variables, whatever request they belong to.                   *)
(*                                                                         *)
(* A request sets up a channel, is sent when the channel is there, reads   *)
(* its answer segment by segment and gives the channel back; the buffers   *)
(* are freed when the SDK confirms that.  A channel stands for the one     *)
(* request made on it, its identifier for both.                            *)
(***************************************************************************)
EXTENDS Naturals

CONSTANTS
  Channels,     \* channels of the SDK: bound, never exhausted
  Urls          \* what the program asks for

None == 0       \* no channel: the initial value of g_channel_id

(* What is assumed of the constants.                                        *)
Constants == Channels \subseteq Nat \ {None} /\ None \notin Urls

(* A GET, a POST of a string and a POST of a table (multipart).            *)
Methods == {"get", "form", "multipart"}
NoUrl == None

VARIABLES
  channel,      \* where each channel is
  handlers,     \* the callbacks registered last: of GET or of POST
  g_channel_id,
  g_request_id,
  g_https_url,
  g_postdata,   \* and the other post buffers: the URL they are for
  g_post_type,
  \* history
  asked,        \* what each channel was set up for
  altered,      \* a request was sent that is not what was asked for
  overlapped    \* a request was made while another was in progress, or
                \* https.cancel called while another than the one it cancels

vars == <<channel, handlers, g_channel_id, g_request_id, g_https_url,
          g_postdata, g_post_type, asked, altered, overlapped>>
request == <<handlers, g_https_url, g_postdata, g_post_type, asked, overlapped>>

(* Not set up; being set up; the request is sent; more segments to come;   *)
(* answered in one segment, and nobody gives it back; its request was      *)
(* cancelled, but another channel given back; being given back.            *)
Places == {"idle", "setting", "sent", "reading", "short", "left", "unsetting"}

InProgress(c) == channel[c] \notin {"idle", "short", "left"}
IsPost(m) == m # "get"
Nothing == [method |-> "get", url |-> NoUrl]

Init ==
  /\ channel = [c \in Channels |-> "idle"]
  /\ handlers = "get"
  /\ g_channel_id = None
  /\ g_request_id = None
  /\ g_https_url = NoUrl
  /\ g_postdata = NoUrl
  /\ g_post_type = "form"
  /\ asked = [c \in Channels |-> Nothing]
  /\ altered = FALSE
  /\ overlapped = FALSE

(* vm_https_cancel(r), then vm_https_unset_channel(c): each nothing for a   *)
(* request or a channel that is not there.                                 *)
CancelAndUnset(r, c) ==
  channel' = [d \in Channels |->
                IF d = c /\ channel[d] # "idle" THEN "unsetting"
                ELSE IF d = r /\ channel[d] \in {"sent", "reading"} THEN "left"
                ELSE channel[d]]

(* vm_https_set_channel, which is answered later.                          *)
SetChannel(m, u) ==
  /\ \E c \in Channels :
       /\ channel[c] = "idle"
       /\ channel' = [channel EXCEPT ![c] = "setting"]
       /\ asked' = [asked EXCEPT ![c] = [method |-> m, url |-> u]]
  /\ overlapped' = (overlapped \/ \E d \in Channels : InProgress(d))
  /\ UNCHANGED altered

FreePostBuffers == g_https_url' = NoUrl /\ g_postdata' = NoUrl

-----------------------------------------------------------------------------
(* What a program calls.                                                   *)

MutantHttpsGet(u) ==
  /\ g_https_url' = u
  /\ SetChannel("get", u)
  /\ UNCHANGED <<handlers, g_channel_id, g_request_id, g_postdata, g_post_type>>

HttpsGet(u) ==
  /\ g_https_url' = u
  /\ handlers' = "get"
  /\ SetChannel("get", u)
  /\ UNCHANGED <<g_channel_id, g_request_id, g_postdata, g_post_type>>

HttpsPost(m, u) ==
  /\ IsPost(m)
  /\ g_https_url' = u
  /\ g_postdata' = u
  /\ g_post_type' = m
  /\ handlers' = "post"
  /\ SetChannel(m, u)
  /\ UNCHANGED <<g_channel_id, g_request_id>>

(* An argument that is wrong, a file that is not there, no memory: what is *)
(* there of the buffers is freed, that of a request in progress as well.   *)
PostFails ==
  /\ FreePostBuffers
  /\ g_post_type' \in {g_post_type, "form", "multipart"}
  /\ overlapped' = (overlapped \/ \E d \in Channels : InProgress(d))
  /\ UNCHANGED <<channel, handlers, g_channel_id, g_request_id, asked, altered>>

(* It gives back the channel that is remembered, which need not be that of *)
(* the request in progress.                                                *)
HttpsCancel ==
  /\ CancelAndUnset(g_request_id, g_channel_id)
  /\ g_channel_id' = None
  /\ overlapped' = (overlapped \/ \E c \in Channels \ {g_channel_id} :
                                     InProgress(c))
  /\ UNCHANGED <<handlers, g_request_id, g_https_url, g_postdata, g_post_type,
                 asked, altered>>

-----------------------------------------------------------------------------
(* What the SDK calls.                                                     *)

(* https_send_request_set_channel_rsp_cb or the one of POST, whichever was *)
(* registered last; only that of GET remembers the channel.  What is sent  *)
(* is what the static variables say by now; the SDK may refuse it.         *)
Outgoing ==
  IF handlers = "get"
  THEN [method |-> "get", url |-> g_https_url]
  ELSE [method |-> g_post_type,
        url |-> IF g_postdata = g_https_url THEN g_https_url ELSE NoUrl]

SetChannelRsp(c) ==
  /\ channel[c] = "setting"
  /\ g_channel_id' = IF handlers = "get" THEN c ELSE g_channel_id
  /\ altered' = (altered \/ Outgoing # asked[c])
  /\ \/ channel' = [channel EXCEPT ![c] = "sent"]
     \/ CancelAndUnset(None, c)
  /\ UNCHANGED <<request, g_request_id>>

(* _post_cb: the next field of a multipart POST, as long as there are any. *)
PostNext(c) ==
  /\ channel[c] = "sent" /\ asked[c].method = "multipart"
  /\ altered' = (altered \/ g_postdata # asked[c].url)
  /\ UNCHANGED <<request, channel, g_channel_id, g_request_id>>

UnsetChannelRsp(c) ==
  /\ channel[c] = "unsetting"
  /\ channel' = [channel EXCEPT ![c] = "idle"]
  /\ g_request_id' = None
  /\ asked' = [asked EXCEPT ![c] = Nothing]
  /\ FreePostBuffers
  /\ UNCHANGED <<handlers, g_channel_id, g_post_type, altered, overlapped>>

(* https_send_read_request_rsp_cb: the header and the first segment.       *)
RequestFails(c) ==
  /\ channel[c] = "sent"
  /\ CancelAndUnset(c, g_channel_id)
  /\ UNCHANGED <<request, g_channel_id, g_request_id, altered>>

ReadsMore(c) ==
  \/ channel' = [channel EXCEPT ![c] = "reading"]
  \/ CancelAndUnset(c, g_channel_id)

FirstSegment(c) ==
  /\ channel[c] = "sent"
  /\ g_request_id' = c
  /\ \/ ReadsMore(c)
     \/ channel' = [channel EXCEPT ![c] = "short"]
  /\ UNCHANGED <<request, g_channel_id, altered>>

(* https_send_read_read_content_rsp_cb.                                    *)
NextSegment(c) ==
  /\ channel[c] = "reading"
  /\ ReadsMore(c)
  /\ UNCHANGED <<request, g_channel_id, g_request_id, altered>>

MutantLastSegment(c) ==
  /\ channel[c] = "reading"
  /\ g_channel_id' = None
  /\ CancelAndUnset(c, g_channel_id')
  /\ UNCHANGED <<request, g_request_id, altered>>

LastSegment(c) ==
  /\ channel[c] = "reading"
  /\ CancelAndUnset(c, g_channel_id)
  /\ g_channel_id' = None
  /\ UNCHANGED <<request, g_request_id, altered>>

-----------------------------------------------------------------------------
Answers(c) ==
  \/ SetChannelRsp(c) \/ UnsetChannelRsp(c)
  \/ RequestFails(c) \/ FirstSegment(c) \/ LastSegment(c)

Next ==
  \/ \E u \in Urls : HttpsGet(u) \/ \E m \in Methods : HttpsPost(m, u)
  \/ PostFails \/ HttpsCancel
  \/ \E c \in Channels : PostNext(c) \/ NextSegment(c) \/ Answers(c)

(* The SDK answers, and no answer has infinitely many segments.            *)
Fairness == \A c \in Channels : WF_vars(Answers(c)) /\ SF_vars(LastSegment(c))

Spec == Init /\ [][Next]_vars /\ Fairness

TypeOK ==
  /\ channel \in [Channels -> Places]
  /\ handlers \in {"get", "post"}
  /\ {g_channel_id, g_request_id} \subseteq Channels \union {None}
  /\ {g_https_url, g_postdata} \subseteq Urls \union {NoUrl}
  /\ g_post_type \in {"form", "multipart"}
  /\ asked \in [Channels -> [method : Methods, url : Urls \union {NoUrl}]]
  /\ altered \in BOOLEAN /\ overlapped \in BOOLEAN

(* Safety, https.c: what is sent on a channel is what the program asked    *)
(* for, from buffers that are still there, as long as the program waits    *)
(* with a request until the earlier ones are over, and cancels only a GET  *)
(* whose channel is there.  Otherwise https.cancel gives back the channel  *)
(* an earlier answer of one segment has left, and the confirmation of that *)
(* frees the URL and the buffers of the request in progress.               *)
SendsWhatWasAsked == altered => overlapped

(* Liveness, https.c: the channel of a GET is given back in the end,       *)
(* unless its answer has one segment only, in which case nobody unsets it, *)
(* or requests overlap.  (That of a POST is not: nobody remembers it.)     *)
ChannelsAreGivenBack ==
  \A c \in Channels :
    (asked[c].method = "get" /\ InProgress(c))
      ~> (channel[c] \in {"idle", "short"} \/ overlapped)
=============================================================================
