----------------------------- MODULE MCChatRuns -----------------------------
EXTENDS ChatRuns

T(m, k) == [mode |-> m, kind |-> k]

(* Bursts that mix the sources of turns with the ways they are answered.   *)
PingFirst   == <<T("ws", "ping"), T("ws", "tool"), T("follow", "plain")>>
PostLast    == <<T("ws", "tool"), T("ws", "ping"), T("http", "chat")>>
FollowInMid == <<T("ws", "chat"), T("follow", "tool"), T("ws", "held")>>

Disturbed(turns, faults) == [turns |-> turns, faults |-> faults]

Bursts ==
    {Disturbed(PingFirst, {"cancel", "ceiling"}), Disturbed(PingFirst, {"compact"}),
     Disturbed(PingFirst, {"error", "cancel"}),
     Disturbed(PostLast, {"cancel"}), Disturbed(PostLast, {"ceiling"}),
     Disturbed(PostLast, {"compact"}), Disturbed(PostLast, {"error", "acceptWrite"}),
     Disturbed(FollowInMid, {"cancel", "ceiling"}),
     Disturbed(FollowInMid, {"evict", "cancel"})}

(* A ping, then an ask that needs a tool; nothing is disturbed. *)
PingThenTool == {Disturbed(<<T("ws", "ping"), T("ws", "tool")>>, {})}
=============================================================================
