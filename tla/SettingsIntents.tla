--------------------------- MODULE SettingsIntents ---------------------------
(* What is in a document of guild_settings, what it is loaded as, and what  *)
(* the commands, the site and the gateway want to make of it.  The fields   *)
(* are those that two writers share or that one derives from another.       *)
EXTENDS FiniteSets

CONSTANTS
    Channels,   \* voice channels the bot may be asked to stay in
    Users,      \* members of the auto-unmute list
    Kinds,      \* categories of activity events
    NoChannel

Modes == {"off", "minimal", "full"}   \* the list of activity event types

Places == Channels \cup {NoChannel}
TrackingModes == {"all", "none", "specific"}

Values == [managed : Places, connected : BOOLEAN, events : Modes, unmute : SUBSET Users, fallback : BOOLEAN,
           tracking : TrackingModes, tracked : SUBSET Channels, activity : [Kinds \cup {"other"} -> Places]]

NoActivity == [k \in Kinds \cup {"other"} |-> NoChannel]

(* GuildSettings(guild_id): no document yet *)
Fresh == [managed |-> NoChannel, connected |-> FALSE, events |-> "full", unmute |-> {}, fallback |-> FALSE,
          tracking |-> "all", tracked |-> {}, activity |-> NoActivity]

(* GuildSettings.from_mongo: an empty list of event types is loaded as the  *)
(* whole list. *)
Loaded(v) == [v EXCEPT !.events = IF @ = "off" THEN "full" ELSE @]

(* Service._prepare_for_save *)
Prepared(v) == [v EXCEPT !.connected = @ /\ v.managed # NoChannel]

Connects == [op : {"connect"}, channel : Channels]
Joins == [op : {"join"}, channel : Channels]
SetsMode == [op : {"mode"}, mode : Modes]
Tracks == [op : {"track", "untrack"}, channel : Channels]
SetsTracked == [op : {"tracked"}, channels : SUBSET Channels]
SetsTracking == [op : {"tracking"}, to : TrackingModes]
SetsActivity == [op : {"activity"}, kind : Kinds \cup {"other"}, channel : Places]
Adds == [op : {"add"}, user : Users]
Removes == [op : {"remove"}, user : Users]
Applies == [op : {"site"}, channel : Places, mode : Modes, users : SUBSET Users]
Plain == [op : {"disconnect", "leave", "connected", "disconnected", "fallback", "untrack all", "clear activity"}]

Intents == Tracks \cup SetsTracked \cup SetsTracking \cup SetsActivity \cup Connects \cup Joins \cup SetsMode \cup Adds \cup Removes \cup Applies \cup Plain

(* "apply" of an intent returns False: nothing is to be written. *)
Skips(i, v) ==
    \/ i.op = "connected" /\ v.connected
    \/ i.op = "disconnected" /\ ~v.connected
    \/ i.op = "fallback" /\ v.fallback

Listed(ids) == IF ids = {} THEN "none" ELSE "specific"
Tracking(v, ids) == Prepared([v EXCEPT !.tracked = ids, !.tracking = IF @ = "all" THEN "all" ELSE Listed(ids)])

Applied(i, v) ==
    CASE i.op = "connect"      -> Prepared([v EXCEPT !.managed = i.channel])
      [] i.op = "disconnect"   -> Prepared([v EXCEPT !.managed = NoChannel])
      [] i.op = "mode"         -> Prepared([v EXCEPT !.events = i.mode])
      [] i.op = "fallback"     -> Prepared([v EXCEPT !.fallback = TRUE])
      [] i.op = "track"        -> Tracking(v, v.tracked \cup {i.channel})
      [] i.op = "untrack"      -> Tracking(v, v.tracked \ {i.channel})
      [] i.op = "untrack all"  -> Tracking(v, {})
      [] i.op = "tracked"      -> Prepared([v EXCEPT !.tracked = i.channels, !.tracking = Listed(i.channels)])
      [] i.op = "tracking"     -> Prepared([v EXCEPT !.tracking = i.to])
      [] i.op = "activity"     -> Prepared([v EXCEPT !.activity[i.kind] = i.channel])
      [] i.op = "clear activity" -> Prepared([v EXCEPT !.activity = NoActivity])
      [] i.op = "join"         -> [v EXCEPT !.managed = i.channel]
      [] i.op = "leave"        -> [v EXCEPT !.managed = NoChannel, !.connected = FALSE]
      [] i.op = "add"          -> [v EXCEPT !.unmute = @ \cup {i.user}]
      [] i.op = "remove"       -> [v EXCEPT !.unmute = @ \ {i.user}]
      [] i.op = "connected"    -> [v EXCEPT !.connected = TRUE]
      [] i.op = "disconnected" -> [v EXCEPT !.connected = FALSE]
      [] i.op = "site"         -> [v EXCEPT !.managed = i.channel, !.events = i.mode, !.unmute = i.users]
=============================================================================
