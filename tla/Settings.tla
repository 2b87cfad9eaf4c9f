------------------------------ MODULE Settings ------------------------------
(***************************************************************************)
(* DataCollector::Settings: what config.yaml turns on, and the streams     *)
(* DataCollector::start() makes of it, in the order it starts them.  A     *)
(* YAML mapping is a function from the keys it has.  The texts and the     *)
(* queues' capacities are left out.                                        *)
(***************************************************************************)
EXTENDS Sequences

\* node[key].as<T>(default)
As(node, key, default) == IF key \in DOMAIN node THEN node[key] ELSE default

Empty == [key \in {} |-> FALSE]

\* the sections of one switch each
Section == {"lowstate", "dex3", "uwb", "lowcmd", "arm_sdk", "dex3_cmd", "motion_token"}

IsRecorded(cam) == As(cam, "enabled", TRUE) /\ As(cam, "name", "") # ""

cameras(root) ==
    LET rs == As(root, "realsense_cameras", [enabled |-> FALSE])
        list == SelectSeq(As(rs, "cameras", <<>>), IsRecorded)
    IN  IF As(rs, "enabled", TRUE) THEN [i \in DOMAIN list |-> list[i].name] ELSE <<>>

from_yaml(root) ==
    [cameras |-> cameras(root),
     enabled |-> {s \in Section : As(As(root, s, Empty), "enabled", FALSE)}]

\* what start() asks before it makes a session
SomethingEnabled(settings) == settings.cameras # <<>> \/ settings.enabled # {}

\* the streams of a section
Of(section) ==
    CASE section = "dex3" -> <<<<"hand", "left">>, <<"hand", "right">>>>
      [] section = "dex3_cmd" -> <<<<"hand_cmd", "left">>, <<"hand_cmd", "right">>>>
      [] OTHER -> <<<<section>>>>

If(settings, section) == IF section \in settings.enabled THEN Of(section) ELSE <<>>

Streams(settings) ==
    [i \in DOMAIN settings.cameras |-> <<"camera", settings.cameras[i]>>]
    \o If(settings, "lowstate") \o If(settings, "dex3") \o If(settings, "uwb")
    \o If(settings, "lowcmd") \o If(settings, "arm_sdk")
    \o If(settings, "dex3_cmd") \o If(settings, "motion_token")

\* those that are one pointer each, with plain members for the last report
Scalar == {<<"lowstate">>, <<"uwb">>, <<"motion_token">>}
=============================================================================
