----------------------------- MODULE RowSchemas -----------------------------
(***************************************************************************)
(* The CSV schemas of the SDK assemblies: what columns the header of each  *)
(* file names, and what the row of a message has in each.  A cell is named *)
(* after the field it prints; how a number is printed is left out.         *)
(*                                                                         *)
(* LowState_, LowCmd_ and MotionTokenState carry arrays; the hand's state  *)
(* and command carry vectors, of whatever size the publisher likes, and    *)
(* the columns are fixed.                                                  *)
(***************************************************************************)
EXTENDS Integers, Sequences

kLowstateMotors == 35
kLowcmdMotors == 35
kDex3Motors == 7
kDex3PressPads == 9
kDex3PressChannel == 12
kDex3CmdMotors == 7
kMotionTokenDim == 64

\* the sizes of the arrays in the messages
ArrayMotors == 35
ArrayToken == 64

Assemblies == {"lowstate", "lowcmd", "dex3", "dex3_cmd", "motion_token", "uwb"}

\* a message, by the sizes of its vectors
Message == [motors : Nat, pads : Nat]

\* the column of a message's own field, and that of a field in a slot
Field(name) == <<name>>
SlotField(table, slot, name) == <<table, slot, name>>
Fields(names) == [i \in 1..Len(names) |-> Field(names[i])]

\* the columns of n slots of a table, slot by slot
Table(table, n, names) ==
    [c \in 1..n * Len(names) |->
        SlotField(table, (c - 1) \div Len(names), names[1 + ((c - 1) % Len(names))])]

\* what a row has for a slot the message does not
Zero == <<>>

\* Mutant: a row with the slots the message has.
AsManyAsTheMessage(table, n, have, names) == Table(table, have, names)

\* the cells of n slots of a table, of which the message has some
Padded(table, n, have, names) ==
    [c \in 1..n * Len(names) |->
        IF (c - 1) \div Len(names) < have THEN Table(table, n, names)[c] ELSE Zero]
-----------------------------------------------------------------------------
lowstate_header ==
    Fields(<<"recv_ns", "tick", "mode_machine", "mode_pr",
             "quat_w", "quat_x", "quat_y", "quat_z", "gyro_x", "gyro_y", "gyro_z",
             "accel_x", "accel_y", "accel_z", "rpy_roll", "rpy_pitch", "rpy_yaw", "imu_temp">>)
    \o Table("m", kLowstateMotors, <<"q", "dq", "ddq", "tau">>)

lowstate_row(msg) ==
    Fields(<<"recv_ns", "tick", "mode_machine", "mode_pr">>)
    \o Fields(<<"quat_w", "quat_x", "quat_y", "quat_z">>)
    \o Fields(<<"gyro_x", "gyro_y", "gyro_z">>)
    \o Fields(<<"accel_x", "accel_y", "accel_z">>)
    \o Fields(<<"rpy_roll", "rpy_pitch", "rpy_yaw">>) \o Fields(<<"imu_temp">>)
    \o Table("m", ArrayMotors, <<"q", "dq", "ddq", "tau">>)

lowcmd_header ==
    Fields(<<"recv_ns", "mode_pr", "mode_machine">>)
    \o Table("m", kLowcmdMotors, <<"mode", "q", "dq", "tau", "kp", "kd">>)

lowcmd_row(msg) ==
    Fields(<<"recv_ns", "mode_pr", "mode_machine">>)
    \o Table("m", ArrayMotors, <<"mode", "q", "dq", "tau", "kp", "kd">>)

Channels == [c \in 1..kDex3PressChannel |-> c - 1]

dex3_header ==
    Fields(<<"recv_ns">>) \o Table("f", kDex3Motors, <<"q", "dq", "ddq", "tau">>)
    \o Table("press", kDex3PressPads, Channels)

dex3_row(msg) ==
    Fields(<<"recv_ns">>)
    \o Padded("f", kDex3Motors, msg.motors, <<"q", "dq", "ddq", "tau">>)
    \o Padded("press", kDex3PressPads, msg.pads, Channels)

dex3_cmd_header ==
    Fields(<<"recv_ns">>)
    \o Table("f", kDex3CmdMotors, <<"mode", "q", "dq", "tau", "kp", "kd">>)

dex3_cmd_row(msg) ==
    Fields(<<"recv_ns">>)
    \o Padded("f", kDex3CmdMotors, msg.motors, <<"mode", "q", "dq", "tau", "kp", "kd">>)

motion_token_header ==
    Fields(<<"recv_ns", "stamp_ns", "seq", "arbiter_mode", "encoder_mode">>)
    \o Table("t", kMotionTokenDim, <<"token">>)

\* The loop is over the header's dimension; behind the array it would read
\* what is not there.
motion_token_row(msg) ==
    Fields(<<"recv_ns", "stamp_ns", "seq", "arbiter_mode", "encoder_mode">>)
    \o SubSeq(Table("t", ArrayToken, <<"token">>), 1, kMotionTokenDim)

kUwbCsvHeader == Fields(<<"recv_ns", "stamp_ns", "x", "y", "z">>)

uwb_row(msg) == Fields(<<"recv_ns", "stamp_ns", "x", "y", "z">>)

\* what each assembly hands to open()
Header(assembly) ==
    CASE assembly = "lowstate" -> lowstate_header
      [] assembly = "lowcmd" -> lowcmd_header
      [] assembly = "dex3" -> dex3_header
      [] assembly = "dex3_cmd" -> dex3_cmd_header
      [] assembly = "motion_token" -> motion_token_header
      [] assembly = "uwb" -> kUwbCsvHeader

Row(assembly, msg) ==
    CASE assembly = "lowstate" -> lowstate_row(msg)
      [] assembly = "lowcmd" -> lowcmd_row(msg)
      [] assembly = "dex3" -> dex3_row(msg)
      [] assembly = "dex3_cmd" -> dex3_cmd_row(msg)
      [] assembly = "motion_token" -> motion_token_row(msg)
      [] assembly = "uwb" -> uwb_row(msg)

\* the columns of slots the message does not have
Lacks(msg, column) == \/ column[1] = "f" /\ column[2] >= msg.motors
                      \/ column[1] = "press" /\ column[2] >= msg.pads

\* Under every one of the columns there is that column's field, or a zero
\* where the message has none, and nothing more.
Under(msg, cells, columns) ==
    /\ Len(cells) = Len(columns)
    /\ \A c \in 1..Len(columns) :
          cells[c] = IF Lacks(msg, columns[c]) THEN Zero ELSE columns[c]

Fits(assembly, msg) == Under(msg, Row(assembly, msg), Header(assembly))
=============================================================================
