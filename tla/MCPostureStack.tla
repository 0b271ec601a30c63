---------------------------- MODULE MCPostureStack --------------------------
EXTENDS PostureStack

(* One switch, which shapes the stack and asks for one posture service.    *)
MCAxes == {"gcp"}
MCRungs == {"off", "on"}
MCLevels == [a \in MCAxes |-> MCRungs]
MCDefault == [a \in MCAxes |-> "off"]
NoEmergency == [a \in MCAxes |-> {}]
GcpEmergency == [a \in MCAxes |-> IF a = "gcp" THEN {"on"} ELSE {}]
MCRank == [a \in MCAxes |-> 0]
MCServices == {[name |-> "metadata-emulator", switch |-> "gcp", levels |-> {"on"}]}
=============================================================================
