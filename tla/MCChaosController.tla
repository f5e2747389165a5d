-------------------------- MODULE MCChaosController --------------------------
EXTENDS ChaosController
CONSTANT b1
OneBrowser == {b1}
TheActions == {Ask(name, "user-service") : name \in Names}
TheBeside == {Ask("kill_pod", "user-service")}
TheScenarios == SCENARIOS
=============================================================================
