---------------------------- MODULE MCGpioSampler ----------------------------
(* Online, charging, percent: on battery, charging, and a percent more.     *)
EXTENDS GpioSampler

MCPowers == {<<0, 0, 50>>, <<1, 1, 50>>, <<1, 1, 51>>}
=============================================================================
