--------------------------- MODULE MCPositionRouter ---------------------------
(* Small instances of PositionRouter for TLC.                              *)
EXTENDS PositionRouter, TLC

CONSTANTS alice, bob, keeper, weth, usdc

Delay(keepers, public, max) ==
    [minBlockDelayKeeper |-> keepers, minTimeDelayPublic |-> public,
     maxTimeDelay |-> max]
UsualDelays == Delay(1, 0, 1)
(* Requests that expire before the keepers may touch them.                 *)
TightDelays == Delay(1, 1, 0)
AdminDelays == {UsualDelays, TightDelays}
NoKeepers == {{}}
TokenPath == {<<usdc>>}
SwapPaths == {<<weth>>, <<usdc, weth>>}
=============================================================================
