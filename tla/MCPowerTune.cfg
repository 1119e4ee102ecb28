SPECIFICATION FairSpec
CONSTANTS
  Boot = boot
  Hook = hook
  Writers = {boot, hook, shell}
  MaxByHand = 1
  Nobody = Nobody
  BootMbus = 300
  BootAhb1 = 200
  IdleMbus = 150
  IdleAhb1 = 100
  MaxErrors = 2
INVARIANT ModeIsHonest
PROPERTIES WritesReturn FollowsTraffic RaceHeals
