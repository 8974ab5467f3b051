CONSTANTS
  Main = Main
  Server = Server
  Runner = Runner
  Nobody = Nobody
SPECIFICATION FairSpec
INVARIANTS TypeOK LockDiscipline NoLostStart
PROPERTIES ImplementsSwitch StartTakesEffect StopQuiesces CallsReturn
