SPECIFICATION SemaphoreFairSpec
CONSTANTS
  Callers = {c1, c2, c3, c4, c5}
  SPAWN_CAP = 2
INVARIANTS CeilingUnlessBarged
PROPERTIES FirstComeFirstServed WaitersGetIn
