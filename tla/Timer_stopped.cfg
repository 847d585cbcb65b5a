\* One timer is enough: it is due together with one of another Timer.
CONSTANT MaxTimers = 1
SPECIFICATION Spec
PROPERTY StoppedIsSilent
