CONSTANTS
  j1 = j1
  j2 = j2
  Joints <- MCJoints
  Bench = FALSE
  Configs <- MCConfigs
SPECIFICATION Spec
SYMMETRY JointSymmetry
INVARIANTS EnergisedIsGated 
PROPERTIES FaultDisablesDrives ArmSpec
