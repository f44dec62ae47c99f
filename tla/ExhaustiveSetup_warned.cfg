SPECIFICATION Spec
CONSTANT Configs <- MCConfigs
INVARIANT IgnoredIsWarned
